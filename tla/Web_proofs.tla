----------------------------- MODULE Web_proofs -----------------------------
(***************************************************************************)
(* Safety of the web application.  First of the session of a browser and   *)
(* of the account behind it, for any number of tabs, of other devices and  *)
(* of sessions: what keeps the two tokens of the store together, what      *)
(* keeps a session alive, and what the counter of failed attempts counts.  *)
(* Then of the pages of documents, for any documents, calls in flight and  *)
(* editors, and every page: that one editor at a time saves what it shows, *)
(* that it creates its document once, and that what was typed in it stays. *)
(***************************************************************************)
EXTENDS WebSession, DocumentPages, FiniteSetTheorems, TLAPS

-----------------------------------------------------------------------------
(* The session and the account                                              *)

AccountRow == [pw : Password, tries : Nat, locked : BOOLEAN, active : BOOLEAN,
               gone : BOOLEAN, ver : Nat, fails : Nat, raced : BOOLEAN,
               lapsed : BOOLEAN]
Request == [pc : Pc, op : Operation \cup {[kind |-> "none"]},
            row : [tries : Nat, ver : Nat], id : Nat]

\* What the kind of an operation says of its fields.
LEMMA OperationKinds ==
    ASSUME NEW op \in Operation \cup {[kind |-> "none"]}
    PROVE  /\ op.kind = "change" => op.new \in Password
           /\ op.kind = "reset" => op.new \in Password
           /\ op.kind = "update" => \/ op.new = Null /\ op.active \in BOOLEAN
                                    \/ op.new \in Password /\ op.new # Null
           /\ op.kind = "refresh" => op.id \in Nat
  BY AccountsAssumption DEF Operation, Null

LEMMA Slots ==
    ASSUME NEW t \in Tab
    PROVE  /\ Flow(t) \in Req /\ Renewal(t) \in Req
           /\ Flow(t) \notin Other /\ Renewal(t) \notin Other
           /\ \A u \in Tab : Flow(u) # Renewal(t) /\ (u # t => Renewal(u) # Renewal(t))
  BY SessionAssumption DEF Flow, Renewal, Slot

LEMMA QuietRequest == Quiet \in Request /\ Quiet.pc = "idle"
  <1>1. [kind |-> "none"] \in Operation \cup {[kind |-> "none"]}
    OBVIOUS
  <1>2. NoRow \in [tries : Nat, ver : Nat] /\ Null \in Nat /\ "idle" \in Pc
    BY DEF NoRow, Null, Pc
  <1>3. QED
    BY <1>1, <1>2 DEF Quiet, Request

LEMMA AccountsStart == AccountsInit => AccountsInv
  <1> SUFFICES ASSUME AccountsInit PROVE AccountsInv
    OBVIOUS
  <1>1. AccountsTypeOK
    <2>1. account \in AccountRow
      BY AccountsAssumption DEF AccountsInit, AccountRow
    <2>2. Ids = {} /\ session \in [Ids -> [revoked : BOOLEAN, ver : Nat, late : BOOLEAN]]
      BY DEF AccountsInit, Ids
    <2>4. req \in [Req -> Request]
      BY QuietRequest DEF AccountsInit
    <2>5. IsFiniteSet({})
      BY FS_EmptySet
    <2>6. reset \in {"live", "used"} /\ cut \in BOOLEAN
      BY DEF AccountsInit
    <2>7. QED
      BY <2>1, <2>2, <2>4, <2>5, <2>6 DEF AccountsTypeOK, AccountRow, Request
  <1>2. \A r \in Req : PlaceOf(r)
    BY DEF AccountsInit, PlaceOf, At, Quiet
  <1>3. LiveSessionsCurrent
    BY DEF AccountsInit, LiveSessionsCurrent, Ids
  <1>4. AttemptsLock
    BY AccountsAssumption DEF AccountsInit, AttemptsLock
  <1>5. QED
    BY <1>1, <1>2, <1>3, <1>4 DEF AccountsInv

-----------------------------------------------------------------------------
(* What each way of moving a request does to the requests *)

LEMMA Edited ==
    ASSUME AccountsTypeOK, NEW r \in Req, NEW pc \in Pc,
           NEW row \in [tries : Nat, ver : Nat],
           req' = [req EXCEPT ![r].pc = pc, ![r].row = row]
    PROVE  /\ req' \in [Req -> Request]
           /\ req'[r].pc = pc /\ req'[r].op = req[r].op
           /\ \A q \in Req \ {r} : req'[q] = req[q]
  <1>1. req \in [Req -> Request] /\ req[r] \in Request
    BY DEF AccountsTypeOK, Request
  <1>2. PICK p : p = [[req[r] EXCEPT !.pc = pc] EXCEPT !.row = row]
    OBVIOUS
  <1>3. p \in Request /\ p.pc = pc /\ p.op = req[r].op /\ p.id = req[r].id
    BY <1>1, <1>2 DEF Request
  <1>4. req' = [req EXCEPT ![r] = p]
    BY <1>1, <1>2
  <1>5. QED
    BY <1>1, <1>3, <1>4

LEMMA Gone ==
    ASSUME AccountsTypeOK, NEW r \in Req, NEW pc \in Pc, Goto(r, pc)
    PROVE  /\ req' \in [Req -> Request]
           /\ req'[r].pc = pc /\ req'[r].op = req[r].op
           /\ \A q \in Req \ {r} : req'[q] = req[q]
  <1> DEFINE row == IF pc \in {"done", "failed"} THEN NoRow ELSE req[r].row
  <1>1. req[r] \in Request /\ r \in DOMAIN req
    BY DEF AccountsTypeOK, Request
  <1>2. row \in [tries : Nat, ver : Nat]
    BY <1>1 DEF Request, NoRow
  <1>3. req' = [req EXCEPT ![r].pc = pc, ![r].row = row]
    BY <1>1 DEF Goto
  <1> HIDE DEF row
  <1>4. QED
    BY <1>2, <1>3, Edited

\* Where a request goes is a place for its kind, the others stay.
LEMMA PlacesKept ==
    ASSUME \A r \in Req : PlaceOf(r), NEW r \in Req,
           \A q \in Req \ {r} : req'[q] = req[q], PlaceOf(r)'
    PROVE  \A q \in Req : PlaceOf(q)'
  BY DEF PlaceOf, At, Op

\* A step that changes no account, no session and no pending revocation.
LEMMA QuietStep ==
    ASSUME AccountsInv, NEW r \in Req,
           req' \in [Req -> Request], \A q \in Req \ {r} : req'[q] = req[q],
           PlaceOf(r)', ~At(r, "revoke"),
           UNCHANGED <<account, session, cut>>, reset' \in {"live", "used"}
    PROVE  AccountsInv'
  <1>1. AccountsTypeOK'
    BY DEF AccountsInv, AccountsTypeOK, Request, Ids
  <1>2. \A q \in Req : PlaceOf(q)'
    BY PlacesKept DEF AccountsInv
  <1>3. \A q \in Req : At(q, "revoke") => At(q, "revoke")'
    BY DEF At
  <1>4. LiveSessionsCurrent'
    BY <1>3 DEF AccountsInv, LiveSessionsCurrent, Live, Ids
  <1>5. AttemptsLock'
    BY DEF AccountsInv, AttemptsLock
  <1>6. QED
    BY <1>1, <1>2, <1>4, <1>5 DEF AccountsInv

\* A step that changes the account only.
LEMMA AccountStep ==
    ASSUME AccountsInv, NEW r \in Req, NEW pc \in Pc, Goto(r, pc),
           account' \in AccountRow, PlaceOf(r)', ~At(r, "revoke"),
           UNCHANGED <<session, cut, reset>>,
           account'.ver = account.ver /\ account'.gone = account.gone,
           AttemptsLock'
    PROVE  AccountsInv'
  <1>1. /\ req' \in [Req -> Request]
        /\ req'[r].pc = pc
        /\ \A q \in Req \ {r} : req'[q] = req[q]
    BY Gone DEF AccountsInv
  <1>2. AccountsTypeOK'
    BY <1>1 DEF AccountsInv, AccountsTypeOK, Request, AccountRow, Ids
  <1>3. \A q \in Req : PlaceOf(q)'
    BY <1>1, PlacesKept DEF AccountsInv
  <1>4. LiveSessionsCurrent'
    <2>1. \A q \in Req : At(q, "revoke") => At(q, "revoke")'
      BY <1>1 DEF At
    <2>2. QED
      BY <2>1 DEF AccountsInv, LiveSessionsCurrent, Live, Ids
  <1>5. QED
    BY <1>2, <1>3, <1>4 DEF AccountsInv

\* A change that leaves the sessions to be revoked.
LEMMA ChangeStep ==
    ASSUME AccountsInv, NEW r \in Req, Goto(r, "revoke"),
           account' \in AccountRow, ~At(r, "revoke"),
           UNCHANGED <<session, reset, cut>>, AttemptsLock'
    PROVE  AccountsInv'
  <1>1. "revoke" \in Pc
    BY DEF Pc
  <1>2. /\ req' \in [Req -> Request]
        /\ req'[r].pc = "revoke"
        /\ \A q \in Req \ {r} : req'[q] = req[q]
    BY <1>1, Gone DEF AccountsInv
  <1>3. PlaceOf(r)'
    BY <1>2 DEF PlaceOf, At
  <1>4. AccountsTypeOK'
    BY <1>2 DEF AccountsInv, AccountsTypeOK, Request, AccountRow, Ids
  <1>5. \A q \in Req : PlaceOf(q)'
    BY <1>2, <1>3, PlacesKept DEF AccountsInv
  <1>6. LiveSessionsCurrent'
    BY <1>2 DEF LiveSessionsCurrent, At
  <1>7. QED
    BY <1>4, <1>5, <1>6 DEF AccountsInv

\* Once all sessions are revoked none is live.
LEMMA AllRevoked ==
    ASSUME AccountsInv, RevokeAll, account' \in AccountRow, AttemptsLock',
           NEW r \in Req, NEW pc \in Pc, Goto(r, pc), PlaceOf(r)',
           cut' \in BOOLEAN, reset' \in {"live", "used"}
    PROVE  AccountsInv'
  <1>1. /\ req' \in [Req -> Request]
        /\ \A q \in Req \ {r} : req'[q] = req[q]
    BY Gone DEF AccountsInv
  <1>2. /\ Ids' = Ids
        /\ session' \in [Ids -> [revoked : BOOLEAN, ver : Nat, late : BOOLEAN]]
        /\ \A i \in Ids : session'[i].revoked = TRUE
    BY DEF RevokeAll, AccountsInv, AccountsTypeOK, Ids
  <1>3. AccountsTypeOK'
    BY <1>1, <1>2 DEF AccountsInv, AccountsTypeOK, Request, AccountRow
  <1>4. \A q \in Req : PlaceOf(q)'
    BY <1>1, PlacesKept DEF AccountsInv
  <1>5. LiveSessionsCurrent'
    BY <1>2 DEF LiveSessionsCurrent, Live
  <1>6. QED
    BY <1>3, <1>4, <1>5 DEF AccountsInv

-----------------------------------------------------------------------------
(* One lemma per statement of the api that is not a quiet step *)

LEMMA RowTyped ==
    ASSUME AccountsInv, NEW r \in Req
    PROVE  /\ account \in AccountRow /\ req[r] \in Request
           /\ Op(r) \in Operation \cup {[kind |-> "none"]} /\ PlaceOf(r)
           /\ reset \in {"live", "used"} /\ cut \in BOOLEAN
  BY DEF AccountsInv, AccountsTypeOK, AccountRow, Request, Op

LEMMA ReadUserInv ==
    ASSUME AccountsInv, NEW r \in Req, ReadUser(r) PROVE AccountsInv'
  <1>1. At(r, "user") /\ UNCHANGED <<account, session, reset, cut>>
    BY DEF ReadUser
  <1>2. CASE ~Admits(Op(r))
    <2>1. Goto(r, "failed")
      BY <1>2 DEF ReadUser, Fail
    <2>2. /\ req' \in [Req -> Request] /\ req'[r].pc = "failed"
          /\ \A q \in Req \ {r} : req'[q] = req[q]
      BY <2>1, Gone DEF AccountsInv, Pc
    <2>3. QED
      BY <1>1, <2>2, QuietStep, RowTyped DEF PlaceOf, At
  <1>3. CASE Admits(Op(r))
    <2> DEFINE read == [tries |-> account.tries, ver |-> account.ver]
               pc == After(Op(r))
    <2>1. account \in AccountRow /\ PlaceOf(r)
      BY RowTyped
    <2>2. pc \in {"counters", "miss", "password", "mail", "update", "remove"}
          /\ (pc = "password" => Op(r).kind = "change")
          /\ (pc = "update" => Op(r).kind = "update")
      BY <1>1, <2>1 DEF After, PlaceOf
    <2>3. read \in [tries : Nat, ver : Nat] /\ pc \in Pc
      BY <2>1, <2>2 DEF AccountRow, Pc
    <2>4. req' = [req EXCEPT ![r].pc = pc, ![r].row = read]
      BY <1>3 DEF ReadUser
    <2> HIDE DEF read, pc
    <2>6. /\ req' \in [Req -> Request] /\ req'[r].pc = pc /\ req'[r].op = req[r].op
          /\ \A q \in Req \ {r} : req'[q] = req[q]
      BY <2>3, <2>4, Edited DEF AccountsInv
    <2>7. PlaceOf(r)'
      BY <2>2, <2>6 DEF PlaceOf, At, Op
    <2>8. QED
      BY <1>1, <2>6, <2>7, QuietStep, RowTyped DEF At
  <1>4. QED
    BY <1>2, <1>3

LEMMA MissInv ==
    ASSUME AccountsInv, NEW r \in Req, RegisterFailedAttempt(r) PROVE AccountsInv'
  <1> DEFINE next == req[r].row.tries + 1
  <1>1. /\ At(r, "miss") /\ Goto(r, "failed") /\ UNCHANGED <<session, reset, cut>>
        /\ account' = [account EXCEPT
               !.tries = next, !.locked = @ \/ next >= MaxAttempts,
               !.fails = @ + 1, !.lapsed = FALSE,
               !.raced = @ \/ account.tries # req[r].row.tries]
    BY DEF RegisterFailedAttempt, Fail
  <1>2. next \in Nat /\ account \in AccountRow
    BY RowTyped DEF Request
  <1> HIDE DEF next
  <1> DEFINE locked == account.locked \/ next >= MaxAttempts
             raced == account.raced \/ account.tries # req[r].row.tries
  <1>3. /\ account' \in AccountRow
        /\ account'.tries = next /\ account'.fails = account.fails + 1
        /\ account'.locked = locked /\ account'.raced = raced
        /\ account'.ver = account.ver /\ account'.gone = account.gone
    <2>1. account.fails + 1 \in Nat /\ locked \in BOOLEAN /\ raced \in BOOLEAN
      BY <1>2 DEF AccountRow
    <2>2. account' = [account EXCEPT !.tries = next, !.locked = locked,
                          !.fails = account.fails + 1, !.lapsed = FALSE, !.raced = raced]
      BY <1>1
    <2> HIDE DEF locked, raced
    <2>3. QED
      BY <1>2, <2>1, <2>2 DEF AccountRow
  <1>4. AttemptsLock'
    <2>1. SUFFICES ASSUME ~account'.raced
                   PROVE  /\ account'.tries = account'.fails
                          /\ account'.fails >= MaxAttempts =>
                                 account'.locked \/ account'.lapsed
      BY DEF AttemptsLock
    <2>2. ~account.raced /\ account.tries = req[r].row.tries
      BY <1>3, <2>1
    <2>3. account.tries = account.fails
      BY <2>2 DEF AccountsInv, AttemptsLock
    <2>4. next = account.fails + 1
      BY <2>2, <2>3 DEF next
    <2>5. QED
      BY <1>3, <2>4
  <1>5. PlaceOf(r)'
    BY <1>1, Gone DEF PlaceOf, At, AccountsInv, Pc
  <1>6. QED
    BY <1>1, <1>3, <1>4, <1>5, AccountStep DEF At, Pc

\* A reset of the counters, and a new password.
LEMMA UnlockedTyped ==
    ASSUME NEW a \in AccountRow
    PROVE  /\ Unlocked(a) \in AccountRow
           /\ Unlocked(a).tries = 0 /\ Unlocked(a).fails = 0
           /\ Unlocked(a).ver = a.ver /\ Unlocked(a).gone = a.gone
  BY DEF Unlocked, AccountRow

LEMMA RepasswordTyped ==
    ASSUME NEW a \in AccountRow, NEW pw \in Password
    PROVE  /\ Repassword(a, pw) \in AccountRow
           /\ Repassword(a, pw).tries = a.tries /\ Repassword(a, pw).fails = a.fails
           /\ Repassword(a, pw).raced = a.raced /\ Repassword(a, pw).locked = a.locked
           /\ Repassword(a, pw).lapsed = a.lapsed
  <1>1. a.ver + 1 \in Nat
    BY DEF AccountRow
  <1>2. \A v \in Nat : [a EXCEPT !.pw = pw, !.ver = v] \in AccountRow
    BY DEF AccountRow
  <1>3. Repassword(a, pw) \in AccountRow
    BY <1>1, <1>2 DEF Repassword
  <1>4. /\ Repassword(a, pw).tries = a.tries /\ Repassword(a, pw).fails = a.fails
        /\ Repassword(a, pw).raced = a.raced /\ Repassword(a, pw).locked = a.locked
        /\ Repassword(a, pw).lapsed = a.lapsed
    BY DEF Repassword, AccountRow
  <1>5. QED
    BY <1>3, <1>4

\* With the counters at zero nothing is to be locked.
LEMMA ZeroUnlocked ==
    ASSUME account'.tries = 0, account'.fails = 0 PROVE AttemptsLock'
  BY AccountsAssumption DEF AttemptsLock

LEMMA CountersInv ==
    ASSUME AccountsInv, NEW r \in Req, ResetCounters(r) PROVE AccountsInv'
  <1>1. /\ At(r, "counters") /\ account' = Unlocked(account) /\ Goto(r, "issue")
        /\ UNCHANGED <<session, reset, cut>>
    BY DEF ResetCounters
  <1>2. /\ account' \in AccountRow /\ AttemptsLock'
        /\ account'.ver = account.ver /\ account'.gone = account.gone
    BY <1>1, RowTyped, UnlockedTyped, ZeroUnlocked
  <1>3. PlaceOf(r)'
    BY <1>1, Gone DEF PlaceOf, At, AccountsInv, Pc
  <1>4. QED
    BY <1>1, <1>2, <1>3, AccountStep DEF At, Pc

LEMMA PasswordInv ==
    ASSUME AccountsInv, NEW r \in Req, ChangePassword(r) PROVE AccountsInv'
  <1>1. /\ At(r, "password") /\ account' = Repassword(account, Op(r).new)
        /\ Goto(r, "revoke") /\ UNCHANGED <<session, reset, cut>>
    BY DEF ChangePassword
  <1>2. Op(r).new \in Password
    BY <1>1, RowTyped, OperationKinds DEF PlaceOf
  <1>3. account' \in AccountRow /\ AttemptsLock'
    BY <1>1, <1>2, RowTyped, RepasswordTyped DEF AttemptsLock, AccountsInv
  <1>4. ~At(r, "revoke")
    BY <1>1 DEF At
  <1>5. QED
    BY <1>1, <1>3, <1>4, ChangeStep

LEMMA UpdateInv ==
    ASSUME AccountsInv, NEW r \in Req, UpdateUser(r) PROVE AccountsInv'
  <1>1. At(r, "update") /\ UNCHANGED <<session, reset, cut>>
    BY DEF UpdateUser
  <1>2. CASE Op(r).new = Null /\ Op(r).active \in BOOLEAN
    <2>1. account' = [account EXCEPT !.active = Op(r).active] /\ Goto(r, "done")
      BY <1>2 DEF UpdateUser
    <2>2. /\ account' \in AccountRow /\ account'.ver = account.ver
          /\ account'.gone = account.gone /\ account'.raced = account.raced
          /\ account'.tries = account.tries /\ account'.fails = account.fails
          /\ account'.locked = account.locked /\ account'.lapsed = account.lapsed
      BY <1>2, <2>1, RowTyped DEF AccountRow
    <2>3. AttemptsLock'
      BY <2>2 DEF AttemptsLock, AccountsInv
    <2>4. PlaceOf(r)'
      BY <2>1, Gone DEF PlaceOf, At, AccountsInv, Pc
    <2>5. QED
      BY <1>1, <2>1, <2>2, <2>3, <2>4, AccountStep DEF At, Pc
  <1>3. CASE Op(r).new \in Password /\ Op(r).new # Null
    <2>1. /\ account' = Unlocked(Repassword(account, Op(r).new)) /\ Goto(r, "revoke")
      BY <1>3 DEF UpdateUser
    <2>2. account' \in AccountRow /\ AttemptsLock'
      BY <1>3, <2>1, RowTyped, RepasswordTyped, UnlockedTyped, ZeroUnlocked
    <2>3. ~At(r, "revoke")
      BY <1>1 DEF At
    <2>4. QED
      BY <1>1, <2>1, <2>2, <2>3, ChangeStep
  <1>4. QED
    BY <1>1, <1>2, <1>3, RowTyped, OperationKinds DEF PlaceOf

LEMMA RemoveInv ==
    ASSUME AccountsInv, NEW r \in Req, RemoveUser(r) PROVE AccountsInv'
  <1>1. /\ At(r, "remove") /\ account' = [account EXCEPT !.gone = TRUE]
        /\ Goto(r, "revoke") /\ UNCHANGED <<session, reset, cut>>
    BY DEF RemoveUser
  <1>2. /\ account' \in AccountRow /\ account'.raced = account.raced
        /\ account'.tries = account.tries /\ account'.fails = account.fails
        /\ account'.locked = account.locked /\ account'.lapsed = account.lapsed
    BY <1>1, RowTyped DEF AccountRow
  <1>3. AttemptsLock'
    BY <1>2 DEF AttemptsLock, AccountsInv
  <1>4. ~At(r, "revoke")
    BY <1>1 DEF At
  <1>5. QED
    BY <1>1, <1>2, <1>3, <1>4, ChangeStep

LEMMA RevokeInv ==
    ASSUME AccountsInv, NEW r \in Req, Revoke(r) PROVE AccountsInv'
  <1>1. RevokeAll /\ Goto(r, "done") /\ UNCHANGED <<account, reset, cut>>
    BY DEF Revoke
  <1>2. account' \in AccountRow /\ AttemptsLock'
    BY <1>1, RowTyped DEF AccountsInv, AttemptsLock
  <1>3. "done" \in Pc /\ cut' \in BOOLEAN /\ reset' \in {"live", "used"}
    BY <1>1, RowTyped DEF Pc
  <1>4. PlaceOf(r)'
    BY <1>1, <1>3, Gone DEF PlaceOf, At, AccountsInv
  <1>5. QED
    BY <1>1, <1>2, <1>3, <1>4, AllRevoked

LEMMA ResetInv ==
    ASSUME AccountsInv, NEW r \in Req, ResetPassword(r) PROVE AccountsInv'
  <1>1. /\ At(r, "reset") /\ account' = Unlocked(Repassword(account, Op(r).new))
        /\ reset' = "used" /\ RevokeAll /\ Goto(r, "done") /\ UNCHANGED cut
    BY DEF ResetPassword
  <1>2. Op(r).new \in Password
    BY <1>1, RowTyped, OperationKinds DEF PlaceOf, At
  <1>3. account' \in AccountRow /\ AttemptsLock'
    BY <1>1, <1>2, RowTyped, RepasswordTyped, UnlockedTyped, ZeroUnlocked
  <1>4. "done" \in Pc /\ cut' \in BOOLEAN /\ reset' \in {"live", "used"}
    BY <1>1, RowTyped DEF Pc
  <1>5. PlaceOf(r)'
    BY <1>1, <1>4, Gone DEF PlaceOf, At, AccountsInv
  <1>6. QED
    BY <1>1, <1>3, <1>4, <1>5, AllRevoked

\* A session revoked by its owner, or none.
LEMMA LogoutInv ==
    ASSUME AccountsInv, NEW r \in Req, Logout(r) PROVE AccountsInv'
  <1>1. /\ At(r, "logout") /\ Goto(r, "done") /\ UNCHANGED <<account, reset, cut>>
        /\ session' = [i \in Ids |-> [session[i] EXCEPT !.revoked = @ \/ i = Op(r).id]]
    BY DEF Logout
  <1>2. /\ req' \in [Req -> Request] /\ req'[r].pc = "done"
        /\ \A q \in Req \ {r} : req'[q] = req[q]
    BY <1>1, Gone DEF AccountsInv, Pc
  <1>3. /\ Ids' = Ids
        /\ session' \in [Ids -> [revoked : BOOLEAN, ver : Nat, late : BOOLEAN]]
        /\ \A i \in Ids : /\ session'[i].ver = session[i].ver
                          /\ session'[i].late = session[i].late
                          /\ session[i].revoked => session'[i].revoked
    BY ZenonT(60), <1>1 DEF AccountsInv, AccountsTypeOK, Ids
  <1>4. AccountsTypeOK'
    BY <1>1, <1>2, <1>3 DEF AccountsInv, AccountsTypeOK, Request
  <1>5. \A q \in Req : PlaceOf(q)'
    BY <1>2, PlacesKept DEF AccountsInv, PlaceOf, At
  <1>6. \A q \in Req : At(q, "revoke") => At(q, "revoke")'
    BY <1>1, <1>2 DEF At
  <1>7. LiveSessionsCurrent'
    BY <1>1, <1>3, <1>6 DEF AccountsInv, LiveSessionsCurrent, Live
  <1>8. AttemptsLock'
    BY <1>1 DEF AccountsInv, AttemptsLock
  <1>9. QED
    BY <1>4, <1>5, <1>7, <1>8 DEF AccountsInv

\* A session opened, late if its password is no longer the current one.
LEMMA IssueInv ==
    ASSUME AccountsInv, NEW r \in Req, IssueTokens(r) PROVE AccountsInv'
  <1> DEFINE i == 1 + Cardinality(Ids)
             s == [revoked |-> FALSE, ver |-> req[r].row.ver,
                   late |-> account.ver # req[r].row.ver \/ account.gone]
  <1>1. /\ At(r, "issue") /\ UNCHANGED <<account, reset, cut>>
        /\ session' = [j \in Ids \cup {i} |-> IF j # i THEN session[j] ELSE s]
        /\ req' = [req EXCEPT ![r].pc = "done", ![r].row = NoRow, ![r].id = i]
    BY DEF IssueTokens
  <1>2. Ids \subseteq Nat /\ IsFiniteSet(Ids) /\ req \in [Req -> Request]
    BY DEF AccountsInv, AccountsTypeOK, Request
  <1>3. i \in Nat
    BY <1>2, FS_CardinalityType
  <1>4. s \in [revoked : BOOLEAN, ver : Nat, late : BOOLEAN] /\ ~s.revoked
        /\ (~s.late => s.ver = account.ver /\ ~account.gone)
    BY RowTyped DEF Request, AccountRow
  <1> HIDE DEF i, s
  <1>5. IsFiniteSet(Ids \cup {i})
    BY <1>2, FS_AddElement
  <1>6. /\ Ids' = Ids \cup {i}
        /\ session' \in [Ids' -> [revoked : BOOLEAN, ver : Nat, late : BOOLEAN]]
        /\ session'[i] = s
        /\ \A j \in Ids \ {i} : session'[j] = session[j]
    BY <1>1, <1>4 DEF AccountsInv, AccountsTypeOK, Ids
  <1>7. NoRow \in [tries : Nat, ver : Nat] /\ "done" \in Pc
    BY DEF NoRow, Pc
  <1>8. /\ req' \in [Req -> Request] /\ req'[r].pc = "done"
        /\ \A q \in Req \ {r} : req'[q] = req[q]
    BY ZenonT(60), <1>1, <1>2, <1>3, <1>7 DEF Request
  <1>9. AccountsTypeOK'
    BY <1>1, <1>2, <1>3, <1>5, <1>6, <1>8 DEF AccountsInv, AccountsTypeOK, Request
  <1>10. \A q \in Req : PlaceOf(q)'
    BY <1>8, PlacesKept DEF AccountsInv, PlaceOf, At
  <1>11. \A q \in Req : At(q, "revoke") => At(q, "revoke")'
    BY <1>1, <1>8 DEF At
  <1>12. LiveSessionsCurrent'
    BY <1>1, <1>4, <1>6, <1>11 DEF AccountsInv, LiveSessionsCurrent, Live
  <1>13. AttemptsLock'
    BY <1>1 DEF AccountsInv, AttemptsLock
  <1>14. QED
    BY <1>9, <1>10, <1>12, <1>13 DEF AccountsInv

\* Reading a session or a token, and sending a mail.
LEMMA ReadingInv ==
    ASSUME AccountsInv, NEW r \in Req,
           Refresh(r) \/ ForgotPassword(r) \/ ReadResetToken(r)
    PROVE  AccountsInv'
  <1>1. PICK pc \in {"done", "failed", "reset"} :
            /\ Goto(r, pc) /\ UNCHANGED <<account, session, cut>>
            /\ reset' \in {"live", "used"} /\ ~At(r, "revoke")
            /\ pc = "reset" => At(r, "token")
    BY RowTyped DEF Refresh, ForgotPassword, ReadResetToken, Fail, At
  <1>2. pc \in Pc
    BY DEF Pc
  <1>3. /\ req' \in [Req -> Request] /\ req'[r].pc = pc /\ req'[r].op = req[r].op
        /\ \A q \in Req \ {r} : req'[q] = req[q]
    BY <1>1, <1>2, Gone DEF AccountsInv
  <1>4. PlaceOf(r)'
    BY <1>1, <1>3, RowTyped DEF PlaceOf, At, Op
  <1>5. QED
    BY <1>1, <1>3, <1>4, QuietStep

LEMMA StatementInv ==
    ASSUME AccountsInv, NEW r \in Req, Statement(r) PROVE AccountsInv'
  BY ReadUserInv, MissInv, CountersInv, IssueInv, LogoutInv, PasswordInv,
     UpdateInv, RemoveInv, RevokeInv, ResetInv, ReadingInv DEF Statement

LEMMA LockInv == ASSUME AccountsInv, LockExpires PROVE AccountsInv'
  <1>1. /\ account' = [account EXCEPT !.locked = FALSE, !.lapsed = TRUE]
        /\ UNCHANGED <<session, reset, req, cut>> /\ account \in AccountRow
    BY DEF LockExpires, AccountsInv, AccountsTypeOK, AccountRow
  <1>2. /\ account' \in AccountRow /\ account'.raced = account.raced
        /\ account'.tries = account.tries /\ account'.fails = account.fails
        /\ account'.lapsed /\ account'.ver = account.ver
        /\ account'.gone = account.gone
    BY <1>1 DEF AccountRow
  <1>3. AccountsTypeOK'
    BY <1>1, <1>2 DEF AccountsInv, AccountsTypeOK, AccountRow, Ids
  <1>4. LiveSessionsCurrent' /\ \A q \in Req : PlaceOf(q)'
    BY <1>1, <1>2 DEF AccountsInv, LiveSessionsCurrent, Live, Ids, At, PlaceOf, Op
  <1>5. AttemptsLock'
    BY <1>2 DEF AccountsInv, AttemptsLock
  <1>6. QED
    BY <1>3, <1>4, <1>5 DEF AccountsInv

\* A request that dies before it revokes is remembered.
LEMMA AbortInv ==
    ASSUME AccountsInv, NEW r \in Req, Abort(r) PROVE AccountsInv'
  <1>1. /\ Goto(r, "failed") /\ cut' = (cut \/ At(r, "revoke"))
        /\ UNCHANGED <<account, session, reset>>
    BY DEF Abort, Fail
  <1>2. /\ req' \in [Req -> Request] /\ req'[r].pc = "failed"
        /\ \A q \in Req \ {r} : req'[q] = req[q]
    BY <1>1, Gone DEF AccountsInv, Pc
  <1>3. AccountsTypeOK'
    BY <1>1, <1>2 DEF AccountsInv, AccountsTypeOK, Request, At, Ids
  <1>4. \A q \in Req : PlaceOf(q)'
    BY <1>2, PlacesKept DEF AccountsInv, PlaceOf, At
  <1>5. cut' \/ \A q \in Req : At(q, "revoke") => At(q, "revoke")'
    BY <1>1, <1>2 DEF At
  <1>6. LiveSessionsCurrent'
    BY <1>1, <1>5 DEF AccountsInv, LiveSessionsCurrent, Live, Ids
  <1>7. AttemptsLock'
    BY <1>1 DEF AccountsInv, AttemptsLock
  <1>8. QED
    BY <1>3, <1>4, <1>6, <1>7 DEF AccountsInv

\* A slot that is taken by a new request, or freed.
LEMMA TakenOrFreed ==
    ASSUME AccountsInv, NEW r \in Req,
           \/ Recycle(r) /\ ~At(r, "revoke")
           \/ \E op \in Operation : Start(r, op),
           UNCHANGED <<account, session, reset, cut>>
    PROVE  AccountsInv' /\ \A q \in Req \ {r} : req'[q] = req[q]
  <1>1. PICK new : /\ req' = [req EXCEPT ![r] = new] /\ new \in Request
                   /\ \/ new.pc = "idle"
                      \/ new.op \in Operation /\ new.pc = Entry(new.op)
    <2>1. CASE Recycle(r)
      BY <2>1, QuietRequest DEF Recycle
    <2>2. CASE \E op \in Operation : Start(r, op)
      <3>1. PICK op \in Operation : Start(r, op)
        BY <2>2
      <3>2. PICK pc : pc = Entry(op)
        OBVIOUS
      <3>3. pc \in Pc
        BY <3>2 DEF Entry, Pc
      <3>4. PICK new : new = [Quiet EXCEPT !.pc = pc, !.op = op]
        OBVIOUS
      <3>5. new \in Request /\ new.pc = pc /\ new.op = op
        BY <3>3, <3>4, QuietRequest DEF Request
      <3>6. req' = [req EXCEPT ![r] = new]
        BY <3>1, <3>2, <3>4 DEF Start
      <3>7. QED
        BY <3>2, <3>5, <3>6
    <2>3. QED
      BY <2>1, <2>2
  <1>2. /\ req' \in [Req -> Request] /\ req'[r] = new
        /\ \A q \in Req \ {r} : req'[q] = req[q]
    BY <1>1 DEF AccountsInv, AccountsTypeOK, Request
  <1>3. ~At(r, "revoke")
    BY DEF Start, At
  <1>4. PlaceOf(r)'
    <2>1. CASE new.pc = "idle"
      BY <1>2, <2>1 DEF PlaceOf, At
    <2>2. CASE new.op \in Operation /\ new.pc = Entry(new.op)
      <3>1. new.op.kind \in {"login", "forgot", "remove", "change", "update",
                             "reset", "refresh", "logout"}
        BY <2>2 DEF Operation
      <3>2. QED
        BY <1>2, <2>2, <3>1 DEF PlaceOf, At, Op, Entry
    <2>3. QED
      BY <1>1, <2>1, <2>2
  <1>5. reset' \in {"live", "used"}
    BY RowTyped
  <1>6. QED
    BY <1>2, <1>3, <1>4, <1>5, QuietStep

\* A request that is handled, or dies, is the same request.
LEMMA SameOperation ==
    ASSUME AccountsInv, NEW r \in Req, Statement(r) \/ Abort(r)
    PROVE  /\ ~At(r, "idle") /\ Op(r)' = Op(r)
           /\ \A q \in Req \ {r} : req'[q] = req[q]
  <1>1. CASE \E pc \in Pc : Goto(r, pc)
    <2>1. ~At(r, "idle")
      BY DEF Statement, Abort, At, ReadUser, RegisterFailedAttempt, ResetCounters,
             IssueTokens, Refresh, Logout, ChangePassword, UpdateUser, RemoveUser,
             Revoke, ForgotPassword, ReadResetToken, ResetPassword
    <2>2. QED
      BY <1>1, <2>1, Gone DEF AccountsInv, Op
  <1>2. CASE ReadUser(r) \/ IssueTokens(r)
    <2>1. CASE IssueTokens(r)
      <3>1. ~At(r, "idle")
        BY <2>1 DEF IssueTokens, At
      <3>2. \E i : req' = [req EXCEPT ![r].pc = "done", ![r].row = NoRow, ![r].id = i]
        BY <2>1 DEF IssueTokens
      <3>3. QED
        BY <3>1, <3>2 DEF AccountsInv, AccountsTypeOK, Op
    <2>2. CASE ReadUser(r)
      <3>1. ~At(r, "idle")
        BY <2>2 DEF ReadUser, At
      <3>2. CASE Goto(r, "failed")
        BY <3>1, <3>2, Gone DEF AccountsInv, Op, Pc
      <3>3. CASE \E pc, row : req' = [req EXCEPT ![r].pc = pc, ![r].row = row]
        BY <3>1, <3>3 DEF AccountsInv, AccountsTypeOK, Op
      <3>4. QED
        BY <2>2, <3>2, <3>3 DEF ReadUser, Fail
    <2>3. QED
      BY <1>2, <2>1, <2>2
  <1>3. (\E pc \in Pc : Goto(r, pc)) \/ ReadUser(r) \/ IssueTokens(r)
    <2>1. {"failed", "done", "issue", "revoke", "reset"} \subseteq Pc
      BY DEF Pc
    <2>2. QED
      BY <2>1 DEF Statement, Abort, Fail, RegisterFailedAttempt, ResetCounters,
             Refresh, Logout, ChangePassword, UpdateUser, RemoveUser,
             Revoke, ForgotPassword, ReadResetToken, ResetPassword
  <1>4. QED
    BY <1>1, <1>2, <1>3

-----------------------------------------------------------------------------
(* The browser *)

TabState == [user : Nat, renewing : BOOLEAN, reloads : Nat,
             flow : {"boot", "booting", "off", "login", "entering", "logout"}]
CallState == [at : {"off", "sent", "waiting", "again"}, token : Nat]

LEMMA TabSet ==
    ASSUME tab \in [Tab -> TabState], NEW t \in Tab, NEW user \in Nat,
           NEW flow \in {"boot", "booting", "off", "login", "entering", "logout"},
           SetTab(t, user, flow)
    PROVE  tab' \in [Tab -> TabState]
  BY DEF SetTab, TabState

LEMMA CallSet ==
    ASSUME call \in [Tab -> [Call -> CallState]], NEW t \in Tab, NEW c \in Call,
           NEW v \in CallState, call' = [call EXCEPT ![t][c] = v]
    PROVE  call' \in [Tab -> [Call -> CallState]]
  OBVIOUS

LEMMA CallsSet ==
    ASSUME call \in [Tab -> [Call -> CallState]], NEW t \in Tab,
           NEW f \in [Call -> CallState], call' = [call EXCEPT ![t] = f]
    PROVE  call' \in [Tab -> [Call -> CallState]]
  OBVIOUS

LEMMA SentTyped == \A n \in Nat : Sent(n) \in CallState
  BY DEF Sent, CallState

LEMMA NoCallTyped == NoCall \in CallState /\ Null \in Nat /\ "me" \in Call
  BY DEF NoCall, CallState, Null, Call

\* What is known of a browser, in the words of the types above.
LEMMA Known ==
    ASSUME SessionInv
    PROVE  /\ AccountsInv /\ RenewalsInv /\ StoreIsOneSession
           /\ store \in [access : Nat, refresh : Nat] /\ stray \in BOOLEAN
           /\ tab \in [Tab -> TabState] /\ call \in [Tab -> [Call -> CallState]]
           /\ req \in [Req -> Request]
  BY DEF SessionInv, AccountsInv, AccountsTypeOK, TypeOK, TabState, CallState,
         Request

LEMMA Together ==
    ASSUME AccountsInv', RenewalsInv', StoreIsOneSession',
           store' \in [access : Nat, refresh : Nat], stray' \in BOOLEAN,
           tab' \in [Tab -> TabState], call' \in [Tab -> [Call -> CallState]]
    PROVE  SessionInv'
  BY DEF SessionInv, AccountsInv, TypeOK, TabState, CallState

LEMMA Cleared ==
    ASSUME Clear
    PROVE  /\ store' \in [access : Nat, refresh : Nat] /\ stray' \in BOOLEAN
           /\ StoreIsOneSession'
  BY DEF Clear, Empty, Null, StoreIsOneSession

LEMMA Stored ==
    ASSUME SessionInv, UNCHANGED <<store, stray>>
    PROVE  /\ store' \in [access : Nat, refresh : Nat] /\ stray' \in BOOLEAN
           /\ StoreIsOneSession'
  BY Known DEF StoreIsOneSession

\* The api, when nothing is asked of it.
LEMMA ApiStill ==
    ASSUME SessionInv, UNCHANGED accountVars PROVE AccountsInv' /\ RenewalsInv'
  <1>1. /\ AccountsTypeOK' /\ LiveSessionsCurrent' /\ AttemptsLock'
        /\ \A r \in Req : PlaceOf(r)'
    BY Known DEF accountVars, AccountsInv, AccountsTypeOK, LiveSessionsCurrent,
                 AttemptsLock, PlaceOf, At, Op, Ids, Live
  <1>2. RenewalsInv'
    BY Known DEF accountVars, RenewalsInv, At, Op
  <1>3. QED
    BY <1>1, <1>2 DEF AccountsInv

\* The api, when a tab begins a request or hears its answer.
LEMMA ApiAsked ==
    ASSUME SessionInv, NEW t \in Tab, NEW r \in {Flow(t), Renewal(t)},
           \/ Recycle(r) /\ Answered(r) /\ UNCHANGED <<account, session, reset, cut>>
           \/ \E op \in Operation : /\ Start0(r, op)
                                    /\ r = Renewal(t) => op.kind = "refresh"
    PROVE  AccountsInv' /\ RenewalsInv'
  <1>1. r \in Req /\ ~At(r, "revoke")
    BY Slots DEF Answered, At, Start0, Start
  <1>2. AccountsInv' /\ \A q \in Req \ {r} : req'[q] = req[q]
    <2>1. \/ Recycle(r) /\ ~At(r, "revoke")
          \/ \E op \in Operation : Start(r, op)
      BY <1>1 DEF Start0
    <2>2. UNCHANGED <<account, session, reset, cut>>
      BY DEF Start0
    <2>3. QED
      BY <1>1, <2>1, <2>2, TakenOrFreed, Known
  <1>3. r = Renewal(t) => At(r, "idle")' \/ Op(r)'.kind = "refresh"
    <2>1. CASE Recycle(r)
      BY <1>1, <2>1, QuietRequest, Known DEF Recycle, At
    <2>2. CASE \E op \in Operation : Start0(r, op) /\ (r = Renewal(t) => op.kind = "refresh")
      <3>1. PICK op \in Operation : Start0(r, op) /\ (r = Renewal(t) => op.kind = "refresh")
        BY <2>2
      <3>2. req'[r].op = op
        BY <1>1, <3>1, Known DEF Start0, Start, Quiet
      <3>3. QED
        BY <3>1, <3>2 DEF Op
    <2>3. QED
      BY <2>1, <2>2
  <1>4. \A u \in Tab : Renewal(u) # r \/ (u = t /\ r = Renewal(t))
    BY Slots
  <1>5. RenewalsInv'
    BY <1>2, <1>3, <1>4, Slots, Known DEF RenewalsInv, At, Op
  <1>6. QED
    BY <1>2, <1>5

\* A tab that boots, or a page that asks for something.
LEMMA AskingInv ==
    ASSUME SessionInv, NEW t \in Tab, Boot(t) \/ PageCall(t) PROVE SessionInv'
  <1>1. UNCHANGED <<accountVars, store, stray>>
    BY DEF Boot, PageCall
  <1>2. store.access \in Nat
    BY Known
  <1>3. tab' \in [Tab -> TabState]
    BY Known, TabSet, NoCallTyped DEF Boot, PageCall
  <1>4. \E c \in Call : \/ call' = [call EXCEPT ![t][c] = Sent(store.access)]
                        \/ call' = call
    BY NoCallTyped DEF Boot, PageCall, Call
  <1>5. call' \in [Tab -> [Call -> CallState]]
    BY <1>2, <1>4, Known, CallSet, SentTyped
  <1>6. QED
    BY <1>1, <1>3, <1>5, ApiStill, Stored, Together

LEMMA LogInInv ==
    ASSUME SessionInv, NEW t \in Tab, LogIn(t) PROVE SessionInv'
  <1>1. /\ Start0(Flow(t), [kind |-> "login", pw |-> account.pw])
        /\ SetTab(t, Null, "login") /\ UNCHANGED <<store, call, stray>>
    BY DEF LogIn
  <1>2. [kind |-> "login", pw |-> account.pw] \in Operation
    <2>1. account.pw \in Password
      BY Known DEF AccountsInv, AccountsTypeOK
    <2>2. QED
      BY <2>1 DEF Operation
  <1>3. AccountsInv' /\ RenewalsInv'
    BY <1>1, <1>2, Slots, ApiAsked
  <1>4. tab' \in [Tab -> TabState]
    BY <1>1, Known, TabSet, NoCallTyped
  <1>5. QED
    BY <1>1, <1>3, <1>4, Known, Stored, Together

LEMMA LoginAnsweredInv ==
    ASSUME SessionInv, NEW t \in Tab, LoginAnswered(t) PROVE SessionInv'
  <1>1. PICK i : i = req[Flow(t)].id
    OBVIOUS
  <1>2. i \in Nat
    BY <1>1, Known, Slots DEF Request
  <1>3. AccountsInv' /\ RenewalsInv'
    BY ApiAsked DEF LoginAnswered
  <1>4. CASE /\ store' = [access |-> i, refresh |-> i] /\ stray' = FALSE
             /\ call' = [call EXCEPT ![t]["me"] = Sent(i)]
             /\ SetTab(t, Null, "entering")
    <2>1. call' \in [Tab -> [Call -> CallState]]
      BY <1>2, <1>4, Known, CallSet, SentTyped, NoCallTyped
    <2>2. tab' \in [Tab -> TabState]
      BY <1>4, Known, TabSet, NoCallTyped
    <2>3. /\ store' \in [access : Nat, refresh : Nat] /\ stray' \in BOOLEAN
          /\ StoreIsOneSession'
      BY <1>2, <1>4 DEF StoreIsOneSession
    <2>4. QED
      BY <1>3, <2>1, <2>2, <2>3, Together
  <1>5. CASE SetTab(t, Null, "off") /\ UNCHANGED <<store, stray, call>>
    <2>1. tab' \in [Tab -> TabState]
      BY <1>5, Known, TabSet, NoCallTyped
    <2>2. QED
      BY <1>3, <1>5, <2>1, Known, Stored, Together
  <1>6. QED
    BY <1>1, <1>4, <1>5 DEF LoginAnswered

LEMMA LogOutInv ==
    ASSUME SessionInv, NEW t \in Tab, LogOut(t) PROVE SessionInv'
  <1>1. call' = call
    BY DEF LogOut
  <1>2. CASE Clear /\ SetTab(t, Null, "off") /\ UNCHANGED accountVars
    <2>1. tab' \in [Tab -> TabState]
      BY <1>2, Known, TabSet, NoCallTyped
    <2>2. QED
      BY <1>1, <1>2, <2>1, Known, ApiStill, Cleared, Together
  <1>3. CASE /\ Start0(Flow(t), [kind |-> "logout", id |-> store.refresh])
             /\ SetTab(t, tab[t].user, "logout") /\ UNCHANGED <<store, stray>>
    <2>1. [kind |-> "logout", id |-> store.refresh] \in Operation
      BY Known DEF Operation
    <2>2. AccountsInv' /\ RenewalsInv'
      BY <1>3, <2>1, Slots, ApiAsked
    <2>3. tab[t].user \in Nat
      BY Known DEF TabState
    <2>4. tab' \in [Tab -> TabState]
      BY <1>3, <2>3, Known, TabSet
    <2>5. QED
      BY <1>1, <1>3, <2>2, <2>4, Known, Stored, Together
  <1>4. QED
    BY <1>2, <1>3 DEF LogOut

LEMMA LogoutAnsweredInv ==
    ASSUME SessionInv, NEW t \in Tab, LogoutAnswered(t) PROVE SessionInv'
  <1>1. /\ Clear /\ SetTab(t, Null, "off") /\ call' = call
    BY DEF LogoutAnswered
  <1>2. AccountsInv' /\ RenewalsInv'
    BY ApiAsked DEF LogoutAnswered
  <1>3. tab' \in [Tab -> TabState]
    BY <1>1, Known, TabSet, NoCallTyped
  <1>4. QED
    BY <1>1, <1>2, <1>3, Known, Cleared, Together

\* The end of a call, in its page and in the tab.
LEMMA BrokenTyped ==
    ASSUME SessionInv, NEW t \in Tab, NEW c \in Call, Broken(t, c)
    PROVE  /\ tab' \in [Tab -> TabState] /\ call' \in [Tab -> [Call -> CallState]]
           /\ store' \in [access : Nat, refresh : Nat] /\ stray' \in BOOLEAN
           /\ StoreIsOneSession'
  <1>1. tab' \in [Tab -> TabState]
    BY Known, TabSet, NoCallTyped DEF Broken
  <1>2. call' \in [Tab -> [Call -> CallState]]
    BY Known, CallSet, NoCallTyped DEF Broken
  <1>3. Clear \/ UNCHANGED <<store, stray>>
    BY DEF Broken
  <1>4. QED
    BY <1>1, <1>2, <1>3, Cleared, Stored

LEMMA ServedInv ==
    ASSUME SessionInv, NEW t \in Tab, NEW c \in Call, Served(t, c) PROVE SessionInv'
  <1>1. call[t][c].token \in Nat
    BY Known DEF CallState
  <1>2. tab' \in [Tab -> TabState]
    BY <1>1, Known, TabSet DEF Served
  <1>3. call' \in [Tab -> [Call -> CallState]]
    BY Known, CallSet, NoCallTyped DEF Served
  <1>4. QED
    BY <1>2, <1>3, ApiStill, Stored, Together DEF Served

LEMMA LostInv ==
    ASSUME SessionInv, NEW t \in Tab, NEW c \in Call, Lost(t, c) PROVE SessionInv'
  BY BrokenTyped, ApiStill, Together DEF Lost

LEMMA RefusedInv ==
    ASSUME SessionInv, NEW t \in Tab, NEW c \in Call, Refused(t, c) PROVE SessionInv'
  <1>1. CASE Broken(t, c) /\ UNCHANGED accountVars
    BY <1>1, BrokenTyped, ApiStill, Together
  <1>2. CASE /\ call' = [call EXCEPT ![t][c].at = "waiting"]
             /\ IF tab[t].renewing THEN UNCHANGED <<accountVars, tab>>
                ELSE /\ Start0(Renewal(t), [kind |-> "refresh", id |-> store.refresh])
                     /\ tab' = [tab EXCEPT ![t].renewing = TRUE]
             /\ UNCHANGED <<store, stray>>
    <2>1. call' \in [Tab -> [Call -> CallState]]
      BY <1>2, Known DEF CallState
    <2>2. CASE UNCHANGED <<accountVars, tab>>
      BY <1>2, <2>1, <2>2, Known, ApiStill, Stored, Together
    <2>3. CASE /\ Start0(Renewal(t), [kind |-> "refresh", id |-> store.refresh])
               /\ tab' = [tab EXCEPT ![t].renewing = TRUE]
      <3>1. PICK op : op = [kind |-> "refresh", id |-> store.refresh]
        OBVIOUS
      <3>2. op \in Operation /\ op.kind = "refresh"
        BY <3>1, Known DEF Operation
      <3>3. AccountsInv' /\ RenewalsInv'
        BY <2>3, <3>1, <3>2, ApiAsked
      <3>4. tab' \in [Tab -> TabState]
        BY <2>3, Known DEF TabState
      <3>5. QED
        BY <1>2, <2>1, <3>3, <3>4, Stored, Together
    <2>4. QED
      BY <1>2, <2>2, <2>3
  <1>3. QED
    BY <1>1, <1>2 DEF Refused

\* The answer to a renewal: the one step that may leave the tokens of two
\* sessions in the store, and says so.
LEMMA RenewedInv ==
    ASSUME SessionInv, NEW t \in Tab, Renewed(t) PROVE SessionInv'
  <1>1. PICK i : i = Op(Renewal(t)).id
    OBVIOUS
  <1>2. i \in Nat
    <2>1. Op(Renewal(t)).kind = "refresh"
      BY Known DEF Renewed, RenewalsInv, At
    <2>2. QED
      BY <1>1, <2>1, Slots, Known, RowTyped, OperationKinds
  <1>3. /\ store' = [store EXCEPT !.access = i] /\ stray' = (store.refresh # i)
        /\ call' = [call EXCEPT ![t] = [c \in Call |->
                       IF Waiting(t, c) THEN [at |-> "again", token |-> i]
                                        ELSE call[t][c]]]
        /\ tab' = [tab EXCEPT ![t].renewing = FALSE]
    BY <1>1 DEF Renewed
  <1>4. /\ store' \in [access : Nat, refresh : Nat] /\ stray' \in BOOLEAN
        /\ StoreIsOneSession'
    BY <1>2, <1>3, Known DEF StoreIsOneSession
  <1>5. call' \in [Tab -> [Call -> CallState]]
    <2> DEFINE f == [c \in Call |-> IF Waiting(t, c) THEN [at |-> "again", token |-> i]
                                                     ELSE call[t][c]]
    <2>1. [at |-> "again", token |-> i] \in CallState
      BY <1>2 DEF CallState
    <2>2. f \in [Call -> CallState]
      BY <2>1, Known
    <2> HIDE DEF f
    <2>3. call' = [call EXCEPT ![t] = f]
      BY <1>3 DEF f
    <2>4. QED
      BY <2>2, <2>3, Known, CallsSet
  <1>6. tab' \in [Tab -> TabState]
    BY <1>3, Known DEF TabState
  <1>7. AccountsInv' /\ RenewalsInv'
    BY ApiAsked DEF Renewed, Answered, At
  <1>8. QED
    BY <1>4, <1>5, <1>6, <1>7, Together

LEMMA NotRenewedInv ==
    ASSUME SessionInv, NEW t \in Tab, NotRenewed(t) PROVE SessionInv'
  <1>1. call' \in [Tab -> [Call -> CallState]]
    <2> DEFINE f == [c \in Call |-> IF Waiting(t, c) THEN NoCall ELSE call[t][c]]
    <2>1. f \in [Call -> CallState]
      BY Known, NoCallTyped
    <2> HIDE DEF f
    <2>2. call' = [call EXCEPT ![t] = f]
      BY DEF NotRenewed, f
    <2>3. QED
      BY <2>1, <2>2, Known, CallsSet
  <1>2. tab' \in [Tab -> TabState]
    <2>1. tab[t] \in TabState /\ t \in DOMAIN tab
      BY Known
    <2>2. PICK u : u = IF Waiting(t, "me") THEN Null ELSE tab[t].user
      OBVIOUS
    <2>3. PICK f : f = IF Waiting(t, "me") THEN "off" ELSE tab[t].flow
      OBVIOUS
    <2>4. tab' = [tab EXCEPT ![t].renewing = FALSE, ![t].user = u, ![t].flow = f]
      BY <2>2, <2>3 DEF NotRenewed
    <2>5. u \in Nat /\ f \in {"boot", "booting", "off", "login", "entering", "logout"}
      BY <2>1, <2>2, <2>3 DEF TabState, Null
    <2>6. QED
      BY ZenonT(60), <2>4, <2>5, Known DEF TabState
  <1>3. AccountsInv' /\ RenewalsInv'
    BY ApiAsked DEF NotRenewed
  <1>4. QED
    BY <1>1, <1>2, <1>3, Cleared, Together DEF NotRenewed

LEMMA ReloadInv ==
    ASSUME SessionInv, NEW t \in Tab, Reload(t) PROVE SessionInv'
  <1>1. tab' \in [Tab -> TabState]
    <2>1. Booting \in TabState
      BY DEF TabState, Booting, Null
    <2>2. tab[t].reloads + 1 \in Nat
      BY Known DEF TabState
    <2>3. \A n \in Nat : [Booting EXCEPT !.reloads = n] \in TabState
      BY <2>1 DEF TabState
    <2>4. PICK b : b = [Booting EXCEPT !.reloads = tab[t].reloads + 1]
      OBVIOUS
    <2>5. b \in TabState
      BY <2>2, <2>3, <2>4
    <2>6. tab' = [tab EXCEPT ![t] = b]
      BY <2>4 DEF Reload
    <2>7. QED
      BY <2>5, <2>6, Known
  <1>2. [c \in Call |-> NoCall] \in [Call -> CallState]
    BY NoCallTyped
  <1>3. call' \in [Tab -> [Call -> CallState]]
    BY <1>2, Known, CallsSet DEF Reload
  <1>4. QED
    BY <1>1, <1>3, ApiStill, Stored, Together DEF Reload

LEMMA UnheardInv ==
    ASSUME SessionInv, NEW t \in Tab, Unheard(t) PROVE SessionInv'
  <1>1. PICK r \in {Flow(t), Renewal(t)} : Answered(r) /\ Recycle(r)
    BY DEF Unheard
  <1>2. UNCHANGED <<account, session, reset, cut, store, tab, call, stray>>
    BY DEF Unheard
  <1>3. AccountsInv' /\ RenewalsInv'
    BY <1>1, <1>2, ApiAsked
  <1>4. QED
    BY <1>2, <1>3, Known, Stored, Together

\* A step of the api alone.
LEMMA ApiInv ==
    ASSUME SessionInv, UNCHANGED <<store, tab, call, stray>>,
           \/ \E r \in Req : Statement(r) \/ Abort(r)
           \/ \E r \in Other : \E op \in OtherOps[r] : Start0(r, op)
           \/ LockExpires
    PROVE  SessionInv'
  <1>1. CASE \E r \in Req : Statement(r) \/ Abort(r)
    <2>1. PICK r \in Req : Statement(r) \/ Abort(r)
      BY <1>1
    <2>2. AccountsInv'
      BY <2>1, StatementInv, AbortInv, Known
    <2>3. RenewalsInv'
      BY <2>1, SameOperation, Slots, Known DEF RenewalsInv, At, Op
    <2>4. QED
      BY <2>2, <2>3, Known, Stored, Together
  <1>2. CASE \E r \in Other : \E op \in OtherOps[r] : Start0(r, op)
    <2>1. PICK r \in Other, op \in Operation : Start0(r, op)
      BY <1>2, SessionAssumption
    <2>2. r \in Req
      BY SessionAssumption
    <2>3. AccountsInv' /\ \A q \in Req \ {r} : req'[q] = req[q]
      BY <2>1, <2>2, TakenOrFreed, Known DEF Start0
    <2>4. RenewalsInv'
      BY <2>3, Slots, Known DEF RenewalsInv, At, Op
    <2>5. QED
      BY <2>3, <2>4, Known, Stored, Together
  <1>3. CASE LockExpires
    <2>1. RenewalsInv'
      BY <1>3, Known DEF LockExpires, RenewalsInv, At, Op
    <2>2. QED
      BY <1>3, <2>1, LockInv, Known, Stored, Together
  <1>4. QED
    BY <1>1, <1>2, <1>3

LEMMA SessionStart == Init => SessionInv
  <1> SUFFICES ASSUME Init PROVE SessionInv
    OBVIOUS
  <1>1. AccountsInv
    BY AccountsStart DEF Init
  <1>2. RenewalsInv
    BY Slots DEF Init, AccountsInit, RenewalsInv, At, Quiet
  <1>3. tab \in [Tab -> TabState]
    BY DEF Init, TabState, Booting, Null
  <1>4. call \in [Tab -> [Call -> CallState]]
    BY NoCallTyped DEF Init
  <1>5. store \in [access : Nat, refresh : Nat] /\ stray \in BOOLEAN /\ StoreIsOneSession
    BY DEF Init, Empty, Null, StoreIsOneSession
  <1>6. QED
    BY <1>1, <1>2, <1>3, <1>4, <1>5
       DEF SessionInv, AccountsInv, TypeOK, TabState, CallState

LEMMA SessionStep == SessionInv /\ [Next]_vars => SessionInv'
  <1> SUFFICES ASSUME SessionInv, [Next]_vars PROVE SessionInv'
    OBVIOUS
  <1>1. CASE \E t \in Tab : \/ FlowStep(t) \/ RenewalStep(t) \/ Unheard(t)
                            \/ \E c \in Call : CallStep(t, c)
                            \/ LogIn(t) \/ LogOut(t) \/ PageCall(t) \/ Reload(t)
    BY <1>1, AskingInv, LogInInv, LoginAnsweredInv, LogOutInv, LogoutAnsweredInv,
       ServedInv, LostInv, RefusedInv, RenewedInv, NotRenewedInv, ReloadInv,
       UnheardInv DEF FlowStep, RenewalStep, CallStep
  <1>2. CASE /\ \/ \E r \in Req : Statement(r) \/ Abort(r)
                \/ \E r \in Other : \E op \in OtherOps[r] : Start0(r, op)
                \/ LockExpires
             /\ UNCHANGED <<store, tab, call, stray>>
    BY <1>2, ApiInv
  <1>3. CASE UNCHANGED vars
    <2>1. UNCHANGED accountVars /\ UNCHANGED <<store, tab, call, stray>>
      BY <1>3 DEF vars
    <2>2. QED
      BY <2>1, Known, ApiStill, Stored, Together
  <1>4. QED
    BY <1>1, <1>2, <1>3 DEF Next, Handling

LEMMA SessionSafe == Spec => []SessionInv
  BY SessionStart, SessionStep, PTL DEF Spec

-----------------------------------------------------------------------------
(* Theorems *)

\* Whatever the tabs, the other devices and the administrators do, the
\* variables stay in their types: the api answers every request of a tab from
\* the states its handlers know.
THEOREM BrowserTyped == Spec => []TypeOK
  <1>1. SessionInv => TypeOK
    BY DEF SessionInv
  <1>2. QED
    BY <1>1, SessionSafe, PTL

\* The access and the refresh token in localStorage are of one session, unless
\* the answer to a renewal came after its refresh token had left the store
\* (lib/api.ts writes the new access token without looking again).
THEOREM TokensOfOneSession == Spec => []StoreIsOneSession
  <1>1. SessionInv => StoreIsOneSession
    BY DEF SessionInv
  <1>2. QED
    BY <1>1, SessionSafe, PTL

\* A session that still works belongs to the current password of a user who is
\* still there, up to the logins overtaken by a change and the changes that
\* have not come, or never came, to the statement that revokes the sessions.
THEOREM SessionsStayCurrent == Spec => []LiveSessionsCurrent
  <1>1. SessionInv => LiveSessionsCurrent
    BY DEF SessionInv, AccountsInv
  <1>2. QED
    BY <1>1, SessionSafe, PTL

\* As long as no two attempts overlap, the counter of an account is the number
\* of its failed attempts, and an account at the limit is locked until its
\* lock expires.
THEOREM AttemptsAreCounted == Spec => []AttemptsLock
  <1>1. SessionInv => AttemptsLock
    BY DEF SessionInv, AccountsInv
  <1>2. QED
    BY <1>1, SessionSafe, PTL

-----------------------------------------------------------------------------
(* What the pages of documents keep                                         *)

Statuses == DOMAIN Now.offered \cup {"GONE"}
CallOp == Operations \cup Saves \cup Derivations \cup {"none"}
CallRecord ==
    [op : CallOp, doc : Doc \cup {None}, at : {"off", "sent", "ok", "refused", "lost"},
     shown : Statuses \cup {""}, found : Statuses \cup {""}, version : Nat,
     base : Doc \cup {None}, opening : {0} \cup Opening, second : BOOLEAN]
End == {"saved", "cancelled", "swept"}
FormRecord ==
    [opening : {0} \cup Opening, base : Doc \cup {None}, due : BOOLEAN, typed : BOOLEAN]

PagesTypeOK ==
    /\ page \in Pages
    /\ doc \in [Doc -> [status : Statuses, by : Doc \cup {None}]]
    /\ version \in Nat
    /\ list.rows \in [Doc -> Statuses] /\ DOMAIN list = {"rows", "version"}
    /\ fetch.rows \in [Doc -> Statuses]
    /\ DOMAIN fetch = {"at", "joined", "rows", "version"}
    /\ dialog \in [creating : BOOLEAN, editing : Doc \cup {None},
                   viewing : Doc \cup {None}, deriving : Doc \cup {None},
                   by : CallSlot \cup {None}, done : BOOLEAN]
    /\ form \in FormRecord
    /\ calls \in [CallSlot -> CallRecord]
    /\ hasty \in BOOLEAN
    /\ made \in [Opening -> Nat] /\ failed \in [Opening -> Nat]
    /\ tries \in [Opening -> Nat]
    /\ ended \in [Opening -> {"never", "open"} \cup End]

Saving(s) == calls[s].op \in Saves
Asking(s) == calls[s].op = "edit"
SavesOf(o) == {s \in CallSlot : Saving(s) /\ calls[s].opening = o}
AskSet == {s \in CallSlot : Asking(s)}

\* What is known of a call by its operation, and of one that a row began.
CallOf(s) ==
    /\ calls[s].at = "off" => calls[s].op = "none"
    /\ Saving(s) => calls[s].opening # 0 /\ calls[s].shown = ""
    /\ calls[s].second => Saving(s)
    /\ calls[s].op \in Details \cup {"patch"} => calls[s].doc \in Doc
    /\ calls[s].op \in Details => calls[s].shown # ""
    /\ calls[s].shown # "" =>
          /\ calls[s].doc \in Doc
          /\ calls[s].shown \in DOMAIN Now.offered
          /\ calls[s].op \in Now.offered[calls[s].shown] \ Derivations
    /\ Asking(s) => Now.detail
CallsInv == \A s \in CallSlot : CallOf(s)

\* An editor has its form as long as its dialog is open.
FormInv ==
    /\ form.opening # 0 <=> EditorOpen(dialog)
    /\ \A o \in Opening : ended[o] = "open" <=> form.opening = o
    /\ Now.closes = "same" =>
          /\ dialog.creating => dialog.editing = None /\ form.base = None
          /\ dialog.editing # None => form.base # None
    /\ form.typed => form.opening # 0

\* There is room for the editors asked for.
RoomInv == Cardinality(Unopened) >= Cardinality(AskSet)

\* An editor saves one thing at a time, and goes before its save is answered
\* only if it is cancelled or swept away.
SavesInv ==
    \A s \in CallSlot : Saving(s) =>
        /\ SavesOf(calls[s].opening) = {s}
        /\ tries[calls[s].opening] > 0
        /\ form.opening = calls[s].opening \/ ended[calls[s].opening] \in {"cancelled", "swept"}
        /\ form.opening = calls[s].opening => calls[s].base = form.base
        /\ Now.closes = "same" => (calls[s].op = "create" <=> calls[s].base = None)

\* What an editor has created.
MadeInv ==
    /\ \A o \in Opening :
          /\ Now.numbered => made[o] <= 1
          /\ ~Now.numbered => made[o] <= 1 + failed[o]
          /\ ~Now.numbered /\ ended[o] \in {"never", "open"} /\ SavesOf(o) = {}
                => made[o] <= failed[o]
    /\ \A s \in CallSlot :
          ~Now.numbered /\ Saving(s) /\ calls[s].at = "sent" /\ ~calls[s].second
              => made[calls[s].opening] <= failed[calls[s].opening]

\* An editor is swept away by the save of one that was cancelled.
SweptInv ==
    \A o \in Opening : ended[o] = "swept" =>
        \E p \in Opening : ended[p] = "cancelled" /\ tries[p] > 0

\* One editor at a time shows the document it saves.
ShownInv ==
    ~hasty =>
        /\ \A s, u \in CallSlot : Asking(s) /\ Asking(u) => s = u
        /\ \A s \in CallSlot : Asking(s) => dialog.editing = None
        /\ dialog.editing # None /\ ~dialog.creating => form.base = dialog.editing
        /\ \A s \in CallSlot : calls[s].op = "patch" => calls[s].base = calls[s].doc
        /\ SavedWhereShown

PagesInv ==
    /\ PagesTypeOK /\ CallsInv /\ FormInv /\ RoomInv /\ SavesInv /\ MadeInv
    /\ ShownInv /\ FreshPressAccepted /\ SweptInv

\* What the pages offer fits what the api admits.
Fits(offered, steps) ==
    /\ "" \notin DOMAIN offered /\ "GONE" \notin DOMAIN offered
    /\ \A st \in DOMAIN offered : offered[st] \cap Saves = {}
    /\ \A st \in DOMAIN offered : \A op \in offered[st] \ (Details \cup Derivations) :
          op \in DOMAIN steps /\ st \in steps[op].from
    /\ DOMAIN steps \cap (Saves \cup {"none"}) = {}
    /\ \A op \in DOMAIN steps \ {"edit"} :
          steps[op].from = {} \/ steps[op].to \in DOMAIN offered \cup {"GONE"}

LEMMA OffersFit ==
    /\ Fits(OfferedByQuotations, QuotationSteps)
    /\ Fits(OfferedBySalesOrders, SalesOrderSteps)
    /\ Fits(OfferedByPurchaseOrders, PurchaseOrderSteps)
    /\ Fits(OfferedByInvoices, InvoiceSteps)
    /\ Fits(OfferedByReceipts, NoSteps)
    /\ Fits(OfferedByPartners, LiveSteps)
    /\ Fits(OfferedByMovements, NoSteps)
  <1> USE DEF Fits, Step, Saves, Details, Derivations
  <1>1. Fits(OfferedByQuotations, QuotationSteps)
    BY DEF OfferedByQuotations, QuotationSteps
  <1>2. Fits(OfferedBySalesOrders, SalesOrderSteps)
    BY DEF OfferedBySalesOrders, SalesOrderSteps
  <1>3. Fits(OfferedByPurchaseOrders, PurchaseOrderSteps)
    BY DEF OfferedByPurchaseOrders, PurchaseOrderSteps
  <1>4. Fits(OfferedByInvoices, InvoiceSteps)
    BY DEF OfferedByInvoices, InvoiceSteps
  <1>5. Fits(OfferedByReceipts, NoSteps)
    BY DEF OfferedByReceipts, NoSteps
  <1>6. Fits(OfferedByPartners, LiveSteps)
    BY DEF OfferedByPartners, LiveSteps
  <1>7. Fits(OfferedByMovements, NoSteps)
    BY DEF OfferedByMovements, NoSteps
  <1>8. QED
    BY <1>1, <1>2, <1>3, <1>4, <1>5, <1>6, <1>7

PageOK(w) ==
    /\ w.detail \in BOOLEAN /\ w.numbered \in BOOLEAN
    /\ w.closes \in {"all", "same", "own"}
    /\ w.closes = "same" =>
          w.detail = FALSE \/ \A st \in DOMAIN w.offered : "edit" \notin w.offered[st]
    /\ Fits(w.offered, w.steps)

LEMMA PageFacts == ASSUME NEW p \in DOMAIN PageOf PROVE PageOK(PageOf[p])
  <1> USE OffersFit DEF PageOK, Page, Editor
  <1>1. PageOK(QuotationsPage)
    BY DEF QuotationsPage, QuotationEditor
  <1>2. PageOK(SalesOrdersPage)
    BY DEF SalesOrdersPage, SalesOrderEditor
  <1>3. PageOK(PurchaseOrdersPage)
    BY DEF PurchaseOrdersPage, PurchaseOrderEditor
  <1>4. PageOK(InvoicesPage)
    BY DEF InvoicesPage, InvoiceEditor
  <1>5. PageOK(ReceiptsPage)
    BY DEF ReceiptsPage, ReceiptEditor, OfferedByReceipts
  <1>6. PageOK(PartnersPage)
    BY DEF PartnersPage, PartnerEditor
  <1>7. PageOK(ProductsPage)
    BY DEF ProductsPage, ProductEditor, OfferedByProducts, OfferedByPartners
  <1>8. PageOK(UsersPage)
    BY DEF UsersPage, UserEditor, OfferedByUsers, OfferedByPartners
  <1>9. PageOK(CatalogPage)
    BY DEF CatalogPage, CatalogEditor, OfferedByCatalogs, OfferedByPartners
  <1>10. PageOK(MovementsPage)
    BY DEF MovementsPage, MovementForm
  <1>11. PageOK(TransfersTab)
    BY DEF TransfersTab, TransferForm
  <1>12. QED
    BY <1>1, <1>2, <1>3, <1>4, <1>5, <1>6, <1>7, <1>8, <1>9, <1>10, <1>11 DEF PageOf

-----------------------------------------------------------------------------
(* Types *)

LEMMA NowFits == ASSUME page \in Pages PROVE PageOK(Now)
  BY PageFacts, PagesAssumption DEF Now

\* The fields of a call as it is sent.
SentFields(c, op, d, shown, base, o) ==
    /\ c.op = op /\ c.doc = d /\ c.at = "sent" /\ c.shown = shown /\ c.base = base
    /\ c.opening = o /\ c.second = FALSE

LEMMA NoneSentFields ==
    /\ NoneSent \in CallRecord
    /\ NoneSent.op = "none" /\ NoneSent.doc = None /\ NoneSent.at = "off"
    /\ NoneSent.shown = "" /\ NoneSent.base = None /\ NoneSent.opening = 0
    /\ NoneSent.second = FALSE /\ NoneSent.version = 0
  BY DEF NoneSent, CallRecord, CallOp

LEMMA SentIsCall ==
    ASSUME PagesTypeOK, NEW op \in CallOp, NEW d \in Doc \cup {None}
    PROVE  New(op, d) \in CallRecord /\ SentFields(New(op, d), op, d, "", None, 0)
  BY NoneSentFields DEF New, CallRecord, SentFields

LEMMA PagesStartTyped == PagesInit => PagesTypeOK
  <1> SUFFICES ASSUME PagesInit PROVE PagesTypeOK
    OBVIOUS
  <1>1. /\ page \in Pages /\ version \in Nat /\ hasty \in BOOLEAN
        /\ form \in FormRecord
        /\ dialog \in [creating : BOOLEAN, editing : Doc \cup {None},
                   viewing : Doc \cup {None}, deriving : Doc \cup {None},
                   by : CallSlot \cup {None}, done : BOOLEAN]
    BY DEF PagesInit, NoForm, NoDialog, FormRecord
  <1>2. /\ list.rows \in [Doc -> Statuses] /\ DOMAIN list = {"rows", "version"}
        /\ fetch.rows \in [Doc -> Statuses]
        /\ DOMAIN fetch = {"at", "joined", "rows", "version"}
    BY DEF PagesInit, NoRows, Asked, Statuses
  <1>3. calls \in [CallSlot -> CallRecord]
    <2>1. NoneSent \in CallRecord
      BY DEF NoneSent, CallRecord, CallOp
    <2>2. QED
      BY <2>1 DEF PagesInit
  <1>4. doc \in [Doc -> [status : Statuses, by : Doc \cup {None}]]
    BY DEF PagesInit, Statuses
  <1>5. /\ made \in [Opening -> Nat] /\ failed \in [Opening -> Nat]
        /\ tries \in [Opening -> Nat]
        /\ ended \in [Opening -> {"never", "open"} \cup End]
    BY DEF PagesInit
  <1>6. QED
    BY <1>1, <1>2, <1>3, <1>4, <1>5 DEF PagesTypeOK

\* Writing at a slot, and the fields of what is there then.
LEMMA CallEdited ==
    ASSUME PagesTypeOK, NEW s \in CallSlot, NEW c \in CallRecord,
           calls' = [calls EXCEPT ![s] = c], page' = page
    PROVE  /\ (calls \in [CallSlot -> CallRecord])'
           /\ calls'[s] = c /\ \A u \in CallSlot \ {s} : calls'[u] = calls[u]
  BY DEF PagesTypeOK, CallRecord, Statuses, Now

\* The least of the openings not used yet.
LEMMA LeastOpening ==
    ASSUME NEW S, S \subseteq Nat, S # {}
    PROVE  (CHOOSE o \in S : \A p \in S : o <= p) \in S
  <1>1. PICK o \in S : \A p \in S : ~(<<p, o>> \in OpToRel(<, Nat))
    BY NatLessThanWellFounded, WFMin
  <1>2. \A p \in S : ~(p < o)
    BY <1>1 DEF OpToRel
  <1>3. \A p \in S : p \in Nat /\ o \in Nat
    OBVIOUS
  <1>4. \A p \in S : o <= p
    BY <1>2, <1>3
  <1>5. QED
    BY <1>4

LEMMA FormMounted ==
    ASSUME PagesTypeOK, NEW d \in Doc \cup {None}, Mounted(d), Unopened # {}
    PROVE  \E o \in Unopened :
              /\ o \in Opening /\ o # 0
              /\ form' \in FormRecord /\ form'.opening = o /\ form'.base = d
              /\ ~form'.typed
              /\ ended' = [ended EXCEPT ![o] = "open"]
  <1> DEFINE o == CHOOSE o \in Unopened : \A p \in Unopened : o <= p
  <1>1. Unopened \subseteq Opening /\ Opening \subseteq Nat \ {0}
    BY BoundAssumption DEF Unopened, Opening
  <1>2. o \in Unopened
    BY <1>1, LeastOpening
  <1>3. /\ form' = [opening |-> o, base |-> d, due |-> page # "products", typed |-> FALSE]
        /\ ended' = [ended EXCEPT ![o] = "open"]
    BY DEF Mounted
  <1> HIDE DEF o
  <1>4. QED
    BY <1>1, <1>2, <1>3 DEF FormRecord

FormTypeOK ==
    /\ form \in FormRecord
    /\ ended \in [Opening -> {"never", "open"} \cup End]

LEMMA FormMountedTyped ==
    ASSUME PagesTypeOK, NEW d \in Doc \cup {None}, Mounted(d), Unopened # {}
    PROVE  FormTypeOK'
  <1>1. PICK o \in Unopened :
              /\ o \in Opening /\ o # 0
              /\ form' \in FormRecord /\ form'.opening = o /\ form'.base = d
              /\ ~form'.typed
              /\ ended' = [ended EXCEPT ![o] = "open"]
    BY FormMounted
  <1>2. QED
    BY <1>1 DEF FormTypeOK, PagesTypeOK

LEMMA FormEndedTyped ==
    ASSUME PagesTypeOK, NEW how \in End, EndForm(how) PROVE FormTypeOK'
  BY DEF EndForm, FormTypeOK, PagesTypeOK, NoForm, FormRecord

LEMMA FetchTyped ==
    ASSUME PagesTypeOK, page' = page, Invalidate \/ UNCHANGED fetch
    PROVE  /\ (fetch.rows \in [Doc -> Statuses])'
           /\ DOMAIN fetch' = {"at", "joined", "rows", "version"}
  <1>1. Statuses' = Statuses
    BY DEF Statuses, Now
  <1>2. Asked.rows \in [Doc -> Statuses] /\ DOMAIN Asked = {"at", "joined", "rows", "version"}
    BY DEF Asked, NoRows, Statuses
  <1>3. QED
    BY <1>1, <1>2 DEF Invalidate, PagesTypeOK

LEMMA SetsFinite ==
    ASSUME PagesTypeOK
    PROVE  /\ IsFiniteSet(Unopened) /\ Cardinality(Unopened) \in Nat
           /\ IsFiniteSet(AskSet) /\ Cardinality(AskSet) \in Nat
  <1>1. IsFiniteSet(Opening)
    BY BoundAssumption, FS_Interval DEF Opening
  <1>2. Unopened \in SUBSET Opening /\ AskSet \in SUBSET CallSlot
    BY DEF Unopened, AskSet
  <1>3. IsFiniteSet(Unopened) /\ IsFiniteSet(AskSet)
    BY <1>1, <1>2, BoundAssumption, FS_Subset
  <1>4. QED
    BY <1>3, FS_CardinalityType

LEMMA MayOpenMeans ==
    ASSUME PagesTypeOK, MayOpen
    PROVE  Unopened # {} /\ Cardinality(Unopened) > Cardinality(AskSet)
  <1>1. Cardinality(Unopened) > Cardinality(AskSet)
    BY DEF MayOpen, AskSet, Asking
  <1>2. QED
    BY <1>1, SetsFinite, FS_EmptySet

\* An editor asked for finds an opening.
LEMMA AskedMayOpen ==
    ASSUME PagesTypeOK, RoomInv, NEW s \in CallSlot, Asking(s) PROVE Unopened # {}
  <1>1. s \in AskSet
    BY DEF AskSet
  <1>2. Cardinality(AskSet) # 0
    BY <1>1, SetsFinite, FS_EmptySet
  <1>3. QED
    BY <1>2, SetsFinite, FS_EmptySet DEF RoomInv

\* The slot of a call: what its action does there.
Only(s) == \A u \in CallSlot \ {s} : calls'[u] = calls[u]
SentAs(s, op, d, shown, base, o) ==
    /\ calls[s].at = "off" /\ Only(s)
    /\ SentFields(calls'[s], op, d, shown, base, o)
AnsweredAt(s) ==
    /\ Only(s)
    /\ calls'[s].at \in {"ok", "refused", "lost"}
    /\ calls'[s].op = calls[s].op /\ calls'[s].doc = calls[s].doc
    /\ calls'[s].shown = calls[s].shown /\ calls'[s].base = calls[s].base
    /\ calls'[s].opening = calls[s].opening /\ calls'[s].second = calls[s].second
FreedAt(s) == Only(s) /\ calls'[s] = NoneSent

CallsTypeOK == calls \in [CallSlot -> CallRecord]

LEMMA AskedAt ==
    ASSUME PagesTypeOK, NEW s \in CallSlot, NEW d \in Doc, NEW op \in Operations,
           AskDetail(s, d, op) \/ Press(s, d, op)
    PROVE  /\ CallsTypeOK' /\ SentAs(s, op, d, list.rows[d], None, 0)
           /\ list.rows[d] \in DOMAIN Now.offered /\ op \in Now.offered[list.rows[d]]
  <1> DEFINE n == New(op, d)
             c == [n EXCEPT !.shown = list.rows[d]]
  <1>1. list.rows[d] \in DOMAIN Now.offered /\ op \in Now.offered[list.rows[d]]
    BY DEF AskDetail, Press, Listed, Offers, PagesTypeOK, Statuses
  <1>2. calls' = [calls EXCEPT ![s] = c] /\ calls[s].at = "off" /\ page' = page
    BY DEF AskDetail, Press, InFlight, FromRow
  <1>3. n \in CallRecord /\ SentFields(n, op, d, "", None, 0)
    BY SentIsCall DEF CallOp
  <1>4. list.rows[d] \in Statuses
    BY DEF PagesTypeOK
  <1> HIDE DEF n
  <1>5. c \in CallRecord /\ SentFields(c, op, d, list.rows[d], None, 0)
    BY <1>3, <1>4 DEF CallRecord, SentFields
  <1> HIDE DEF c
  <1>6. QED
    BY <1>1, <1>2, <1>5, CallEdited DEF CallsTypeOK, SentAs, Only

SubmitOp == IF dialog.creating THEN "create" ELSE "patch"
SubmitDoc == IF dialog.creating THEN None ELSE dialog.editing
LEMMA SubmittedAt ==
    ASSUME PagesTypeOK, NEW s \in CallSlot, Submit(s)
    PROVE  CallsTypeOK' /\ SentAs(s, SubmitOp, SubmitDoc, "", form.base, form.opening)
  <1> DEFINE n == New(SubmitOp, SubmitDoc)
             b == [n EXCEPT !.base = form.base]
             c == [b EXCEPT !.opening = form.opening]
  <1>1. SubmitOp \in CallOp /\ SubmitDoc \in Doc \cup {None}
    BY DEF PagesTypeOK, SubmitOp, SubmitDoc, CallOp, Saves
  <1>2. n \in CallRecord /\ SentFields(n, SubmitOp, SubmitDoc, "", None, 0)
    BY <1>1, SentIsCall
  <1>3. calls' = [calls EXCEPT ![s] = c] /\ calls[s].at = "off" /\ page' = page
    <2>1. SubmitOp = "create" <=> dialog.creating
      BY DEF SubmitOp
    <2>2. QED
      BY <2>1 DEF Submit, InFlight, SubmitOp, SubmitDoc
  <1> HIDE DEF n
  <1>4. c \in CallRecord /\ SentFields(c, SubmitOp, SubmitDoc, "", form.base, form.opening)
    BY <1>2 DEF PagesTypeOK, CallRecord, SentFields, FormRecord
  <1> HIDE DEF c
  <1>5. QED
    BY <1>3, <1>4, CallEdited DEF CallsTypeOK, SentAs, Only

DeriveOp == IF page = "quotations" THEN "convert" ELSE "bill"
LEMMA DerivedAt ==
    ASSUME PagesTypeOK, NEW s \in CallSlot, Derive(s)
    PROVE  CallsTypeOK' /\ SentAs(s, DeriveOp, dialog.deriving, "", None, 0)
  <1> DEFINE c == New(DeriveOp, dialog.deriving)
  <1>1. calls' = [calls EXCEPT ![s] = c] /\ calls[s].at = "off" /\ page' = page
    BY DEF Derive, InFlight, DeriveOp
  <1>2. c \in CallRecord /\ SentFields(c, DeriveOp, dialog.deriving, "", None, 0)
    BY SentIsCall DEF PagesTypeOK, DeriveOp, CallOp, Derivations
  <1> HIDE DEF c
  <1>3. QED
    BY <1>1, <1>2, CallEdited DEF CallsTypeOK, SentAs, Only

LEMMA FreedTyped ==
    ASSUME PagesTypeOK, NEW s \in CallSlot, Free(s), page' = page
    PROVE  CallsTypeOK' /\ FreedAt(s)
  BY NoneSentFields, CallEdited DEF Free, CallsTypeOK, FreedAt, Only

\* Accept, Refuse and Lose answer a call.
LEMMA AnsweredTyped ==
    ASSUME PagesTypeOK, NEW s \in CallSlot, page' = page,
           NEW a \in {"ok", "refused", "lost"}, NEW f \in Statuses \cup {""}, NEW v \in Nat,
           NEW c \in CallRecord, calls' = [calls EXCEPT ![s] = c],
           c = [[[calls[s] EXCEPT !.at = a] EXCEPT !.found = f] EXCEPT !.version = v]
    PROVE  CallsTypeOK' /\ AnsweredAt(s) /\ calls'[s].at = a /\ calls'[s].found = f
  <1>1. calls[s] \in CallRecord
    BY DEF PagesTypeOK
  <1>2. /\ c.at = a /\ c.found = f /\ c.op = calls[s].op /\ c.doc = calls[s].doc
        /\ c.shown = calls[s].shown /\ c.base = calls[s].base
        /\ c.opening = calls[s].opening /\ c.second = calls[s].second
    BY ZenonT(60), <1>1 DEF CallRecord
  <1>3. QED
    BY <1>2, CallEdited DEF CallsTypeOK, AnsweredAt, Only
LEMMA AcceptedAt ==
    ASSUME PagesTypeOK, NEW s \in CallSlot, page' = page, Accept(s), version' \in Nat
    PROVE  CallsTypeOK' /\ AnsweredAt(s) /\ calls'[s].at = "ok"
  <1> DEFINE c == [[[calls[s] EXCEPT !.at = "ok"] EXCEPT !.found = calls[s].found]
                       EXCEPT !.version = version']
  <1>1. calls[s] \in CallRecord /\ calls \in [CallSlot -> CallRecord]
    BY DEF PagesTypeOK
  <1>2. c \in CallRecord /\ calls[s].found \in Statuses \cup {""}
    BY <1>1 DEF CallRecord
  <1>3. calls' = [calls EXCEPT ![s] = c]
    BY <1>1 DEF Accept, CallRecord
  <1>4. QED
    BY <1>2, <1>3, AnsweredTyped
FoundAt(s) == IF calls[s].doc \in Doc THEN doc[calls[s].doc].status ELSE ""
LEMMA RefusedAt ==
    ASSUME PagesTypeOK, NEW s \in CallSlot, page' = page, Refuse(s)
    PROVE  /\ CallsTypeOK' /\ AnsweredAt(s) /\ calls'[s].at = "refused"
           /\ calls'[s].found = FoundAt(s)
  <1> DEFINE c == [[[calls[s] EXCEPT !.at = "refused"] EXCEPT !.found = FoundAt(s)]
                       EXCEPT !.version = calls[s].version]
  <1>1. calls[s] \in CallRecord /\ calls \in [CallSlot -> CallRecord]
    BY DEF PagesTypeOK
  <1>2. FoundAt(s) \in Statuses \cup {""}
    BY <1>1 DEF PagesTypeOK, FoundAt
  <1>3. c \in CallRecord /\ calls[s].version \in Nat
    BY <1>1, <1>2 DEF CallRecord
  <1>4. calls' = [calls EXCEPT ![s] = c]
    BY <1>1 DEF Refuse, CallRecord, FoundAt
  <1>5. QED
    BY <1>2, <1>3, <1>4, AnsweredTyped
LEMMA LostAt ==
    ASSUME PagesTypeOK, NEW s \in CallSlot, Lose(s)
    PROVE  CallsTypeOK' /\ AnsweredAt(s) /\ calls'[s].at = "lost"
  <1> DEFINE c == [[[calls[s] EXCEPT !.at = "lost"] EXCEPT !.found = ""] EXCEPT !.version = 0]
  <1>1. calls[s] \in CallRecord /\ calls \in [CallSlot -> CallRecord]
    BY DEF PagesTypeOK
  <1>2. c \in CallRecord
    BY <1>1 DEF CallRecord
  <1>3. calls' = [calls EXCEPT ![s] = c] /\ page' = page
    BY <1>1 DEF Lose, CallRecord
  <1>4. QED
    BY <1>2, <1>3, AnsweredTyped

\* What stays when the editors on the page do.
SameEditor ==
    /\ page' = page /\ allowed' = allowed /\ ended' = ended
    /\ form'.opening = form.opening /\ form'.base = form.base
    /\ form'.typed => form.typed \/ form.opening # 0
    /\ dialog'.creating = dialog.creating /\ dialog'.editing = dialog.editing

\* An operation admitted leads to a status of the page.
LEMMA OutcomeTyped ==
    ASSUME PagesTypeOK, NEW d \in Doc, NEW op \in DOMAIN Now.steps \ {"edit"}, Admitted(op, d)
    PROVE  Outcome(op, d) \in Statuses
  BY NowFits DEF PageOK, Fits, PagesTypeOK, Admitted, Outcome, Statuses

\* What each answer of the api does, whatever it answers.
ServedDoc(s) ==
    \/ doc' = doc
    \/ /\ calls[s].op \in DOMAIN Now.steps \ Details
       /\ doc' = [doc EXCEPT ![calls[s].doc].status = Outcome(calls[s].op, calls[s].doc)]
       /\ Admitted(calls[s].op, calls[s].doc)
    \/ /\ calls[s].op = "patch"
       /\ doc' = [doc EXCEPT ![calls[s].doc].by = calls[s].base]
ServedMade(s) ==
    \/ made' = made
    \/ /\ calls[s].op = "create" /\ calls[s].at = "sent" /\ ~calls[s].second
       /\ Now.numbered => ~(made[calls[s].opening] > 0)
       /\ made' = [made EXCEPT ![calls[s].opening] = @ + 1]
RefusedAsFound(s) ==
    calls'[s].at = "refused" =>
        /\ calls'[s].found = FoundAt(s)
        /\ \/ calls[s].op \in Details /\ doc[calls[s].doc].status = "GONE"
           \/ /\ calls[s].op \in DOMAIN Now.steps \ Details
              /\ \/ ~Admitted(calls[s].op, calls[s].doc)
                 \/ Now.referred \/ calls[s].op \notin allowed
           \/ Saving(s) \/ calls[s].second

LEMMA ServedAt ==
    ASSUME PagesTypeOK, NEW s \in CallSlot, Serve(s)
    PROVE  /\ CallsTypeOK' /\ AnsweredAt(s) /\ version' \in Nat
           /\ ServedDoc(s) /\ ServedMade(s) /\ RefusedAsFound(s)
           /\ calls'[s].at \in {"ok", "refused"}
  <1>1. page' = page /\ calls[s].at = "sent" /\ version \in Nat
    BY DEF Serve, PagesTypeOK
  <1>2. \/ Refuse(s) /\ doc' = doc /\ version' = version /\ made' = made
        \/ Accept(s) /\ version' \in Nat
    <2>1. CASE ServeDetail(s) \/ ServeSecond(s)
      BY <1>1, <2>1 DEF ServeDetail, ServeSecond, Refuse, serverVars
    <2>2. CASE ServeOperation(s)
      <3>1. Refuse(s) \/ (version' = version + 1 /\ Accept(s))
        BY <2>2 DEF ServeOperation
      <3>2. Refuse(s) => doc' = doc /\ version' = version /\ made' = made
        BY DEF Refuse, serverVars
      <3>3. QED
        BY <1>1, <3>1, <3>2
    <2>3. CASE ServeSave(s)
      <3>1. Refuse(s) \/ (version' = version + 1 /\ Accept(s))
        BY <2>3 DEF ServeSave
      <3>2. Refuse(s) => doc' = doc /\ version' = version /\ made' = made
        BY DEF Refuse, serverVars
      <3>3. QED
        BY <1>1, <3>1, <3>2
    <2>4. QED
      BY <2>1, <2>2, <2>3 DEF Serve
  <1>3. ServedDoc(s) /\ ServedMade(s)
    <2>1. CASE ServeDetail(s) \/ ServeSecond(s)
      BY <2>1 DEF ServeDetail, ServeSecond, ServedDoc, ServedMade, Refuse, serverVars
    <2>2. CASE ServeOperation(s)
      BY <2>2 DEF ServeOperation, ServedDoc, ServedMade, Refuse, serverVars
    <2>3. CASE ServeSave(s)
      BY <1>1, <2>3 DEF ServeSave, ServedDoc, ServedMade, Refuse, serverVars, Saves
    <2>4. QED
      BY <2>1, <2>2, <2>3 DEF Serve
  <1>4. CASE Accept(s) /\ version' \in Nat
    BY <1>1, <1>3, <1>4, AcceptedAt DEF RefusedAsFound
  <1>5. CASE Refuse(s) /\ doc' = doc /\ version' = version /\ made' = made
    <2>1. /\ CallsTypeOK' /\ AnsweredAt(s) /\ calls'[s].at = "refused"
          /\ calls'[s].found = FoundAt(s)
      BY <1>1, <1>5, RefusedAt
    <2>2. ~Accept(s)
      <3>1. SUFFICES ASSUME Accept(s) PROVE FALSE
        OBVIOUS
      <3>2. calls'[s].at = "ok"
        BY <1>1, <1>5, <3>1, AcceptedAt
      <3>3. QED
        BY <2>1, <3>2
    <2>3. RefusedAsFound(s)
      <3>1. CASE ServeDetail(s)
        BY <2>1, <2>2, <3>1 DEF ServeDetail, RefusedAsFound
      <3>2. CASE ServeOperation(s)
        BY <2>1, <2>2, <3>2 DEF ServeOperation, RefusedAsFound
      <3>3. CASE ServeSave(s) \/ ServeSecond(s)
        BY <2>1, <3>3 DEF ServeSave, ServeSecond, RefusedAsFound, Saving
      <3>4. QED
        BY <3>1, <3>2, <3>3 DEF Serve
    <2>4. QED
      BY <1>1, <1>3, <1>5, <2>1, <2>3
  <1>6. QED
    BY <1>2, <1>4, <1>5

\* The parts of the type invariant, for the actions that write them.
RestTypeOK ==
    /\ page \in Pages /\ version \in Nat /\ hasty \in BOOLEAN
    /\ list.rows \in [Doc -> Statuses] /\ DOMAIN list = {"rows", "version"}
    /\ made \in [Opening -> Nat] /\ failed \in [Opening -> Nat]
    /\ tries \in [Opening -> Nat]
FetchTypeOK ==
    fetch.rows \in [Doc -> Statuses] /\ DOMAIN fetch = {"at", "joined", "rows", "version"}
DocTypeOK == doc \in [Doc -> [status : Statuses, by : Doc \cup {None}]]
DialogTypeOK ==
    dialog \in [creating : BOOLEAN, editing : Doc \cup {None}, viewing : Doc \cup {None},
                deriving : Doc \cup {None}, by : CallSlot \cup {None}, done : BOOLEAN]

LEMMA TypeParts ==
    ASSUME RestTypeOK', FetchTypeOK', DocTypeOK', DialogTypeOK', FormTypeOK', CallsTypeOK'
    PROVE  PagesTypeOK'
  BY DEF PagesTypeOK, RestTypeOK, FetchTypeOK, DocTypeOK, DialogTypeOK, FormTypeOK, CallsTypeOK

\* What stays, stays typed.
LEMMA Untouched ==
    ASSUME PagesTypeOK, page' = page
    PROVE  /\ fetch' = fetch => FetchTypeOK'
           /\ doc' = doc => DocTypeOK'
           /\ dialog' = dialog => DialogTypeOK'
           /\ form' = form /\ ended' = ended => FormTypeOK'
           /\ calls' = calls => CallsTypeOK'
           /\ list' = list /\ version' = version /\ hasty' = hasty
                 /\ made' = made /\ failed' = failed /\ tries' = tries => RestTypeOK'
  <1>1. Statuses' = Statuses
    BY DEF Statuses, Now
  <1>2. CallRecord' = CallRecord
    BY <1>1 DEF CallRecord
  <1>3. /\ fetch' = fetch => FetchTypeOK'
        /\ doc' = doc => DocTypeOK'
        /\ calls' = calls => CallsTypeOK'
    BY <1>1, <1>2 DEF PagesTypeOK, FetchTypeOK, DocTypeOK, CallsTypeOK
  <1>4. /\ dialog' = dialog => DialogTypeOK'
        /\ form' = form /\ ended' = ended => FormTypeOK'
    BY DEF PagesTypeOK, DialogTypeOK, FormTypeOK
  <1>5. list' = list /\ version' = version /\ hasty' = hasty
            /\ made' = made /\ failed' = failed /\ tries' = tries => RestTypeOK'
    BY <1>1 DEF PagesTypeOK, RestTypeOK
  <1>6. QED
    BY <1>3, <1>4, <1>5

LEMMA StatusWritten ==
    ASSUME PagesTypeOK, NEW d, NEW v, d \in Doc => v \in Statuses,
           doc' = [doc EXCEPT ![d].status = v]
    PROVE  /\ doc' \in [Doc -> [status : Statuses, by : Doc \cup {None}]]
           /\ \A e \in Doc : doc'[e].by = doc[e].by
  <1>1. doc \in [Doc -> [status : Statuses, by : Doc \cup {None}]]
    BY DEF PagesTypeOK
  <1>2. CASE d \in Doc
    <2> DEFINE r == [doc[d] EXCEPT !.status = v]
    <2>1. doc' = [doc EXCEPT ![d] = r]
      BY <1>1
    <2>2. r \in [status : Statuses, by : Doc \cup {None}] /\ r.by = doc[d].by
      BY <1>1, <1>2
    <2> HIDE DEF r
    <2>3. QED
      BY <1>1, <2>1, <2>2
  <1>3. CASE d \notin Doc
    <2>1. doc' = doc
      BY <1>1, <1>3
    <2>2. QED
      BY <1>1, <2>1
  <1>4. QED
    BY <1>2, <1>3

LEMMA ListTyped ==
    ASSUME PagesTypeOK, AskList \/ ReadList \/ ListArrives \/ ListFails PROVE PagesTypeOK'
  <1>1. page' = page /\ Statuses' = Statuses
    BY DEF AskList, ReadList, ListArrives, ListFails, Statuses, Now
  <1>2. Asked.rows \in [Doc -> Statuses] /\ DOMAIN Asked = {"at", "joined", "rows", "version"}
    BY DEF Asked, NoRows, Statuses
  <1>3. FetchTypeOK'
    <2>1. CASE ReadList
      <3>1. \A d \in Doc : doc[d].status \in Statuses
        BY DEF PagesTypeOK
      <3>2. fetch' = [[[fetch EXCEPT !.at = "read"] EXCEPT !.version = version]
                         EXCEPT !.rows = [d \in Doc |-> doc[d].status]]
        BY <2>1 DEF ReadList
      <3>3. QED
        BY <1>1, <3>1, <3>2 DEF FetchTypeOK, PagesTypeOK
    <2>2. CASE AskList \/ ListFails
      BY <1>1, <1>2, <2>2 DEF AskList, ListFails, FetchTypeOK
    <2>3. CASE ListArrives
      BY <1>1, <1>2, <2>3 DEF ListArrives, FetchTypeOK
    <2>4. QED
      BY <2>1, <2>2, <2>3
  <1>4. RestTypeOK'
    <2>1. list' = list \/ list' = [rows |-> fetch.rows, version |-> fetch.version]
      BY DEF AskList, ReadList, ListArrives, ListFails
    <2>2. /\ version' = version /\ hasty' = hasty /\ made' = made /\ failed' = failed
          /\ tries' = tries
      BY DEF AskList, ReadList, ListArrives, ListFails, serverVars, history, saveVars
    <2>3. QED
      BY <1>1, <2>1, <2>2 DEF RestTypeOK, PagesTypeOK
  <1>5. DocTypeOK' /\ DialogTypeOK' /\ FormTypeOK' /\ CallsTypeOK'
    BY <1>1, Untouched DEF AskList, ReadList, ListArrives, ListFails, serverVars, dialogVars
  <1>6. QED
    BY <1>3, <1>4, <1>5, TypeParts

LEMMA OpenNewTyped == ASSUME PagesTypeOK, OpenNew PROVE PagesTypeOK'
  <1>1. page' = page /\ Unopened # {}
    BY MayOpenMeans DEF OpenNew
  <1>2. FormTypeOK'
    BY <1>1, FormMountedTyped DEF OpenNew
  <1>3. DialogTypeOK'
    BY DEF OpenNew, DialogTypeOK, PagesTypeOK
  <1>4. QED
    BY <1>1, <1>2, <1>3, Untouched, TypeParts
       DEF OpenNew, serverVars, listVars, saveVars, history

LEMMA OpenRowTyped ==
    ASSUME PagesTypeOK, NEW d \in Doc, NEW op, OpenRow(d, op) PROVE PagesTypeOK'
  <1>1. page' = page
    BY DEF OpenRow
  <1>2. FormTypeOK'
    <2>1. CASE op = "edit" /\ MayOpen /\ Mounted(d)
      BY <2>1, MayOpenMeans, FormMountedTyped
    <2>2. CASE UNCHANGED <<form, ended>>
      BY <1>1, <2>2, Untouched
    <2>3. QED
      BY <2>1, <2>2 DEF OpenRow
  <1>3. DialogTypeOK'
    BY DEF OpenRow, DialogTypeOK, PagesTypeOK
  <1>4. QED
    BY <1>1, <1>2, <1>3, Untouched, TypeParts
       DEF OpenRow, serverVars, listVars, saveVars, history

LEMMA SendTyped ==
    ASSUME PagesTypeOK, NEW s \in CallSlot, NEW d \in Doc, NEW op \in Operations,
           AskDetail(s, d, op) \/ Press(s, d, op)
    PROVE  PagesTypeOK'
  <1>1. page' = page /\ CallsTypeOK'
    BY AskedAt DEF AskDetail, Press
  <1>2. hasty' \in BOOLEAN
    BY DEF AskDetail, Press, history, PagesTypeOK
  <1>3. RestTypeOK'
    BY <1>1, <1>2 DEF AskDetail, Press, serverVars, listVars, saveVars, RestTypeOK,
                      PagesTypeOK, Statuses, Now
  <1>4. QED
    BY <1>1, <1>3, Untouched, TypeParts
       DEF AskDetail, Press, serverVars, listVars, dialogVars

LEMMA SubmitTyped == ASSUME PagesTypeOK, NEW s \in CallSlot, Submit(s) PROVE PagesTypeOK'
  <1>1. page' = page /\ CallsTypeOK'
    BY SubmittedAt DEF Submit
  <1>2. tries' \in [Opening -> Nat]
    <2>1. tries \in [Opening -> Nat] /\ \A o \in Opening : tries[o] + 1 \in Nat
      BY DEF PagesTypeOK
    <2>2. QED
      BY <2>1 DEF Submit
  <1>3. RestTypeOK'
    BY <1>1, <1>2 DEF Submit, serverVars, listVars, history, RestTypeOK, PagesTypeOK,
                      Statuses, Now
  <1>4. QED
    BY <1>1, <1>3, Untouched, TypeParts DEF Submit, serverVars, listVars, dialogVars

LEMMA DeriveTyped == ASSUME PagesTypeOK, NEW s \in CallSlot, Derive(s) PROVE PagesTypeOK'
  <1>1. page' = page /\ CallsTypeOK'
    BY DerivedAt DEF Derive
  <1>2. DialogTypeOK'
    BY DEF Derive, DialogTypeOK, PagesTypeOK
  <1>3. QED
    BY <1>1, <1>2, Untouched, TypeParts DEF Derive, serverVars, listVars, saveVars, history

LEMMA CancelTyped == ASSUME PagesTypeOK, Cancel PROVE PagesTypeOK'
  <1>1. page' = page
    BY DEF Cancel
  <1>2. DialogTypeOK'
    <2>1. \/ dialog' = NoDialog \/ dialog' = [dialog EXCEPT !.creating = FALSE]
          \/ dialog' = [dialog EXCEPT !.viewing = None]
      BY DEF Cancel, Close
    <2>2. DialogTypeOK /\ NoDialog \in [creating : BOOLEAN, editing : Doc \cup {None},
              viewing : Doc \cup {None}, deriving : Doc \cup {None},
              by : CallSlot \cup {None}, done : BOOLEAN]
      BY DEF PagesTypeOK, DialogTypeOK, NoDialog
    <2>3. QED
      BY <2>1, <2>2 DEF DialogTypeOK
  <1>3. FormTypeOK'
    <2>1. CASE form' = form /\ ended' = ended
      BY <1>1, <2>1, Untouched
    <2>2. CASE EndForm("cancelled")
      BY <2>2, FormEndedTyped DEF End
    <2>3. QED
      BY <2>1, <2>2 DEF Cancel
  <1>4. FetchTypeOK'
    BY <1>1, FetchTyped DEF Cancel, FetchTypeOK
  <1>5. QED
    BY <1>1, <1>2, <1>3, <1>4, Untouched, TypeParts DEF Cancel, serverVars, saveVars, history

\* The steps of the part of a form that an answer fills.
PartStep == TypePart \/ FillPart \/ PartChanges \/ Return \/ SavePart
LEMMA PartMeans ==
    ASSUME PagesTypeOK, PartStep
    PROVE  /\ page' = page /\ allowed' = allowed /\ doc' = doc /\ list' = list
           /\ dialog' = dialog /\ ended' = ended /\ calls' = calls
           /\ made' = made /\ failed' = failed /\ tries' = tries /\ hasty' = hasty
           /\ version' \in Nat /\ form' \in FormRecord /\ form.opening # 0
           /\ form'.opening = form.opening /\ form'.base = form.base
           /\ Invalidate \/ UNCHANGED fetch
  <1>1. form \in FormRecord /\ version \in Nat
    BY DEF PagesTypeOK
  <1>2. /\ page' = page /\ allowed' = allowed /\ doc' = doc /\ list' = list
        /\ dialog' = dialog /\ ended' = ended /\ calls' = calls
        /\ made' = made /\ failed' = failed /\ tries' = tries /\ hasty' = hasty
        /\ form.opening # 0 /\ (Invalidate \/ UNCHANGED fetch)
    BY DEF PartStep, TypePart, FillPart, PartChanges, Return, SavePart, ChangeForm,
           Filling, listVars, saveVars, history
  <1>3. version' = version \/ version' = version + 1
    BY DEF PartStep, TypePart, FillPart, PartChanges, Return, SavePart
  <1>4. \/ form' = [form EXCEPT !.typed = TRUE] \/ form' = [form EXCEPT !.typed = FALSE]
        \/ form' = [form EXCEPT !.due = TRUE]
        \/ form' = [form EXCEPT !.due = FALSE, !.typed = FALSE]
        \/ form' = [form EXCEPT !.due = TRUE, !.typed = FALSE]
    BY DEF PartStep, TypePart, FillPart, PartChanges, Return, SavePart, ChangeForm
  <1>5. /\ form' \in FormRecord
        /\ form'.opening = form.opening /\ form'.base = form.base
    BY <1>1, <1>4 DEF FormRecord
  <1>6. QED
    BY <1>1, <1>2, <1>3, <1>5

LEMMA PartTyped == ASSUME PagesTypeOK, PartStep PROVE PagesTypeOK'
  <1>1. page' = page /\ form' \in FormRecord /\ ended' = ended
    BY PartMeans
  <1>2. FormTypeOK'
    BY <1>1 DEF FormTypeOK, PagesTypeOK, FormRecord, Opening
  <1>3. FetchTypeOK'
    BY PartMeans, FetchTyped DEF FetchTypeOK
  <1>4. RestTypeOK'
    BY PartMeans DEF RestTypeOK, PagesTypeOK, Statuses, Now
  <1>5. QED
    BY <1>1, <1>2, <1>3, <1>4, PartMeans, Untouched, TypeParts

LEMMA ServeTyped == ASSUME PagesTypeOK, NEW s \in CallSlot, CallOf(s), Serve(s) PROVE PagesTypeOK'
  <1>1. page' = page /\ Statuses' = Statuses
    BY DEF Serve, Statuses, Now
  <1>2. CallsTypeOK' /\ version' \in Nat /\ ServedDoc(s) /\ ServedMade(s)
    BY ServedAt
  <1>3. DocTypeOK'
    <2>1. calls[s].base \in Doc \cup {None}
      BY DEF PagesTypeOK, CallRecord
    <2>2. CASE /\ calls[s].op \in DOMAIN Now.steps \ Details
               /\ doc' = [doc EXCEPT ![calls[s].doc].status = Outcome(calls[s].op, calls[s].doc)]
               /\ Admitted(calls[s].op, calls[s].doc)
      <3>1. calls[s].doc \in Doc => Outcome(calls[s].op, calls[s].doc) \in Statuses
        BY <2>2, OutcomeTyped DEF Details
      <3>2. QED
        BY <1>1, <2>2, <3>1, StatusWritten DEF DocTypeOK
    <2>3. QED
      BY <1>1, <1>2, <2>1, <2>2 DEF ServedDoc, DocTypeOK, PagesTypeOK
  <1>4. RestTypeOK'
    <2>1. made' \in [Opening -> Nat]
      BY <1>2 DEF ServedMade, PagesTypeOK
    <2>2. QED
      BY <1>1, <1>2, <2>1 DEF Serve, RestTypeOK, PagesTypeOK, listVars, history
  <1>5. QED
    BY <1>1, <1>2, <1>3, <1>4, Untouched, TypeParts DEF Serve, listVars, dialogVars

LEMMA LoseTyped == ASSUME PagesTypeOK, NEW s \in CallSlot, Lose(s) PROVE PagesTypeOK'
  BY LostAt, Untouched, TypeParts DEF Lose, serverVars, listVars, dialogVars, saveVars, history

LEMMA OthersTyped ==
    ASSUME PagesTypeOK, NEW d \in Doc, NEW op, Others(d, op) PROVE PagesTypeOK'
  <1>1. page' = page /\ Statuses' = Statuses
    BY DEF Others, Statuses, Now
  <1>2. Outcome(op, d) \in Statuses
    BY OutcomeTyped DEF Others
  <1>3. DocTypeOK'
    BY <1>1, <1>2, StatusWritten DEF Others, DocTypeOK
  <1>4. RestTypeOK'
    BY <1>1 DEF Others, RestTypeOK, PagesTypeOK, listVars, saveVars, history
  <1>5. QED
    BY <1>1, <1>3, <1>4, Untouched, TypeParts DEF Others, listVars, dialogVars

\* The ways the editors go when an answer is heard.
LEMMA ClosedDialog ==
    ASSUME PagesTypeOK, NEW s \in CallSlot, dialog' = ClosedBy(s)
    PROVE  /\ DialogTypeOK'
           /\ dialog'.creating => dialog.creating
           /\ dialog'.editing # None => dialog'.editing = dialog.editing
  <1>1. dialog \in [creating : BOOLEAN, editing : Doc \cup {None},
                    viewing : Doc \cup {None}, deriving : Doc \cup {None},
                    by : CallSlot \cup {None}, done : BOOLEAN]
    BY DEF PagesTypeOK
  <1>2. \/ dialog' = NoDialog
        \/ dialog' = dialog
        \/ dialog' = [dialog EXCEPT !.creating = FALSE]
        \/ dialog' = [dialog EXCEPT !.editing = None]
    <2>1. Now.closes \in {"all", "same", "own"}
      BY NowFits DEF PageOK, PagesTypeOK
    <2>2. QED
      BY <2>1 DEF ClosedBy, Close
  <1>3. /\ NoDialog.creating = FALSE /\ NoDialog.editing = None
        /\ NoDialog \in [creating : BOOLEAN, editing : Doc \cup {None},
                    viewing : Doc \cup {None}, deriving : Doc \cup {None},
                    by : CallSlot \cup {None}, done : BOOLEAN]
    BY DEF NoDialog
  <1>4. QED
    BY <1>1, <1>2, <1>3 DEF DialogTypeOK

LEMMA RefetchTyped ==
    ASSUME PagesTypeOK, NEW s \in CallSlot, page' = page, Refetch(s) \/ UNCHANGED fetch
    PROVE  FetchTypeOK'
  BY FetchTyped DEF Refetch, FetchTypeOK

LEMMA HearDetailTyped ==
    ASSUME PagesTypeOK, CallsInv, RoomInv, NEW s \in CallSlot, Hear(s), HearDetail(s)
    PROVE  PagesTypeOK'
  <1>1. page' = page /\ CallsTypeOK'
    BY FreedTyped DEF Hear, HearDetail
  <1>2. calls[s].doc \in Doc /\ calls[s].op \in Details
    BY DEF CallsInv, CallOf, HearDetail
  <1>3. dialog \in [creating : BOOLEAN, editing : Doc \cup {None},
                    viewing : Doc \cup {None}, deriving : Doc \cup {None},
                    by : CallSlot \cup {None}, done : BOOLEAN]
    BY DEF PagesTypeOK
  <1>4. DialogTypeOK'
    <2>1. \/ dialog' = dialog \/ dialog' = [dialog EXCEPT !.editing = calls[s].doc]
          \/ dialog' = [dialog EXCEPT !.viewing = calls[s].doc]
          \/ dialog' = [dialog EXCEPT !.deriving = calls[s].doc]
      BY <1>2 DEF HearDetail, Details, dialogVars
    <2>2. QED
      BY <1>2, <1>3, <2>1 DEF DialogTypeOK
  <1>5. FormTypeOK'
    <2>1. CASE Mounted(calls[s].doc) /\ Asking(s)
      BY <1>2, <2>1, AskedMayOpen, FormMountedTyped
    <2>2. CASE form' = form /\ ended' = ended
      BY <1>1, <2>2, Untouched
    <2>3. QED
      BY <1>2, <2>1, <2>2 DEF HearDetail, Details, dialogVars, Asking
  <1>6. QED
    BY <1>1, <1>4, <1>5, Untouched, TypeParts DEF Hear, HearDetail, serverVars, saveVars

LEMMA HearOperationTyped ==
    ASSUME PagesTypeOK, NEW s \in CallSlot, Hear(s), HearOperation(s) PROVE PagesTypeOK'
  <1>1. page' = page /\ CallsTypeOK' /\ FetchTypeOK'
    BY FreedTyped, RefetchTyped DEF Hear, HearOperation
  <1>2. QED
    BY <1>1, Untouched, TypeParts DEF Hear, HearOperation, serverVars, dialogVars, saveVars

LEMMA HearDerivationTyped ==
    ASSUME PagesTypeOK, NEW s \in CallSlot, Hear(s), HearDerivation(s) PROVE PagesTypeOK'
  <1>1. page' = page /\ CallsTypeOK' /\ FetchTypeOK'
    BY FreedTyped, RefetchTyped DEF Hear, HearDerivation
  <1>2. DialogTypeOK'
    BY DEF HearDerivation, DialogTypeOK, PagesTypeOK, Succeeded
  <1>3. QED
    BY <1>1, <1>2, Untouched, TypeParts DEF Hear, HearDerivation, serverVars, saveVars

\* A save is followed by a second call, or is over.
MoreAt(s) ==
    /\ Succeeded(s) /\ ~calls[s].second
    /\ Only(s) /\ calls'[s].second /\ calls'[s].at = "sent"
    /\ calls'[s].op = calls[s].op /\ calls'[s].doc = calls[s].doc
    /\ calls'[s].shown = calls[s].shown /\ calls'[s].base = calls[s].base
    /\ calls'[s].opening = calls[s].opening

LEMMA HearSaveSplit ==
    ASSUME PagesTypeOK, NEW s \in CallSlot, Hear(s), HearSave(s)
    PROVE  \/ OnAnswer(s)
           \/ /\ CallsTypeOK' /\ MoreAt(s)
              /\ UNCHANGED <<fetch, heard, dialogVars, saveVars>>
  <1>1. CASE Succeeded(s) /\ calls[s].op \in Now.more /\ ~calls[s].second
    <2> DEFINE c == [[calls[s] EXCEPT !.at = "sent"] EXCEPT !.second = TRUE]
    <2>1. calls[s] \in CallRecord /\ calls \in [CallSlot -> CallRecord] /\ page' = page
      BY DEF PagesTypeOK, Hear
    <2>2. c \in CallRecord /\ c.second /\ c.at = "sent" /\ c.op = calls[s].op
          /\ c.doc = calls[s].doc /\ c.shown = calls[s].shown /\ c.base = calls[s].base
          /\ c.opening = calls[s].opening
      BY <2>1 DEF CallRecord
    <2>3. calls' = [calls EXCEPT ![s] = c]
      BY <1>1, <2>1 DEF HearSave
    <2> HIDE DEF c
    <2>4. CallsTypeOK' /\ MoreAt(s)
      BY <1>1, <2>1, <2>2, <2>3, CallEdited DEF CallsTypeOK, MoreAt, Only
    <2>5. QED
      BY <1>1, <2>4 DEF HearSave
  <1>2. CASE ~(Succeeded(s) /\ calls[s].op \in Now.more /\ ~calls[s].second)
    BY <1>2 DEF HearSave
  <1>3. QED
    BY <1>1, <1>2

LEMMA MoreTyped ==
    ASSUME PagesTypeOK, NEW s \in CallSlot, Hear(s), CallsTypeOK',
           UNCHANGED <<fetch, heard, dialogVars, saveVars>>
    PROVE  PagesTypeOK'
  BY Untouched, TypeParts DEF Hear, serverVars, saveVars, dialogVars

LEMMA OnAnswerTyped ==
    ASSUME PagesTypeOK, NEW s \in CallSlot, Hear(s), OnAnswer(s) PROVE PagesTypeOK'
  <1>1. page' = page /\ CallsTypeOK' /\ FetchTypeOK'
    BY FreedTyped, RefetchTyped DEF Hear, OnAnswer
  <1>2. DialogTypeOK'
    BY <1>1, ClosedDialog, Untouched DEF OnAnswer, Shut, dialogVars
  <1>3. FormTypeOK'
    <2>1. CASE form' = form /\ ended' = ended
      BY <1>1, <2>1, Untouched
    <2>2. CASE EndForm("saved") \/ EndForm("swept")
      BY <2>2, FormEndedTyped DEF End
    <2>3. QED
      BY <2>1, <2>2 DEF OnAnswer, Shut, dialogVars
  <1>4. RestTypeOK'
    <2>1. \A o \in Opening : failed[o] + 1 \in Nat /\ failed[o] \in Nat
      BY DEF PagesTypeOK
    <2>2. failed' \in [Opening -> Nat]
      BY <2>1 DEF OnAnswer, PagesTypeOK
    <2>3. QED
      BY <1>1, <2>2 DEF Hear, OnAnswer, serverVars, RestTypeOK, PagesTypeOK, Statuses, Now
  <1>5. QED
    BY <1>1, <1>2, <1>3, <1>4, Untouched, TypeParts DEF Hear, serverVars

-----------------------------------------------------------------------------
(* What stays of the invariant when a call moves on and no editor does *)

\* The call at s begins, is answered, goes on or is over, and is or was no
\* save, or is the same one.
Turn(s) ==
    /\ Only(s) /\ SameEditor
    /\ hasty' = hasty /\ tries' = tries /\ failed' = failed
    /\ Asking(s)' => Asking(s)
    /\ Saving(s)' <=> Saving(s)
    /\ Saving(s) => /\ calls'[s].op = calls[s].op /\ calls'[s].doc = calls[s].doc
                    /\ calls'[s].base = calls[s].base
                    /\ calls'[s].opening = calls[s].opening

LEMMA FormStays == ASSUME FormInv, SameEditor PROVE FormInv'
  BY DEF FormInv, SameEditor, EditorOpen, Now

LEMMA RoomStays ==
    ASSUME PagesTypeOK, RoomInv, ended' = ended, AskSet' \subseteq AskSet PROVE RoomInv'
  <1>1. Unopened' = Unopened
    BY DEF Unopened
  <1>2. IsFiniteSet(AskSet') /\ Cardinality(AskSet') <= Cardinality(AskSet)
    BY SetsFinite, FS_Subset
  <1>3. Cardinality(AskSet') \in Nat
    BY <1>2, FS_CardinalityType
  <1>4. QED
    BY <1>1, <1>2, <1>3, SetsFinite DEF RoomInv

LEMMA SavesOfStay ==
    ASSUME NEW s \in CallSlot, Turn(s), NEW o PROVE SavesOf(o)' = SavesOf(o)
  <1>1. \A u \in CallSlot : /\ Saving(u)' <=> Saving(u)
                            /\ Saving(u) => calls'[u].opening = calls[u].opening
    BY DEF Turn, Only, Saving
  <1>2. QED
    BY <1>1 DEF SavesOf

LEMMA TurnKeeps ==
    ASSUME PagesInv, NEW s \in CallSlot, Turn(s), SavedWhereShown'
    PROVE  FormInv' /\ RoomInv' /\ SavesInv' /\ ShownInv' /\ SweptInv'
  <1>1. FormInv'
    BY FormStays DEF PagesInv, Turn
  <1>2. \A u \in CallSlot :
            /\ Asking(u)' => Asking(u)
            /\ Saving(u)' <=> Saving(u)
            /\ Saving(u) => /\ calls'[u].op = calls[u].op /\ calls'[u].doc = calls[u].doc
                            /\ calls'[u].base = calls[u].base
                            /\ calls'[u].opening = calls[u].opening
    BY DEF Turn, Only, Saving, Asking
  <1>3. RoomInv'
    <2>1. AskSet' \subseteq AskSet
      BY <1>2 DEF AskSet
    <2>2. QED
      BY <2>1, RoomStays DEF PagesInv, Turn, SameEditor
  <1>4. SavesInv'
    <2>1. SUFFICES ASSUME NEW u \in CallSlot, Saving(u)'
          PROVE /\ SavesOf(calls[u].opening)' = {u}
                /\ (tries[calls[u].opening] > 0)'
                /\ (form.opening = calls[u].opening
                      \/ ended[calls[u].opening] \in {"cancelled", "swept"})'
                /\ (form.opening = calls[u].opening => calls[u].base = form.base)'
                /\ (Now.closes = "same" => (calls[u].op = "create" <=> calls[u].base = None))'
      BY DEF SavesInv
    <2>2. Saving(u) /\ calls'[u].op = calls[u].op /\ calls'[u].base = calls[u].base
          /\ calls'[u].opening = calls[u].opening
      BY <1>2, <2>1
    <2>3. SavesOf(calls[u].opening)' = {u}
      <3>1. SavesOf(calls[u].opening) = {u}
        BY <2>2 DEF PagesInv, SavesInv
      <3>2. \A v \in CallSlot : Saving(v)' /\ calls'[v].opening = calls'[u].opening <=> v = u
        BY <1>2, <2>2, <3>1 DEF SavesOf
      <3>3. QED
        BY <3>2 DEF SavesOf
    <2>4. QED
      BY <2>2, <2>3 DEF PagesInv, SavesInv, Turn, SameEditor, Now
  <1>5. ShownInv'
    <2>1. \A u \in CallSlot : calls'[u].op = "patch" =>
              calls[u].op = "patch" /\ calls'[u].base = calls[u].base
              /\ calls'[u].doc = calls[u].doc
      BY <1>2 DEF Saving, Saves
    <2>2. QED
      BY <1>2, <2>1 DEF PagesInv, ShownInv, Turn, SameEditor
  <1>6. SweptInv'
    BY DEF PagesInv, SweptInv, Turn, SameEditor
  <1>7. QED
    BY <1>1, <1>3, <1>4, <1>5, <1>6

LEMMA MadeStays ==
    ASSUME PagesInv, NEW s \in CallSlot, Turn(s), made' = made,
           Saving(s)' /\ calls'[s].at = "sent" /\ ~calls'[s].second
               => calls[s].at = "sent" /\ ~calls[s].second
    PROVE  MadeInv'
  <1>1. \A u \in CallSlot :
            Saving(u)' /\ calls'[u].at = "sent" /\ ~calls'[u].second =>
                /\ Saving(u) /\ calls[u].at = "sent" /\ ~calls[u].second
                /\ calls'[u].opening = calls[u].opening
    BY DEF Turn, Only, Saving
  <1>2. \A o \in Opening : SavesOf(o)' = SavesOf(o)
    BY SavesOfStay
  <1>3. QED
    BY <1>1, <1>2 DEF PagesInv, MadeInv, Turn, SameEditor, Now

LEMMA CallsStay ==
    ASSUME CallsInv, NEW s \in CallSlot, page' = page, Only(s), CallOf(s)' PROVE CallsInv'
  BY DEF CallsInv, CallOf, Only, Saving, Asking, Now

LEMMA FreshStays ==
    ASSUME FreshPressAccepted, NEW s \in CallSlot, page' = page, allowed' = allowed,
           Only(s),
           calls'[s].at = "refused" /\ calls'[s].shown # "" /\ ~Now.referred
               => calls'[s].found # calls'[s].shown \/ calls'[s].op \notin allowed
    PROVE  FreshPressAccepted'
  BY DEF FreshPressAccepted, Only, Now

\* The steps that move no call either.
LEMMA StillKeeps ==
    ASSUME PagesInv, SameEditor, calls' = calls, hasty' = hasty, tries' = tries,
           made' = made, failed' = failed, \A d \in Doc : doc'[d].by = doc[d].by
    PROVE  CallsInv' /\ FormInv' /\ RoomInv' /\ SavesInv' /\ MadeInv' /\ ShownInv'
           /\ FreshPressAccepted' /\ SweptInv'
  <1>1. FormInv'
    BY FormStays DEF PagesInv
  <1>2. RoomInv'
    BY RoomStays DEF PagesInv, SameEditor, AskSet, Asking
  <1>3. \A o : SavesOf(o)' = SavesOf(o)
    BY DEF SavesOf, Saving
  <1>4. SavesInv'
    BY <1>3 DEF PagesInv, SavesInv, SavesOf, Saving, SameEditor, Now
  <1>5. MadeInv'
    BY <1>3 DEF PagesInv, MadeInv, Saving, SameEditor, Now
  <1>6. ShownInv'
    BY DEF PagesInv, ShownInv, SavedWhereShown, SameEditor, Asking
  <1>7. CallsInv' /\ FreshPressAccepted' /\ SweptInv'
    BY DEF PagesInv, CallsInv, CallOf, FreshPressAccepted, SweptInv, SameEditor, Saving,
           Asking, Now
  <1>8. QED
    BY <1>1, <1>2, <1>4, <1>5, <1>6, <1>7

-----------------------------------------------------------------------------
(* Each step keeps the invariant *)

LEMMA ListKeeps ==
    ASSUME PagesInv, AskList \/ ReadList \/ ListArrives \/ ListFails PROVE PagesInv'
  <1>1. PagesTypeOK'
    BY ListTyped DEF PagesInv
  <1>2. /\ SameEditor /\ calls' = calls /\ hasty' = hasty /\ tries' = tries
        /\ made' = made /\ failed' = failed /\ doc' = doc
    BY DEF AskList, ReadList, ListArrives, ListFails, SameEditor, serverVars, dialogVars,
           saveVars, history
  <1>3. QED
    BY <1>1, <1>2, StillKeeps DEF PagesInv

LEMMA PartKeeps == ASSUME PagesInv, PartStep PROVE PagesInv'
  <1>1. PagesTypeOK' /\ SameEditor
    BY PartTyped, PartMeans DEF PagesInv, SameEditor
  <1>2. QED
    BY <1>1, PartMeans, StillKeeps DEF PagesInv

LEMMA OthersKeep == ASSUME PagesInv, NEW d \in Doc, NEW op, Others(d, op) PROVE PagesInv'
  <1>1. PagesTypeOK'
    BY OthersTyped DEF PagesInv
  <1>2. /\ SameEditor /\ calls' = calls /\ hasty' = hasty /\ tries' = tries
        /\ made' = made /\ failed' = failed
    BY DEF Others, SameEditor, dialogVars, saveVars, history
  <1>3. \A e \in Doc : doc'[e].by = doc[e].by
    BY OutcomeTyped, StatusWritten DEF Others, PagesInv
  <1>4. QED
    BY <1>1, <1>2, <1>3, StillKeeps DEF PagesInv

LEMMA SavedStays ==
    ASSUME ShownInv, doc' = doc, hasty => hasty' PROVE SavedWhereShown'
  BY DEF ShownInv, SavedWhereShown

LEMMA AnswerTurns ==
    ASSUME NEW s \in CallSlot, AnsweredAt(s), SameEditor, hasty' = hasty, tries' = tries,
           failed' = failed
    PROVE  Turn(s)
  BY DEF AnsweredAt, Turn, Saving, Asking

LEMMA AnsweredCall ==
    ASSUME PagesInv, NEW s \in CallSlot, AnsweredAt(s), page' = page, calls[s].at # "off"
    PROVE  CallsInv'
  <1>1. CallOf(s)
    BY DEF PagesInv, CallsInv
  <1>2. CallOf(s)'
    BY <1>1 DEF AnsweredAt, CallOf, Saving, Asking, Now
  <1>3. QED
    BY <1>2, CallsStay DEF PagesInv, AnsweredAt

LEMMA LoseKeeps == ASSUME PagesInv, NEW s \in CallSlot, Lose(s) PROVE PagesInv'
  <1>1. PagesTypeOK' /\ AnsweredAt(s) /\ calls'[s].at = "lost"
    BY LoseTyped, LostAt DEF PagesInv
  <1>2. /\ SameEditor /\ hasty' = hasty /\ tries' = tries /\ made' = made
        /\ failed' = failed /\ doc' = doc /\ calls[s].at # "off"
    BY DEF Lose, SameEditor, serverVars, dialogVars, saveVars, history
  <1>3. Turn(s)
    BY <1>1, <1>2, AnswerTurns
  <1>4. FormInv' /\ RoomInv' /\ SavesInv' /\ ShownInv' /\ SweptInv'
    BY <1>2, <1>3, SavedStays, TurnKeeps DEF PagesInv
  <1>5. MadeInv'
    BY <1>1, <1>2, <1>3, MadeStays
  <1>6. CallsInv' /\ FreshPressAccepted'
    BY <1>1, <1>2, AnsweredCall, FreshStays DEF PagesInv, AnsweredAt, SameEditor
  <1>7. QED
    BY <1>1, <1>4, <1>5, <1>6 DEF PagesInv

\* A save is served in the document its editor shows.
LEMMA ServedWhereShown ==
    ASSUME PagesInv, NEW s \in CallSlot, Serve(s) PROVE SavedWhereShown'
  <1>1. ServedDoc(s) /\ hasty' = hasty
    BY ServedAt DEF Serve, PagesInv, history
  <1>2. SUFFICES ASSUME ~hasty PROVE \A d \in Doc : doc'[d].by = d
    BY <1>1 DEF SavedWhereShown
  <1>3. \A d \in Doc : doc[d].by = d
    BY <1>2 DEF PagesInv, ShownInv, SavedWhereShown
  <1>4. CASE /\ calls[s].op = "patch"
             /\ doc' = [doc EXCEPT ![calls[s].doc].by = calls[s].base]
    <2>1. calls[s].base = calls[s].doc
      BY <1>2, <1>4 DEF PagesInv, ShownInv
    <2>2. QED
      BY <1>3, <1>4, <2>1 DEF PagesInv, PagesTypeOK
  <1>5. CASE /\ calls[s].op \in DOMAIN Now.steps \ Details
             /\ doc' = [doc EXCEPT ![calls[s].doc].status = Outcome(calls[s].op, calls[s].doc)]
             /\ Admitted(calls[s].op, calls[s].doc)
    <2>1. calls[s].doc \in Doc => Outcome(calls[s].op, calls[s].doc) \in Statuses
      BY <1>5, OutcomeTyped DEF PagesInv, Details
    <2>2. QED
      BY <1>3, <1>5, <2>1, StatusWritten DEF PagesInv
  <1>6. QED
    BY <1>1, <1>3, <1>4, <1>5 DEF ServedDoc

\* A creation comes first for its editor, or after one that was seen to fail.
LEMMA ServedMadeKeeps ==
    ASSUME PagesInv, NEW s \in CallSlot, Serve(s), Turn(s), AnsweredAt(s) PROVE MadeInv'
  <1>1. ServedMade(s)
    BY ServedAt DEF PagesInv
  <1>2. CASE made' = made
    BY <1>2, MadeStays DEF AnsweredAt
  <1>3. CASE /\ calls[s].op = "create" /\ calls[s].at = "sent" /\ ~calls[s].second
             /\ Now.numbered => ~(made[calls[s].opening] > 0)
             /\ made' = [made EXCEPT ![calls[s].opening] = @ + 1]
    <2> DEFINE q == calls[s].opening
    <2>1. Saving(s) /\ q \in Opening
      <3>1. Saving(s)
        BY <1>3 DEF Saving, Saves
      <3>2. q # 0 /\ q \in {0} \cup Opening
        BY <3>1 DEF PagesInv, CallsInv, CallOf, PagesTypeOK, CallRecord
      <3>3. QED
        BY <3>1, <3>2
    <2>2. /\ made \in [Opening -> Nat] /\ failed \in [Opening -> Nat]
          /\ Now.numbered \in BOOLEAN
      BY NowFits DEF PagesInv, PagesTypeOK, PageOK
    <2>3. SavesOf(q) = {s}
      BY <2>1 DEF PagesInv, SavesInv
    <2>4. \A o \in Opening : SavesOf(o)' = SavesOf(o)
      BY SavesOfStay
    <2>5. ~Now.numbered => made[q] <= failed[q]
      BY <1>3, <2>1 DEF PagesInv, MadeInv
    <2>6. \A o \in Opening : made'[o] = IF o = q THEN made[o] + 1 ELSE made[o]
      BY <1>3, <2>2
    <2>7. failed' = failed /\ ended' = ended /\ Now' = Now
      BY DEF Turn, SameEditor, Now
    <2>8. ASSUME NEW o \in Opening
          PROVE  /\ Now.numbered => made'[o] <= 1
                 /\ ~Now.numbered => made'[o] <= 1 + failed[o]
                 /\ ~Now.numbered /\ ended[o] \in {"never", "open"} /\ SavesOf(o) = {}
                      => made'[o] <= failed[o]
      <3>1. CASE o = q
        <4>1. made[q] \in Nat /\ failed[q] \in Nat /\ made'[q] = made[q] + 1
          BY <2>1, <2>2, <2>6
        <4>2. Now.numbered => made[q] = 0
          BY <1>3, <4>1
        <4>3. SavesOf(q) # {}
          BY <2>3
        <4>4. QED
          BY <2>5, <3>1, <4>1, <4>2, <4>3
      <3>2. CASE o # q
        BY <2>6, <3>2 DEF PagesInv, MadeInv
      <3>3. QED
        BY <3>1, <3>2
    <2>9. ASSUME NEW u \in CallSlot, ~Now.numbered, Saving(u)', calls'[u].at = "sent",
                 ~calls'[u].second
          PROVE  made'[calls'[u].opening] <= failed[calls'[u].opening]
      <3>1. u # s
        BY <2>9 DEF AnsweredAt
      <3>2. calls'[u] = calls[u] /\ Saving(u)
        BY <2>9, <3>1 DEF AnsweredAt, Only, Saving
      <3>3. calls[u].opening # q
        BY <2>3, <3>1, <3>2 DEF SavesOf
      <3>4. calls[u].opening \in Opening
        BY <3>2 DEF PagesInv, CallsInv, CallOf, PagesTypeOK, CallRecord
      <3>5. QED
        BY <2>6, <2>9, <3>2, <3>3, <3>4 DEF PagesInv, MadeInv
    <2>10. QED
      BY <2>4, <2>7, <2>8, <2>9 DEF MadeInv
  <1>4. QED
    BY <1>1, <1>2, <1>3 DEF ServedMade

\* The button of a row is refused only if the document has moved on.
LEMMA ServedFresh ==
    ASSUME PagesInv, NEW s \in CallSlot, Serve(s) PROVE FreshPressAccepted'
  <1>1. AnsweredAt(s) /\ RefusedAsFound(s) /\ page' = page
    BY ServedAt DEF PagesInv, Serve
  <1>2. CallOf(s) /\ PageOK(Now) /\ allowed' = allowed
    BY NowFits DEF PagesInv, CallsInv, PagesTypeOK, Serve
  <1>3. ASSUME calls'[s].at = "refused", calls'[s].shown # "", ~Now.referred
        PROVE  calls'[s].found # calls'[s].shown \/ calls'[s].op \notin allowed
    <2>1. /\ calls[s].shown # "" /\ calls'[s].shown = calls[s].shown
          /\ calls'[s].op = calls[s].op
          /\ calls'[s].found = doc[calls[s].doc].status
          /\ calls[s].shown \in DOMAIN Now.offered
          /\ calls[s].op \in Now.offered[calls[s].shown] \ Derivations
          /\ ~Saving(s) /\ ~calls[s].second
      BY <1>1, <1>2, <1>3 DEF AnsweredAt, RefusedAsFound, CallOf, FoundAt
    <2>2. CASE calls[s].op \in Details /\ doc[calls[s].doc].status = "GONE"
      BY <1>2, <2>1, <2>2 DEF PageOK, Fits
    <2>3. CASE /\ calls[s].op \in DOMAIN Now.steps \ Details
               /\ ~Admitted(calls[s].op, calls[s].doc)
      <3>1. calls[s].shown \in Now.steps[calls[s].op].from
        BY <1>2, <2>1, <2>3 DEF PageOK, Fits
      <3>2. QED
        BY <2>1, <2>3, <3>1 DEF Admitted
    <2>4. QED
      BY <1>1, <1>3, <2>1, <2>2, <2>3 DEF RefusedAsFound
  <1>4. QED
    BY <1>1, <1>2, <1>3, FreshStays DEF PagesInv, AnsweredAt

LEMMA ServeKeeps == ASSUME PagesInv, NEW s \in CallSlot, Serve(s) PROVE PagesInv'
  <1>1. PagesTypeOK' /\ AnsweredAt(s)
    BY ServeTyped, ServedAt DEF PagesInv, CallsInv
  <1>2. /\ SameEditor /\ hasty' = hasty /\ tries' = tries /\ failed' = failed
        /\ calls[s].at # "off"
    BY DEF Serve, SameEditor, dialogVars, history
  <1>3. Turn(s)
    BY <1>1, <1>2, AnswerTurns
  <1>4. FormInv' /\ RoomInv' /\ SavesInv' /\ ShownInv' /\ SweptInv'
    BY <1>3, ServedWhereShown, TurnKeeps
  <1>5. CallsInv'
    BY <1>1, <1>2, AnsweredCall DEF SameEditor
  <1>6. QED
    BY <1>1, <1>3, <1>4, <1>5, ServedMadeKeeps, ServedFresh DEF PagesInv

LEMMA FreeSlot ==
    ASSUME PagesInv, NEW s \in CallSlot, calls[s].at = "off" PROVE ~Saving(s) /\ ~Asking(s)
  BY DEF PagesInv, CallsInv, CallOf, Saving, Saves, Asking

\* A call that saves nothing and asks for no editor.
LEMMA SendKeeps ==
    ASSUME PagesInv, PagesTypeOK', NEW s \in CallSlot, NEW op, NEW d, NEW shown, NEW base,
           SentAs(s, op, d, shown, base, 0), CallOf(s)', op \notin Saves \cup {"edit"},
           SameEditor, hasty' = hasty, tries' = tries, made' = made, failed' = failed,
           doc' = doc
    PROVE  PagesInv'
  <1>1. ~Saving(s) /\ ~Asking(s) /\ ~Saving(s)' /\ ~Asking(s)' /\ calls'[s].at = "sent"
    BY FreeSlot DEF SentAs, SentFields, Saving, Asking
  <1>2. Turn(s)
    BY <1>1 DEF Turn, SentAs
  <1>3. FormInv' /\ RoomInv' /\ SavesInv' /\ ShownInv' /\ SweptInv'
    BY <1>2, SavedStays, TurnKeeps DEF PagesInv
  <1>4. MadeInv'
    BY <1>1, <1>2, MadeStays
  <1>5. CallsInv' /\ FreshPressAccepted'
    BY <1>1, CallsStay, FreshStays DEF PagesInv, SentAs, SameEditor
  <1>6. QED
    BY <1>3, <1>4, <1>5 DEF PagesInv

LEMMA AskedCall ==
    ASSUME PagesInv, NEW s \in CallSlot, NEW d \in Doc, NEW op \in Operations,
           AskDetail(s, d, op) \/ Press(s, d, op)
    PROVE  CallOf(s)' /\ op \notin Saves
  <1>1. /\ SentAs(s, op, d, list.rows[d], None, 0) /\ page' = page
        /\ list.rows[d] \in DOMAIN Now.offered /\ op \in Now.offered[list.rows[d]]
    BY AskedAt DEF PagesInv, AskDetail, Press
  <1>2. list.rows[d] # "" /\ op \notin Saves
    BY <1>1, NowFits DEF PagesInv, PagesTypeOK, PageOK, Fits
  <1>3. op \notin Derivations /\ (op = "edit" => Now.detail)
    BY DEF AskDetail, Press, Details, Derivations
  <1>4. op # "patch"
    BY <1>2 DEF Saves
  <1>5. QED
    BY <1>1, <1>2, <1>3, <1>4 DEF SentAs, SentFields, CallOf, Saving, Asking, Now

LEMMA PressKeeps ==
    ASSUME PagesInv, NEW s \in CallSlot, NEW d \in Doc, NEW op \in Operations,
           Press(s, d, op)
    PROVE  PagesInv'
  <1>1. PagesTypeOK' /\ SentAs(s, op, d, list.rows[d], None, 0)
    BY AskedAt, SendTyped DEF PagesInv
  <1>2. CallOf(s)' /\ op \notin Saves \cup {"edit"}
    BY AskedCall DEF Press, Details
  <1>3. /\ SameEditor /\ hasty' = hasty /\ tries' = tries /\ made' = made
        /\ failed' = failed /\ doc' = doc
    BY DEF Press, SameEditor, serverVars, dialogVars, saveVars, history
  <1>4. QED
    BY <1>1, <1>2, <1>3, SendKeeps

LEMMA DeriveKeeps == ASSUME PagesInv, NEW s \in CallSlot, Derive(s) PROVE PagesInv'
  <1>1. PagesTypeOK' /\ SentAs(s, DeriveOp, dialog.deriving, "", None, 0)
    BY DerivedAt, DeriveTyped DEF PagesInv
  <1>2. DeriveOp \notin Saves \cup Details \cup {"none"}
    BY DEF DeriveOp, Saves, Details
  <1>3. CallOf(s)'
    BY <1>1, <1>2 DEF SentAs, SentFields, CallOf, Saving, Asking, Details, Saves
  <1>4. /\ dialog'.creating = dialog.creating /\ dialog'.editing = dialog.editing
    BY DEF Derive, PagesInv, PagesTypeOK
  <1>5. /\ SameEditor /\ hasty' = hasty /\ tries' = tries /\ made' = made
        /\ failed' = failed /\ doc' = doc
    BY <1>4 DEF Derive, SameEditor, serverVars, saveVars, history
  <1>6. QED
    BY <1>1, <1>2, <1>3, <1>5, SendKeeps DEF Details

LEMMA AskKeeps ==
    ASSUME PagesInv, NEW s \in CallSlot, NEW d \in Doc, NEW op \in Operations,
           AskDetail(s, d, op)
    PROVE  PagesInv'
  <1>1. PagesTypeOK' /\ SentAs(s, op, d, list.rows[d], None, 0)
    BY AskedAt, SendTyped DEF PagesInv
  <1>2. CallOf(s)' /\ op \notin Saves
    BY AskedCall
  <1>3. /\ SameEditor /\ tries' = tries /\ made' = made
        /\ failed' = failed /\ doc' = doc
    BY DEF AskDetail, SameEditor, serverVars, dialogVars, saveVars, history
  <1>4. CASE op # "edit"
    <2>1. hasty' = hasty
      BY <1>4 DEF AskDetail, PagesInv, PagesTypeOK
    <2>2. QED
      BY <1>1, <1>2, <1>3, <1>4, <2>1, SendKeeps
  <1>5. CASE op = "edit"
    <2>1. ~Saving(s) /\ ~Asking(s) /\ ~Saving(s)' /\ Asking(s)' /\ calls'[s].at = "sent"
      BY <1>1, <1>2, <1>5, FreeSlot DEF SentAs, SentFields, Saving, Asking
    <2>2. \A u \in CallSlot :
              /\ Saving(u)' <=> Saving(u)
              /\ Asking(u)' <=> Asking(u) \/ u = s
              /\ Saving(u) => calls'[u] = calls[u]
      BY <1>1, <2>1 DEF SentAs, Only, Saving, Asking
    <2>3. \A o : SavesOf(o)' = SavesOf(o)
      BY <2>2 DEF SavesOf
    <2>4. FormInv'
      BY <1>3, FormStays DEF PagesInv
    <2>5. RoomInv'
      <3>1. AskSet' = AskSet \cup {s}
        BY <2>2 DEF AskSet
      <3>2. Cardinality(AskSet \cup {s}) = Cardinality(AskSet) + 1
        <4>1. s \notin AskSet /\ IsFiniteSet(AskSet)
          BY <2>1, SetsFinite DEF AskSet, PagesInv
        <4>2. QED
          BY <4>1, FS_AddElement
      <3>3. Cardinality(Unopened) > Cardinality(AskSet) /\ Unopened' = Unopened
        BY <1>3, <1>5, MayOpenMeans DEF AskDetail, PagesInv, SameEditor, Unopened
      <3>4. Cardinality(AskSet \cup {s}) \in Nat
        BY SetsFinite, FS_AddElement, FS_CardinalityType DEF PagesInv
      <3>5. QED
        BY <3>1, <3>2, <3>3, <3>4, SetsFinite DEF RoomInv, PagesInv
    <2>6. SavesInv'
      BY <1>3, <2>2, <2>3 DEF PagesInv, SavesInv, SavesOf, Saving, SameEditor, Now
    <2>7. MadeInv'
      BY <1>3, <2>2, <2>3 DEF PagesInv, MadeInv, Saving, SameEditor, Now
    <2>8. ShownInv'
      <3>1. SUFFICES ASSUME ~hasty' PROVE ShownInv'
        BY DEF ShownInv
      <3>2. ~hasty /\ \A u \in CallSlot : ~Asking(u)
        BY <1>5, <3>1 DEF AskDetail, Asking, PagesInv, PagesTypeOK
      <3>3. dialog.editing = None
        BY DEF AskDetail, Covered, EditorOpen
      <3>4. \A u \in CallSlot : calls'[u].op = "patch" => calls'[u] = calls[u]
        BY <2>2 DEF Saving, Saves
      <3>5. QED
        BY <1>3, <2>2, <3>2, <3>3, <3>4 DEF PagesInv, ShownInv, SavedWhereShown, SameEditor
    <2>9. CallsInv' /\ FreshPressAccepted' /\ SweptInv'
      <3>1. CallsInv' /\ FreshPressAccepted'
        BY <1>1, <1>2, <1>3, <2>1, CallsStay, FreshStays DEF PagesInv, SentAs, SameEditor
      <3>2. QED
        BY <1>3, <3>1 DEF PagesInv, SweptInv, SameEditor
    <2>10. QED
      BY <1>1, <2>4, <2>5, <2>6, <2>7, <2>8, <2>9 DEF PagesInv
  <1>6. QED
    BY <1>4, <1>5

LEMMA SubmitKeeps == ASSUME PagesInv, NEW s \in CallSlot, Submit(s) PROVE PagesInv'
  <1> DEFINE q == form.opening
  <1>1. PagesTypeOK' /\ SentAs(s, SubmitOp, SubmitDoc, "", form.base, q)
    BY SubmittedAt, SubmitTyped DEF PagesInv
  <1>2. /\ SameEditor /\ hasty' = hasty /\ made' = made /\ failed' = failed /\ doc' = doc
        /\ tries' = [tries EXCEPT ![q] = @ + 1] /\ ~Pending /\ EditorOpen(dialog)
    BY DEF Submit, SameEditor, serverVars, dialogVars, history
  <1>3. q \in Opening /\ q # 0 /\ ended[q] = "open" /\ SavesOf(q) = {}
    BY <1>2 DEF PagesInv, FormInv, PagesTypeOK, Pending, SavesOf, Saving, FormRecord
  <1>4. SubmitOp \in Saves /\ (SubmitOp = "patch" => SubmitDoc \in Doc /\ ~dialog.creating)
        /\ (SubmitOp = "create" <=> dialog.creating)
    BY <1>2 DEF SubmitOp, SubmitDoc, Saves, EditorOpen, PagesInv, PagesTypeOK
  <1>5. ~Saving(s) /\ ~Asking(s) /\ Saving(s)' /\ ~Asking(s)' /\ calls'[s].at = "sent"
        /\ calls'[s].opening = q /\ calls'[s].base = form.base /\ calls'[s].op = SubmitOp
        /\ calls'[s].doc = SubmitDoc /\ calls'[s].shown = "" /\ ~calls'[s].second
    BY <1>1, <1>4, FreeSlot DEF SentAs, SentFields, Saving, Asking, Saves
  <1>6. \A u \in CallSlot \ {s} : calls'[u] = calls[u]
    BY <1>1 DEF SentAs, Only
  <1>7. FormInv'
    BY <1>2, FormStays DEF PagesInv
  <1>8. RoomInv'
    <2>1. AskSet' = AskSet
      BY <1>5, <1>6 DEF AskSet, Asking
    <2>2. QED
      BY <1>2, <2>1, RoomStays DEF PagesInv, SameEditor
  <1>9. \A o : SavesOf(o)' = IF o = q THEN {s} ELSE SavesOf(o)
    <2>1. \A u \in CallSlot \ {s} : /\ Saving(u)' <=> Saving(u)
                                     /\ calls'[u].opening = calls[u].opening
      BY <1>6 DEF Saving
    <2>2. \A u \in CallSlot : ~(Saving(u) /\ calls[u].opening = q)
      BY <1>3 DEF SavesOf
    <2>3. SUFFICES ASSUME NEW o
                   PROVE  SavesOf(o)' = IF o = q THEN {s} ELSE SavesOf(o)
      OBVIOUS
    <2>4. CASE o = q
      BY <1>5, <2>1, <2>2, <2>4 DEF SavesOf
    <2>5. CASE o # q
      <3>1. \A u \in CallSlot : Saving(u)' /\ calls'[u].opening = o
                                  <=> Saving(u) /\ calls[u].opening = o
        <4>1. ~(Saving(s)' /\ calls'[s].opening = o) /\ ~Saving(s)
          BY <1>5, <2>5
        <4>2. ASSUME NEW u \in CallSlot, u # s
              PROVE  Saving(u)' /\ calls'[u].opening = o <=> Saving(u) /\ calls[u].opening = o
          BY <1>6, <4>2 DEF Saving
        <4>3. QED
          BY <4>1, <4>2
      <3>2. QED
        BY <2>5, <3>1 DEF SavesOf
    <2>6. QED
      BY <2>4, <2>5
  <1>10. \A u \in CallSlot \ {s} : Saving(u)' =>
            Saving(u) /\ calls[u].opening # q /\ calls[u].opening \in Opening
    BY <1>3, <1>6 DEF SavesOf, Saving, PagesInv, CallsInv, CallOf, PagesTypeOK, CallRecord
  <1>11. SavesInv'
    <2>1. /\ tries \in [Opening -> Nat]
          /\ \A o \in Opening : tries'[o] >= tries[o] /\ tries'[o] \in Nat
          /\ tries'[q] > 0
      <3>1. tries \in [Opening -> Nat]
        BY DEF PagesInv, PagesTypeOK
      <3>2. \A o \in Opening : tries'[o] = IF o = q THEN tries[o] + 1 ELSE tries[o]
        BY <1>2, <3>1
      <3>3. QED
        BY <1>3, <3>1, <3>2
    <2> DEFINE Kept(u) ==
                   /\ {v \in CallSlot : Saving(v)' /\ calls'[v].opening = calls'[u].opening} = {u}
                   /\ tries'[calls'[u].opening] > 0
                   /\ form'.opening = calls'[u].opening
                         \/ ended'[calls'[u].opening] \in {"cancelled", "swept"}
                   /\ form'.opening = calls'[u].opening => calls'[u].base = form'.base
                   /\ Now'.closes = "same" =>
                         (calls'[u].op = "create" <=> calls'[u].base = None)
    <2>2. ASSUME NEW u \in CallSlot \ {s}, Saving(u)' PROVE Kept(u)
      <3>1. calls'[u] = calls[u] /\ Saving(u) /\ calls[u].opening # q
            /\ calls[u].opening \in Opening
        BY <1>6, <1>10, <2>2
      <3>2. {v \in CallSlot : Saving(v)' /\ calls'[v].opening = calls'[u].opening}
              = SavesOf(calls[u].opening)
        BY <1>9, <3>1 DEF SavesOf
      <3>3. tries[calls[u].opening] > 0
        BY <3>1 DEF PagesInv, SavesInv
      <3>4. tries'[calls[u].opening] > 0
        BY <2>1, <3>1, <3>3
      <3>5. QED
        BY <1>2, <3>1, <3>2, <3>4 DEF PagesInv, SavesInv, SameEditor, Now
    <2>3. Kept(s)
      <3>1. {v \in CallSlot : Saving(v)' /\ calls'[v].opening = calls'[s].opening} = {s}
        BY <1>5, <1>9 DEF SavesOf
      <3>2. Now.closes = "same" => (calls'[s].op = "create" <=> calls'[s].base = None)
        BY <1>2, <1>4, <1>5 DEF PagesInv, FormInv, EditorOpen
      <3>3. form'.opening = q /\ form'.base = form.base /\ Now' = Now
        BY <1>2 DEF SameEditor, Now
      <3>4. QED
        BY <1>5, <2>1, <3>1, <3>2, <3>3
    <2>4. \A u \in CallSlot : Saving(u)' => Kept(u)
      BY <2>2, <2>3
    <2>5. QED
      BY <2>4 DEF SavesInv, SavesOf
  <1>12. MadeInv'
    <2>1. ~Now.numbered => made[q] <= failed[q]
      BY <1>3 DEF PagesInv, MadeInv
    <2>2. \A o \in Opening : SavesOf(o)' = {} => SavesOf(o) = {}
      BY <1>9
    <2>3. \A u \in CallSlot \ {s} : Saving(u)' => Saving(u) /\ calls'[u] = calls[u]
      BY <1>6, <1>10
    <2>4. QED
      BY <1>2, <1>5, <2>1, <2>2, <2>3 DEF PagesInv, MadeInv, SameEditor, Now
  <1>13. ShownInv'
    <2>1. ~hasty /\ SubmitOp = "patch" => form.base = SubmitDoc
      BY <1>2, <1>4 DEF PagesInv, ShownInv, SubmitDoc, EditorOpen
    <2>2. \A u \in CallSlot : Asking(u)' <=> Asking(u)
      BY <1>5, <1>6 DEF Asking
    <2>3. \A u \in CallSlot \ {s} : calls'[u] = calls[u]
      BY <1>6
    <2>4. QED
      BY <1>2, <1>5, <2>1, <2>2, <2>3 DEF PagesInv, ShownInv, SavedWhereShown, SameEditor
  <1>14. SweptInv'
    <2>1. \A o \in Opening : tries[o] > 0 => tries'[o] > 0
      BY <1>2 DEF PagesInv, PagesTypeOK
    <2>2. QED
      BY <1>2, <2>1 DEF PagesInv, SweptInv, SameEditor
  <1>15. CallsInv' /\ FreshPressAccepted'
    <2>1. CallOf(s)'
      BY <1>3, <1>4, <1>5 DEF CallOf, Saves, Details, Asking
    <2>2. QED
      BY <1>1, <1>2, <1>5, <2>1, CallsStay, FreshStays DEF PagesInv, SentAs, SameEditor
  <1>16. QED
    BY <1>1, <1>7, <1>8, <1>11, <1>12, <1>13, <1>14, <1>15 DEF PagesInv

-----------------------------------------------------------------------------
(* The editors come and go *)

\* What the calls that save and ask keep when an editor does not come by one.
SameCalls ==
    \A u \in CallSlot : /\ Saving(u)' <=> Saving(u)
                        /\ Saving(u) => calls'[u] = calls[u]

LEMMA SameSaves ==
    ASSUME SameCalls, NEW o PROVE SavesOf(o)' = SavesOf(o)
  <1>1. \A u \in CallSlot : Saving(u)' /\ calls'[u].opening = o
                              <=> Saving(u) /\ calls[u].opening = o
    BY DEF SameCalls, Saving
  <1>2. QED
    BY <1>1 DEF SavesOf

\* An editor is put on a page that has none.
LEMMA MountKeeps ==
    ASSUME PagesInv, NEW d \in Doc \cup {None}, Mounted(d), page' = page,
           ~EditorOpen(dialog), EditorOpen(dialog'), DialogTypeOK',
           Unopened # {}, SameCalls, Cardinality(Unopened) > Cardinality(AskSet'),
           Cardinality(AskSet') \in Nat,
           made' = made, failed' = failed, tries' = tries,
           dialog'.creating => dialog'.editing = None /\ d = None,
           dialog'.editing # None => d = dialog'.editing
    PROVE  FormInv' /\ RoomInv' /\ SavesInv' /\ MadeInv' /\ SweptInv' /\ form'.base = d
  <1>1. PICK o \in Unopened :
              /\ o \in Opening /\ o # 0
              /\ form' \in FormRecord /\ form'.opening = o /\ form'.base = d
              /\ ~form'.typed
              /\ ended' = [ended EXCEPT ![o] = "open"]
    BY FormMounted DEF PagesInv
  <1>2. /\ form.opening = 0 /\ ended[o] = "never" /\ ended \in [Opening -> {"never", "open"} \cup End]
        /\ \A p \in Opening : ended[p] # "open"
    BY <1>1 DEF PagesInv, FormInv, PagesTypeOK, Unopened, Opening
  <1>3. \A p \in Opening : ended'[p] = IF p = o THEN "open" ELSE ended[p]
    BY <1>1, <1>2
  <1>4. form'.opening = o /\ form'.base = d /\ ~form'.typed /\ Now' = Now
    BY <1>1 DEF Now
  <1>5. FormInv'
    BY <1>1, <1>2, <1>3, <1>4 DEF FormInv, EditorOpen
  <1>6. RoomInv'
    <2>1. Unopened' = Unopened \ {o}
      BY <1>2, <1>3 DEF Unopened
    <2>2. Cardinality(Unopened \ {o}) = Cardinality(Unopened) - 1
      BY <1>1, SetsFinite, FS_RemoveElement DEF PagesInv
    <2>3. QED
      BY <2>1, <2>2, SetsFinite DEF RoomInv, PagesInv
  <1>7. \A p : SavesOf(p)' = SavesOf(p)
    BY SameSaves
  <1>8. \A u \in CallSlot : Saving(u) =>
            /\ calls[u].opening \in Opening
            /\ ended[calls[u].opening] \in {"cancelled", "swept"}
            /\ calls[u].opening # o
    <2>1. SUFFICES ASSUME NEW u \in CallSlot, Saving(u)
          PROVE /\ calls[u].opening \in Opening
                /\ ended[calls[u].opening] \in {"cancelled", "swept"}
                /\ calls[u].opening # o
      OBVIOUS
    <2>2. calls[u].opening \in Opening /\ calls[u].opening # 0
      BY <2>1 DEF PagesInv, CallsInv, CallOf, PagesTypeOK, CallRecord
    <2>3. ended[calls[u].opening] \in {"cancelled", "swept"}
      BY <1>2, <2>1, <2>2 DEF PagesInv, SavesInv
    <2>4. QED
      BY <1>2, <2>2, <2>3
  <1>9. SavesInv'
    <2> DEFINE Kept(u) ==
                   /\ {v \in CallSlot : Saving(v)' /\ calls'[v].opening = calls'[u].opening} = {u}
                   /\ tries'[calls'[u].opening] > 0
                   /\ form'.opening = calls'[u].opening
                         \/ ended'[calls'[u].opening] \in {"cancelled", "swept"}
                   /\ form'.opening = calls'[u].opening => calls'[u].base = form'.base
                   /\ Now'.closes = "same" =>
                         (calls'[u].op = "create" <=> calls'[u].base = None)
    <2>1. ASSUME NEW u \in CallSlot, Saving(u)' PROVE Kept(u)
      <3>1. Saving(u) /\ calls'[u] = calls[u]
        BY <2>1 DEF SameCalls
      <3>2. {v \in CallSlot : Saving(v)' /\ calls'[v].opening = calls'[u].opening}
              = SavesOf(calls[u].opening)
        BY <1>7, <3>1 DEF SavesOf
      <3>3. QED
        BY <1>3, <1>4, <1>8, <3>1, <3>2 DEF PagesInv, SavesInv
    <2>2. QED
      BY <2>1 DEF SavesInv, SavesOf
  <1>10. MadeInv'
    <2>1. \A u \in CallSlot : Saving(u)' => Saving(u) /\ calls'[u] = calls[u]
      BY DEF SameCalls
    <2>2. \A p \in Opening : ended'[p] \in {"never", "open"} => ended[p] \in {"never", "open"}
      BY <1>2, <1>3
    <2>3. QED
      BY <1>4, <1>7, <2>1, <2>2 DEF PagesInv, MadeInv
  <1>11. SweptInv'
    BY <1>2, <1>3 DEF PagesInv, SweptInv
  <1>12. QED
    BY <1>4, <1>5, <1>6, <1>9, <1>10, <1>11

LEMMA OpenNewKeeps == ASSUME PagesInv, OpenNew PROVE PagesInv'
  <1>1. PagesTypeOK'
    BY OpenNewTyped DEF PagesInv
  <1>2. /\ page' = page /\ doc' = doc /\ calls' = calls /\ made' = made /\ failed' = failed
        /\ allowed' = allowed /\ tries' = tries /\ hasty' = hasty /\ Mounted(None) /\ ~EditorOpen(dialog)
    BY DEF OpenNew, serverVars, saveVars, history, Covered
  <1>3. dialog'.creating /\ dialog'.editing = None /\ dialog.editing = None
    BY <1>2 DEF OpenNew, EditorOpen, PagesInv, PagesTypeOK
  <1>4. AskSet' = AskSet /\ SameCalls
    BY <1>2 DEF AskSet, Asking, Saving, SameCalls
  <1>5. Unopened # {} /\ Cardinality(Unopened) > Cardinality(AskSet)
        /\ Cardinality(AskSet) \in Nat
    BY MayOpenMeans, SetsFinite DEF OpenNew, PagesInv
  <1>6. DialogTypeOK' /\ EditorOpen(dialog')
    BY <1>1, <1>3 DEF PagesTypeOK, DialogTypeOK, EditorOpen
  <1>7. FormInv' /\ RoomInv' /\ SavesInv' /\ MadeInv' /\ SweptInv'
    BY <1>2, <1>3, <1>4, <1>5, <1>6, MountKeeps
  <1>8. ShownInv'
    BY <1>2, <1>3 DEF PagesInv, ShownInv, SavedWhereShown, Asking
  <1>9. CallsInv' /\ FreshPressAccepted'
    BY <1>2 DEF PagesInv, CallsInv, CallOf, FreshPressAccepted, Saving, Asking, Now
  <1>10. QED
    BY <1>1, <1>7, <1>8, <1>9 DEF PagesInv

LEMMA OpenRowKeeps == ASSUME PagesInv, NEW d \in Doc, NEW op, OpenRow(d, op) PROVE PagesInv'
  <1>1. PagesTypeOK'
    BY OpenRowTyped DEF PagesInv
  <1>2. /\ page' = page /\ doc' = doc /\ calls' = calls /\ made' = made /\ failed' = failed
        /\ allowed' = allowed /\ tries' = tries /\ hasty' = hasty /\ ~EditorOpen(dialog)
    BY DEF OpenRow, serverVars, saveVars, history, Covered
  <1>3. CASE op = "convert" /\ dialog' = [dialog EXCEPT !.deriving = d]
             /\ UNCHANGED <<form, ended>>
    <2>1. dialog'.creating = dialog.creating /\ dialog'.editing = dialog.editing
      BY <1>3 DEF PagesInv, PagesTypeOK
    <2>2. SameEditor
      BY <1>2, <1>3, <2>1 DEF SameEditor
    <2>3. QED
      BY <1>1, <1>2, <2>2, StillKeeps DEF PagesInv
  <1>4. CASE /\ op = "edit" /\ ~Now.detail /\ MayOpen
             /\ dialog' = [dialog EXCEPT !.editing = d] /\ Mounted(d)
    <2>1. ~dialog'.creating /\ dialog'.editing = d /\ d # None
      BY <1>2, <1>4, NoneAssumption DEF EditorOpen, PagesInv, PagesTypeOK
    <2>2. AskSet' = AskSet /\ SameCalls
      BY <1>2 DEF AskSet, Asking, Saving, SameCalls
    <2>3. Unopened # {} /\ Cardinality(Unopened) > Cardinality(AskSet)
          /\ Cardinality(AskSet) \in Nat
      BY <1>4, MayOpenMeans, SetsFinite DEF PagesInv
    <2>4. DialogTypeOK' /\ EditorOpen(dialog')
      BY <1>1, <2>1 DEF PagesTypeOK, DialogTypeOK, EditorOpen
    <2>5. FormInv' /\ RoomInv' /\ SavesInv' /\ MadeInv' /\ SweptInv' /\ form'.base = d
      BY <1>2, <1>4, <2>1, <2>2, <2>3, <2>4, MountKeeps
    <2>6. \A u \in CallSlot : ~Asking(u)
      BY <1>4 DEF PagesInv, CallsInv, CallOf
    <2>7. ShownInv'
      BY <1>2, <2>1, <2>5, <2>6 DEF PagesInv, ShownInv, SavedWhereShown, Asking
    <2>8. CallsInv' /\ FreshPressAccepted'
      BY <1>2 DEF PagesInv, CallsInv, CallOf, FreshPressAccepted, Saving, Asking, Now
    <2>9. QED
      BY <1>1, <2>5, <2>7, <2>8 DEF PagesInv
  <1>5. QED
    BY <1>3, <1>4 DEF OpenRow

\* An editor that goes, and how it ended.
LEMMA EndKeeps ==
    ASSUME PagesInv, NEW how \in End, EndForm(how), page' = page, ~EditorOpen(dialog'),
           DialogTypeOK', failed' = failed, made' = made, tries' = tries,
           NEW S \in SUBSET CallSlot,
           \A u \in CallSlot \ S : calls'[u] = calls[u],
           \A u \in S : ~Saving(u)' /\ ~Asking(u)',
           how = "saved" => \A u \in CallSlot \ S :
               Saving(u) => calls[u].opening # form.opening,
           how = "swept" => \E p \in Opening : ended[p] = "cancelled" /\ tries[p] > 0
    PROVE  FormInv' /\ RoomInv' /\ SavesInv' /\ MadeInv' /\ SweptInv'
  <1> DEFINE q == form.opening
  <1>1. /\ form' = NoForm /\ form'.opening = 0 /\ form'.base = None /\ Now' = Now
        /\ ~form'.typed
        /\ q \in {0} \cup Opening /\ ended \in [Opening -> {"never", "open"} \cup End]
        /\ \A o \in Opening : ended[o] = "open" <=> q = o
    BY DEF EndForm, NoForm, PagesInv, PagesTypeOK, FormInv, Now, FormRecord
  <1>2. \A o \in Opening : ended'[o] = IF o = q THEN how ELSE ended[o]
    <2>1. 0 \notin Opening
      BY BoundAssumption DEF Opening
    <2>2. QED
      BY <1>1, <2>1 DEF EndForm
  <1>3. FormInv'
    <2>1. \A o \in Opening : ended'[o] # "open" /\ o # 0
      BY <1>1, <1>2, BoundAssumption DEF End, Opening
    <2>2. ~dialog'.creating /\ dialog'.editing = None
      BY DEF EditorOpen
    <2>3. QED
      BY <1>1, <2>1, <2>2 DEF FormInv
  <1>4. RoomInv'
    <2>1. Unopened' = Unopened
      BY <1>1, <1>2 DEF Unopened, End
    <2>2. AskSet' \subseteq AskSet
      BY DEF AskSet, Asking
    <2>3. IsFiniteSet(AskSet') /\ Cardinality(AskSet') <= Cardinality(AskSet)
      BY <2>2, SetsFinite, FS_Subset DEF PagesInv
    <2>4. Cardinality(AskSet') \in Nat
      BY <2>3, FS_CardinalityType
    <2>5. QED
      BY <2>1, <2>3, <2>4, SetsFinite DEF RoomInv, PagesInv
  <1>5. \A u \in CallSlot : Saving(u)' =>
            /\ u \notin S /\ Saving(u) /\ calls'[u] = calls[u]
            /\ calls[u].opening \in Opening /\ SavesOf(calls[u].opening) = {u}
    <2>1. SUFFICES ASSUME NEW u \in CallSlot, Saving(u)'
          PROVE /\ u \notin S /\ Saving(u) /\ calls'[u] = calls[u]
                /\ calls[u].opening \in Opening /\ SavesOf(calls[u].opening) = {u}
      OBVIOUS
    <2>2. u \notin S /\ Saving(u) /\ calls'[u] = calls[u]
      BY <2>1 DEF Saving
    <2>3. QED
      BY <2>2 DEF PagesInv, CallsInv, CallOf, PagesTypeOK, CallRecord, SavesInv
  <1>6. SavesInv'
    <2> DEFINE Kept(u) ==
                   /\ {v \in CallSlot : Saving(v)' /\ calls'[v].opening = calls'[u].opening} = {u}
                   /\ tries'[calls'[u].opening] > 0
                   /\ form'.opening = calls'[u].opening
                         \/ ended'[calls'[u].opening] \in {"cancelled", "swept"}
                   /\ form'.opening = calls'[u].opening => calls'[u].base = form'.base
                   /\ Now'.closes = "same" =>
                         (calls'[u].op = "create" <=> calls'[u].base = None)
    <2>1. ASSUME NEW u \in CallSlot, Saving(u)' PROVE Kept(u)
      <3>1. /\ u \notin S /\ Saving(u) /\ calls'[u] = calls[u]
            /\ calls[u].opening \in Opening /\ SavesOf(calls[u].opening) = {u}
        BY <1>5, <2>1
      <3>2. \A v \in CallSlot : Saving(v)' /\ calls'[v].opening = calls'[u].opening <=> v = u
        <4>1. \A v \in CallSlot : Saving(v)' /\ calls'[v].opening = calls'[u].opening => v = u
          BY <1>5, <3>1 DEF SavesOf
        <4>2. QED
          BY <2>1, <4>1
      <3>3. ended'[calls[u].opening] \in {"cancelled", "swept"}
        <4>1. q = calls[u].opening \/ ended[calls[u].opening] \in {"cancelled", "swept"}
          BY <3>1 DEF PagesInv, SavesInv
        <4>2. q = calls[u].opening => how \in {"cancelled", "swept"}
          BY <3>1 DEF End
        <4>3. QED
          BY <1>2, <3>1, <4>1, <4>2
      <3>4. 0 \notin Opening
        BY BoundAssumption DEF Opening
      <3>5. QED
        BY <1>1, <3>1, <3>2, <3>3, <3>4 DEF PagesInv, SavesInv
    <2>2. QED
      BY <2>1 DEF SavesInv, SavesOf
  <1>7. MadeInv'
    <2>1. ASSUME NEW o \in Opening, ended'[o] \in {"never", "open"}, SavesOf(o)' = {}
          PROVE  ended[o] \in {"never", "open"} /\ SavesOf(o) = {}
      <3>1. o # q /\ ended'[o] = ended[o]
        BY <1>2, <2>1 DEF End
      <3>2. \A u \in CallSlot : Saving(u) /\ calls[u].opening = o => FALSE
        <4>1. SUFFICES ASSUME NEW u \in CallSlot, Saving(u), calls[u].opening = o PROVE FALSE
          OBVIOUS
        <4>2. ended[o] \in {"cancelled", "swept"}
          BY <3>1, <4>1 DEF PagesInv, SavesInv
        <4>3. QED
          BY <2>1, <3>1, <4>2
      <3>3. QED
        BY <2>1, <3>1, <3>2 DEF SavesOf
    <2>2. QED
      BY <1>1, <1>5, <2>1 DEF PagesInv, MadeInv
  <1>8. SweptInv'
    <2>1. \A p \in Opening : ended[p] = "cancelled" /\ tries[p] > 0
                               => ended'[p] = "cancelled" /\ tries'[p] > 0
      BY <1>1, <1>2
    <2>2. \A o \in Opening : ended'[o] = "swept" => ended[o] = "swept" \/ how = "swept"
      BY <1>2
    <2>3. QED
      BY <2>1, <2>2 DEF PagesInv, SweptInv
  <1>9. QED
    BY <1>3, <1>4, <1>6, <1>7, <1>8

LEMMA CancelKeeps == ASSUME PagesInv, Cancel PROVE PagesInv'
  <1>1. PagesTypeOK'
    BY CancelTyped DEF PagesInv
  <1>2. /\ page' = page /\ doc' = doc /\ calls' = calls /\ made' = made /\ failed' = failed
        /\ allowed' = allowed /\ tries' = tries /\ hasty' = hasty
    BY DEF Cancel, serverVars, saveVars, history
  <1>3. CASE EditorOpen(dialog')
    <2>1. Close.creating = FALSE /\ Close.editing = None
      BY DEF Close, NoDialog
    <2>2. page = "receipts" => Now.closes = "same"
      BY DEF Now, PageOf, ReceiptsPage, ReceiptEditor, Page, Editor
    <2>3. /\ dialog.creating \in BOOLEAN
          /\ Now.closes = "same" /\ dialog.creating => dialog.editing = None
      BY DEF PagesInv, PagesTypeOK, FormInv
    <2>4. dialog' # [dialog EXCEPT !.creating = FALSE] \/ ~(page = "receipts" /\ dialog.creating)
      BY <1>3, <2>2, <2>3 DEF EditorOpen, PagesInv, PagesTypeOK
    <2>5. dialog' = [dialog EXCEPT !.viewing = None]
      BY <1>3, <2>1, <2>4 DEF Cancel, EditorOpen
    <2>6. dialog'.creating = dialog.creating /\ dialog'.editing = dialog.editing
      BY <2>5 DEF PagesInv, PagesTypeOK
    <2>7. SameEditor
      BY <1>2, <1>3, <2>6 DEF SameEditor, Cancel
    <2>8. QED
      BY <1>1, <1>2, <2>7, StillKeeps DEF PagesInv
  <1>4. CASE ~EditorOpen(dialog')
    <2>1. EndForm("cancelled") /\ "cancelled" \in End
      BY <1>4 DEF Cancel, End
    <2>2. DialogTypeOK'
      BY <1>1 DEF PagesTypeOK, DialogTypeOK
    <2>3. ~dialog'.creating /\ dialog'.editing = None
      BY <1>4 DEF EditorOpen
    <2>4. FormInv' /\ RoomInv' /\ SavesInv' /\ MadeInv' /\ SweptInv'
      <3>1. /\ {} \in SUBSET CallSlot
            /\ \A u \in CallSlot \ {} : calls'[u] = calls[u]
            /\ \A u \in {} : ~Saving(u)' /\ ~Asking(u)'
        BY <1>2
      <3>2. QED
        BY <1>2, <1>4, <2>1, <2>2, <3>1, EndKeeps
    <2>5. ShownInv'
      BY <1>2, <2>3 DEF PagesInv, ShownInv, SavedWhereShown, Asking
    <2>6. CallsInv' /\ FreshPressAccepted'
      BY <1>2 DEF PagesInv, CallsInv, CallOf, FreshPressAccepted, Saving, Asking, Now
    <2>7. QED
      BY <1>1, <2>4, <2>5, <2>6 DEF PagesInv
  <1>5. QED
    BY <1>3, <1>4

-----------------------------------------------------------------------------
(* Answers *)

LEMMA NoneSentCall ==
    ASSUME NEW s \in CallSlot, FreedAt(s)
    PROVE  CallOf(s)' /\ ~Saving(s)' /\ ~Asking(s)' /\ calls'[s].at = "off"
  BY NoneSentFields DEF FreedAt, CallOf, Saving, Asking, Saves, Details

\* A call that saved nothing is over, and the editors stay.
LEMMA FreedKeeps ==
    ASSUME PagesInv, PagesTypeOK', NEW s \in CallSlot, FreedAt(s), ~Saving(s), SameEditor,
           hasty' = hasty, tries' = tries, made' = made, failed' = failed, doc' = doc
    PROVE  PagesInv'
  <1>1. CallOf(s)' /\ ~Saving(s)' /\ ~Asking(s)' /\ calls'[s].at = "off"
    BY NoneSentCall
  <1>2. Turn(s)
    BY <1>1 DEF Turn, FreedAt
  <1>3. FormInv' /\ RoomInv' /\ SavesInv' /\ ShownInv' /\ SweptInv'
    BY <1>2, SavedStays, TurnKeeps DEF PagesInv
  <1>4. MadeInv'
    BY <1>1, <1>2, MadeStays
  <1>5. CallsInv' /\ FreshPressAccepted'
    BY <1>1, CallsStay, FreshStays DEF PagesInv, FreedAt, SameEditor
  <1>6. QED
    BY <1>3, <1>4, <1>5 DEF PagesInv

LEMMA HearOperationKeeps ==
    ASSUME PagesInv, NEW s \in CallSlot, Hear(s), HearOperation(s) PROVE PagesInv'
  <1>1. PagesTypeOK' /\ page' = page
    BY HearOperationTyped DEF PagesInv, Hear
  <1>2. FreedAt(s)
    BY <1>1, FreedTyped DEF HearOperation, PagesInv
  <1>3. ~Saving(s)
    BY NowFits DEF HearOperation, PagesInv, PagesTypeOK, PageOK, Fits, Saving
  <1>4. /\ SameEditor /\ hasty' = hasty /\ tries' = tries /\ made' = made
        /\ failed' = failed /\ doc' = doc
    BY <1>1 DEF Hear, HearOperation, SameEditor, serverVars, dialogVars, saveVars
  <1>5. QED
    BY <1>1, <1>2, <1>3, <1>4, FreedKeeps

LEMMA HearDerivationKeeps ==
    ASSUME PagesInv, NEW s \in CallSlot, Hear(s), HearDerivation(s) PROVE PagesInv'
  <1>1. PagesTypeOK' /\ page' = page
    BY HearDerivationTyped DEF PagesInv, Hear
  <1>2. FreedAt(s)
    BY <1>1, FreedTyped DEF HearDerivation, PagesInv
  <1>3. ~Saving(s)
    BY DEF HearDerivation, Derivations, Saves, Saving
  <1>4. dialog'.creating = dialog.creating /\ dialog'.editing = dialog.editing
    <2>1. \/ dialog' = dialog
          \/ dialog' = [[dialog EXCEPT !.by = None] EXCEPT !.done = Succeeded(s)]
      BY DEF HearDerivation
    <2>2. QED
      BY <2>1 DEF PagesInv, PagesTypeOK
  <1>5. /\ SameEditor /\ hasty' = hasty /\ tries' = tries /\ made' = made
        /\ failed' = failed /\ doc' = doc
    BY <1>1, <1>4 DEF Hear, HearDerivation, SameEditor, serverVars, saveVars
  <1>6. QED
    BY <1>1, <1>2, <1>3, <1>5, FreedKeeps

LEMMA HearDetailKeeps ==
    ASSUME PagesInv, NEW s \in CallSlot, Hear(s), HearDetail(s) PROVE PagesInv'
  <1> DEFINE d == calls[s].doc
  <1>1. PagesTypeOK' /\ page' = page /\ allowed' = allowed
    BY HearDetailTyped DEF PagesInv, Hear
  <1>2. FreedAt(s)
    BY <1>1, FreedTyped DEF HearDetail, PagesInv
  <1>3. ~Saving(s) /\ d \in Doc /\ CallOf(s)
    BY DEF HearDetail, Details, Saves, Saving, PagesInv, CallsInv, CallOf
  <1>4. /\ hasty' = hasty /\ tries' = tries /\ made' = made
        /\ failed' = failed /\ doc' = doc
    BY DEF Hear, HearDetail, serverVars, saveVars
  <1>5. CASE SameEditor
    BY <1>1, <1>2, <1>3, <1>4, <1>5, FreedKeeps
  <1>6. CASE /\ Asking(s) /\ dialog' = [dialog EXCEPT !.editing = d]
             /\ IF EditorOpen(dialog) THEN UNCHANGED <<form, ended>> ELSE Mounted(d)
    <2>1. dialog'.creating = dialog.creating /\ dialog'.editing = d /\ d # None
      BY <1>3, <1>6, NoneAssumption DEF PagesInv, PagesTypeOK
    <2>2. Now.closes # "same"
      <3>1. /\ calls[s].op = "edit" /\ Now.detail
            /\ calls[s].shown \in DOMAIN Now.offered
            /\ "edit" \in Now.offered[calls[s].shown]
        BY <1>3, <1>6 DEF CallOf, Details, Asking
      <3>2. PageOK(Now)
        BY NowFits DEF PagesInv, PagesTypeOK
      <3>3. QED
        BY <3>1, <3>2 DEF PageOK
    <2>3. CallOf(s)' /\ ~Saving(s)' /\ ~Asking(s)' /\ calls'[s].at = "off"
      BY <1>2, NoneSentCall
    <2>4. SameCalls
      BY <1>2, <1>3, <2>3 DEF SameCalls, FreedAt, Only, Saving
    <2>5. AskSet' = AskSet \ {s} /\ s \in AskSet
      BY <1>2, <1>6, <2>3 DEF AskSet, FreedAt, Only, Asking
    <2>6. /\ Cardinality(AskSet') = Cardinality(AskSet) - 1 /\ Cardinality(AskSet') \in Nat
          /\ Cardinality(Unopened) >= Cardinality(AskSet) /\ Cardinality(Unopened) \in Nat
          /\ Cardinality(AskSet) \in Nat
      <3>1. IsFiniteSet(AskSet) /\ Cardinality(AskSet) \in Nat /\ Cardinality(Unopened) \in Nat
        BY SetsFinite DEF PagesInv
      <3>2. /\ IsFiniteSet(AskSet \ {s})
            /\ Cardinality(AskSet \ {s}) = Cardinality(AskSet) - 1
        BY <2>5, <3>1, FS_RemoveElement
      <3>3. Cardinality(AskSet \ {s}) \in Nat
        BY <3>2, FS_CardinalityType
      <3>4. QED
        BY <2>5, <3>1, <3>2, <3>3 DEF PagesInv, RoomInv
    <2>7. DialogTypeOK' /\ EditorOpen(dialog')
      BY <1>1, <2>1 DEF PagesTypeOK, DialogTypeOK, EditorOpen
    <2>8. FormInv' /\ RoomInv' /\ SavesInv' /\ MadeInv' /\ SweptInv'
          /\ (~EditorOpen(dialog) => form'.base = d)
      <3>1. CASE EditorOpen(dialog)
        <4>1. form' = form /\ ended' = ended
          BY <1>6, <3>1
        <4>2. FormInv'
          BY <1>1, <2>2, <2>7, <3>1, <4>1 DEF PagesInv, FormInv, Now
        <4>3. RoomInv'
          BY <2>5, <4>1, RoomStays DEF PagesInv
        <4>4. \A o : SavesOf(o)' = SavesOf(o)
          BY <2>4, SameSaves
        <4>5. SavesInv'
          <5>1. \A u \in CallSlot : Saving(u)' => Saving(u) /\ calls'[u] = calls[u]
            BY <2>4 DEF SameCalls
          <5>2. QED
            BY <1>1, <1>4, <4>1, <4>4, <5>1 DEF PagesInv, SavesInv, SavesOf, Now
        <4>6. MadeInv'
          <5>1. \A u \in CallSlot : Saving(u)' => Saving(u) /\ calls'[u] = calls[u]
            BY <2>4 DEF SameCalls
          <5>2. QED
            BY <1>1, <1>4, <4>1, <4>4, <5>1 DEF PagesInv, MadeInv, Now
        <4>7. SweptInv'
          BY <1>4, <4>1 DEF PagesInv, SweptInv
        <4>8. QED
          BY <3>1, <4>2, <4>3, <4>5, <4>6, <4>7
      <3>2. CASE ~EditorOpen(dialog)
        <4>1. ~dialog'.creating /\ Mounted(d)
          BY <1>6, <2>1, <3>2 DEF EditorOpen
        <4>2. Unopened # {} /\ Cardinality(Unopened) > Cardinality(AskSet')
          <5>1. Unopened # {}
            BY <1>6, AskedMayOpen DEF PagesInv
          <5>2. QED
            BY <2>6, <5>1
        <4>3. QED
          BY <1>1, <1>3, <1>4, <2>1, <2>4, <2>6, <2>7, <3>2, <4>1, <4>2, MountKeeps
      <3>3. QED
        BY <3>1, <3>2
    <2>9. ShownInv'
      <3>1. SUFFICES ASSUME ~hasty' PROVE ShownInv'
        BY DEF ShownInv
      <3>2. ~hasty /\ dialog.editing = None
        BY <1>4, <1>6, <3>1 DEF PagesInv, ShownInv
      <3>3. \A u \in CallSlot : ~Asking(u)'
        BY <1>2, <1>4, <1>6, <2>3, <3>1 DEF PagesInv, ShownInv, FreedAt, Only, Asking
      <3>4. ~dialog'.creating => form'.base = dialog'.editing
        BY <2>1, <2>8, <3>2 DEF EditorOpen
      <3>5. \A u \in CallSlot : calls'[u].op = "patch" => calls'[u] = calls[u]
        BY <2>4 DEF SameCalls, Saving, Saves
      <3>6. SavedWhereShown'
        BY <1>4, SavedStays DEF PagesInv
      <3>7. QED
        BY <3>2, <3>3, <3>4, <3>5, <3>6 DEF PagesInv, ShownInv
    <2>10. CallsInv' /\ FreshPressAccepted'
      BY <1>1, <1>2, <2>3, CallsStay, FreshStays DEF PagesInv, FreedAt
    <2>11. QED
      BY <1>1, <2>8, <2>9, <2>10 DEF PagesInv
  <1>7. SameEditor \/ (/\ Asking(s) /\ dialog' = [dialog EXCEPT !.editing = d]
                       /\ IF EditorOpen(dialog) THEN UNCHANGED <<form, ended>> ELSE Mounted(d))
    <2>1. dialog \in [creating : BOOLEAN, editing : Doc \cup {None},
                      viewing : Doc \cup {None}, deriving : Doc \cup {None},
                      by : CallSlot \cup {None}, done : BOOLEAN]
      BY DEF PagesInv, PagesTypeOK
    <2>2. CASE ~Succeeded(s)
      BY <1>1, <2>2 DEF HearDetail, SameEditor, dialogVars
    <2>3. CASE Succeeded(s) /\ calls[s].op = "edit"
      BY <2>3 DEF HearDetail, Asking
    <2>4. CASE Succeeded(s) /\ calls[s].op \in {"view", "invoice"}
      <3>1. \/ dialog' = [dialog EXCEPT !.viewing = d] /\ UNCHANGED <<form, ended>>
            \/ dialog' = [dialog EXCEPT !.deriving = d] /\ UNCHANGED <<form, ended>>
        BY <2>4 DEF HearDetail
      <3>2. QED
        BY <1>1, <2>1, <3>1 DEF SameEditor
    <2>5. QED
      BY <2>2, <2>3, <2>4 DEF HearDetail, Details
  <1>8. QED
    BY <1>5, <1>6, <1>7

\* A save goes on with its second call.
LEMMA MoreKeeps ==
    ASSUME PagesInv, NEW s \in CallSlot, Hear(s), HearSave(s), CallsTypeOK', MoreAt(s),
           UNCHANGED <<fetch, heard, dialogVars, saveVars>>
    PROVE  PagesInv'
  <1>1. PagesTypeOK' /\ page' = page /\ allowed' = allowed
    BY MoreTyped DEF PagesInv, Hear
  <1>2. Saving(s) /\ CallOf(s)
    BY DEF HearSave, Saving, PagesInv, CallsInv
  <1>3. /\ SameEditor /\ hasty' = hasty /\ tries' = tries /\ made' = made
        /\ failed' = failed /\ doc' = doc
    BY <1>1 DEF Hear, SameEditor, serverVars, dialogVars, saveVars
  <1>4. Turn(s)
    BY <1>2, <1>3 DEF Turn, MoreAt, Saving, Asking
  <1>5. FormInv' /\ RoomInv' /\ SavesInv' /\ ShownInv' /\ SweptInv'
    BY <1>3, <1>4, SavedStays, TurnKeeps DEF PagesInv
  <1>6. MadeInv'
    BY <1>3, <1>4, MadeStays DEF MoreAt
  <1>7. CallOf(s)'
    BY <1>1, <1>2 DEF MoreAt, CallOf, Saving, Asking, Now
  <1>8. CallsInv' /\ FreshPressAccepted'
    BY <1>1, <1>7, CallsStay, FreshStays DEF PagesInv, MoreAt
  <1>9. QED
    BY <1>1, <1>5, <1>6, <1>8 DEF PagesInv

\* A success closes the editor it was pressed in.
LEMMA OwnEditorCloses ==
    ASSUME PagesInv, NEW s \in CallSlot, Saving(s), dialog' = ClosedBy(s),
           calls[s].opening = form.opening
    PROVE  ~EditorOpen(dialog')
  <1>1. form.opening # 0 /\ EditorOpen(dialog)
    BY DEF PagesInv, CallsInv, CallOf, FormInv
  <1>2. Now.closes \in {"all", "same", "own"}
    BY NowFits DEF PagesInv, PagesTypeOK, PageOK
  <1>3. ~EditorOpen(NoDialog)
    BY DEF NoDialog, EditorOpen
  <1>4. CASE Now.closes \in {"all", "own"}
    BY <1>3, <1>4 DEF ClosedBy, Close
  <1>5. CASE Now.closes = "same"
    <2>1. calls[s].base = form.base /\ (calls[s].op = "create" <=> form.base = None)
      BY <1>5 DEF PagesInv, SavesInv
    <2>2. /\ dialog.creating => dialog.editing = None /\ form.base = None
          /\ dialog.editing # None => form.base # None
      BY <1>5 DEF PagesInv, FormInv
    <2>3. CASE calls[s].op = "create"
      <3>1. dialog' = [dialog EXCEPT !.creating = FALSE]
        BY <1>5, <2>3 DEF ClosedBy
      <3>2. ~dialog'.creating /\ dialog'.editing = dialog.editing
        BY <3>1 DEF PagesInv, PagesTypeOK
      <3>3. QED
        BY <2>1, <2>2, <2>3, <3>2 DEF EditorOpen
    <2>4. CASE calls[s].op # "create"
      <3>1. dialog' = [dialog EXCEPT !.editing = None]
        BY <1>5, <2>4 DEF ClosedBy
      <3>2. dialog'.creating = dialog.creating /\ dialog'.editing = None
        BY <3>1 DEF PagesInv, PagesTypeOK
      <3>3. QED
        BY <2>1, <2>2, <2>4, <3>2 DEF EditorOpen
    <2>5. QED
      BY <2>3, <2>4
  <1>6. QED
    BY <1>2, <1>4, <1>5

\* A save is over, and the form stays as it is.
LEMMA SavedKeepsForm ==
    ASSUME PagesInv, PagesTypeOK', NEW s \in CallSlot, Saving(s), FreedAt(s), page' = page,
           form' = form, ended' = ended, tries' = tries, made' = made,
           EditorOpen(dialog') <=> EditorOpen(dialog),
           dialog'.creating => dialog.creating,
           dialog'.editing # None => dialog'.editing = dialog.editing,
           \A o \in Opening : failed'[o] >= failed[o] /\ failed'[o] \in Nat,
           \/ failed'[calls[s].opening] > failed[calls[s].opening]
           \/ form.opening # calls[s].opening
    PROVE  FormInv' /\ RoomInv' /\ SavesInv' /\ MadeInv' /\ SweptInv'
  <1> DEFINE q == calls[s].opening
  <1>1. CallOf(s)' /\ ~Saving(s)' /\ ~Asking(s)' /\ calls'[s].at = "off"
    BY NoneSentCall
  <1>2. q \in Opening /\ SavesOf(q) = {s}
    BY DEF PagesInv, CallsInv, CallOf, PagesTypeOK, CallRecord, SavesInv
  <1>3. Now' = Now /\ made \in [Opening -> Nat] /\ failed \in [Opening -> Nat]
    BY DEF Now, PagesInv, PagesTypeOK
  <1>4. FormInv'
    BY <1>3 DEF PagesInv, FormInv
  <1>5. RoomInv'
    <2>1. AskSet' \subseteq AskSet
      BY <1>1 DEF AskSet, Asking, FreedAt, Only
    <2>2. QED
      BY <2>1, RoomStays DEF PagesInv
  <1>6. \A u \in CallSlot : Saving(u)' =>
            /\ u # s /\ Saving(u) /\ calls'[u] = calls[u]
            /\ calls[u].opening \in Opening /\ SavesOf(calls[u].opening) = {u}
    <2>1. SUFFICES ASSUME NEW u \in CallSlot, Saving(u)'
          PROVE /\ u # s /\ Saving(u) /\ calls'[u] = calls[u]
                /\ calls[u].opening \in Opening /\ SavesOf(calls[u].opening) = {u}
      OBVIOUS
    <2>2. u # s /\ Saving(u) /\ calls'[u] = calls[u]
      BY <1>1, <2>1 DEF Saving, FreedAt, Only
    <2>3. QED
      BY <2>2 DEF PagesInv, CallsInv, CallOf, PagesTypeOK, CallRecord, SavesInv
  <1>7. SavesInv'
    <2> DEFINE Kept(u) ==
                   /\ {v \in CallSlot : Saving(v)' /\ calls'[v].opening = calls'[u].opening} = {u}
                   /\ tries'[calls'[u].opening] > 0
                   /\ form'.opening = calls'[u].opening
                         \/ ended'[calls'[u].opening] \in {"cancelled", "swept"}
                   /\ form'.opening = calls'[u].opening => calls'[u].base = form'.base
                   /\ Now'.closes = "same" =>
                         (calls'[u].op = "create" <=> calls'[u].base = None)
    <2>1. ASSUME NEW u \in CallSlot, Saving(u)' PROVE Kept(u)
      <3>1. /\ Saving(u) /\ calls'[u] = calls[u] /\ SavesOf(calls[u].opening) = {u}
        BY <1>6, <2>1
      <3>2. \A v \in CallSlot : Saving(v)' /\ calls'[v].opening = calls'[u].opening <=> v = u
        <4>1. \A v \in CallSlot : Saving(v)' /\ calls'[v].opening = calls'[u].opening => v = u
          BY <1>6, <3>1 DEF SavesOf
        <4>2. QED
          BY <2>1, <4>1
      <3>3. QED
        BY <1>3, <3>1, <3>2 DEF PagesInv, SavesInv
    <2>2. QED
      BY <2>1 DEF SavesInv, SavesOf
  <1>8. MadeInv'
    <2>1. ASSUME NEW o \in Opening, o # q, SavesOf(o)' = {} PROVE SavesOf(o) = {}
      <3>1. \A u \in CallSlot : Saving(u) /\ calls[u].opening = o => u # s
        BY <1>2, <2>1
      <3>2. \A u \in CallSlot : Saving(u) /\ calls[u].opening = o
                                   => Saving(u)' /\ calls'[u].opening = o
        BY <3>1 DEF FreedAt, Only, Saving
      <3>3. QED
        BY <2>1, <3>2 DEF SavesOf
    <2>2. \A o \in Opening : /\ failed'[o] >= failed[o] /\ failed'[o] \in Nat
                             /\ failed[o] \in Nat /\ made[o] \in Nat
      BY <1>3
    <2>3. ASSUME NEW o \in Opening
          PROVE  /\ Now.numbered => made[o] <= 1
                 /\ ~Now.numbered => made[o] <= 1 + failed'[o]
                 /\ ~Now.numbered /\ ended[o] \in {"never", "open"} /\ SavesOf(o)' = {}
                       => made[o] <= failed'[o]
      <3>1. (Now.numbered => made[o] <= 1) /\ (~Now.numbered => made[o] <= 1 + failed[o])
        BY DEF PagesInv, MadeInv
      <3>2. ASSUME o # q, ~Now.numbered, ended[o] \in {"never", "open"}, SavesOf(o)' = {}
            PROVE  made[o] <= failed[o]
        BY <2>1, <3>2 DEF PagesInv, MadeInv
      <3>3. ASSUME o = q, ended[o] \in {"never", "open"}
            PROVE  failed'[o] > failed[o]
        <4>1. form.opening = q
          BY <1>2, <3>3 DEF PagesInv, SavesInv
        <4>2. QED
          BY <3>3, <4>1
      <3>4. QED
        BY <2>2, <3>1, <3>2, <3>3
    <2>4. ASSUME NEW u \in CallSlot, ~Now.numbered, Saving(u)', calls'[u].at = "sent",
                 ~calls'[u].second
          PROVE  made[calls'[u].opening] <= failed'[calls'[u].opening]
      <3>1. calls'[u] = calls[u] /\ Saving(u) /\ calls[u].opening \in Opening
        BY <1>6, <2>4
      <3>2. made[calls[u].opening] <= failed[calls[u].opening]
        BY <2>4, <3>1 DEF PagesInv, MadeInv
      <3>3. QED
        BY <2>2, <3>1, <3>2
    <2>5. QED
      BY <1>3, <2>3, <2>4 DEF MadeInv
  <1>9. SweptInv'
    BY DEF PagesInv, SweptInv
  <1>10. QED
    BY <1>4, <1>5, <1>7, <1>8, <1>9

\* One editor at a time shows what it saves: the dialog shows the same document,
\* or is gone, when a save is over.
LEMMA SavedShown ==
    ASSUME PagesInv, NEW s \in CallSlot, FreedAt(s), hasty' = hasty, doc' = doc,
           dialog'.editing # None => dialog'.editing = dialog.editing,
           dialog'.editing # None /\ ~dialog'.creating =>
               form' = form /\ ~dialog.creating
    PROVE  ShownInv'
  <1>1. SUFFICES ASSUME ~hasty' PROVE ShownInv'
    BY DEF ShownInv
  <1>2. ~Saving(s)' /\ ~Asking(s)'
    BY NoneSentCall
  <1>3. \A u \in CallSlot : Asking(u)' => Asking(u)
    BY <1>2 DEF Asking, FreedAt, Only
  <1>4. \A u \in CallSlot : calls'[u].op = "patch" => calls'[u] = calls[u]
    BY <1>2 DEF FreedAt, Only, Saving, Saves
  <1>5. SavedWhereShown'
    BY SavedStays DEF PagesInv
  <1>6. QED
    BY <1>1, <1>3, <1>4, <1>5 DEF PagesInv, ShownInv

LEMMA OnAnswerKeeps ==
    ASSUME PagesInv, NEW s \in CallSlot, Hear(s), Saving(s), OnAnswer(s) PROVE PagesInv'
  <1> DEFINE q == calls[s].opening
  <1>1. PagesTypeOK' /\ page' = page /\ allowed' = allowed
    BY OnAnswerTyped DEF PagesInv, Hear
  <1>2. FreedAt(s)
    BY <1>1, FreedTyped DEF OnAnswer, PagesInv
  <1>3. /\ hasty' = hasty /\ doc' = doc /\ tries' = tries /\ made' = made
        /\ failed \in [Opening -> Nat]
    BY DEF Hear, OnAnswer, serverVars, PagesInv, PagesTypeOK
  <1>4. q \in Opening /\ SavesOf(q) = {s} /\ q # 0
    BY DEF PagesInv, CallsInv, CallOf, PagesTypeOK, CallRecord, SavesInv
  <1>5. CallsInv' /\ FreshPressAccepted'
    BY <1>1, <1>2, NoneSentCall, CallsStay, FreshStays DEF PagesInv, FreedAt
  <1>6. CASE ~Succeeded(s)
    <2>1. dialog' = dialog /\ form' = form /\ ended' = ended
      BY <1>6 DEF OnAnswer, dialogVars
    <2>2. failed' = [failed EXCEPT ![q] = failed[q] + 1]
      BY <1>6 DEF OnAnswer
    <2>3. \A o \in Opening : failed'[o] >= failed[o] /\ failed'[o] \in Nat
      BY <1>3, <2>2
    <2>4. failed'[q] > failed[q]
      BY <1>3, <1>4, <2>2
    <2>5. FormInv' /\ RoomInv' /\ SavesInv' /\ MadeInv' /\ SweptInv'
      BY <1>1, <1>2, <1>3, <2>1, <2>3, <2>4, SavedKeepsForm
    <2>6. ShownInv'
      <3>1. CASE dialog.editing # None /\ ~dialog.creating
        BY <1>2, <1>3, <2>1, <3>1, SavedShown
      <3>2. CASE ~(dialog.editing # None /\ ~dialog.creating)
        BY <1>2, <1>3, <2>1, <3>2, SavedShown
      <3>3. QED
        BY <3>1, <3>2
    <2>7. QED
      BY <1>1, <1>5, <2>5, <2>6 DEF PagesInv
  <1>7. CASE Succeeded(s)
    <2>1. /\ Shut(s) /\ dialog' = ClosedBy(s)
          /\ failed' = [failed EXCEPT ![q] = failed[q]]
      BY <1>7 DEF OnAnswer, Shut
    <2>2. failed' = failed
      BY <1>3, <2>1
    <2>3. /\ DialogTypeOK'
          /\ dialog'.creating => dialog.creating
          /\ dialog'.editing # None => dialog'.editing = dialog.editing
      BY <2>1, ClosedDialog DEF PagesInv
    <2>4. q = form.opening => EditorOpen(dialog) /\ ~EditorOpen(dialog')
      BY <1>4, <2>1, OwnEditorCloses DEF PagesInv, FormInv
    <2>5. FormInv' /\ RoomInv' /\ SavesInv' /\ MadeInv' /\ SweptInv'
      <3>1. CASE EditorOpen(dialog') \/ ~EditorOpen(dialog)
        <4>1. form' = form /\ ended' = ended /\ q # form.opening
          BY <2>1, <2>4, <3>1 DEF Shut
        <4>2. EditorOpen(dialog') <=> EditorOpen(dialog)
          BY <2>3, <3>1 DEF EditorOpen
        <4>3. \A o \in Opening : failed'[o] >= failed[o] /\ failed'[o] \in Nat
          BY <1>3, <2>2
        <4>4. QED
          BY <1>1, <1>2, <1>3, <2>3, <4>1, <4>2, <4>3, SavedKeepsForm
      <3>2. CASE ~EditorOpen(dialog') /\ EditorOpen(dialog)
        <4> DEFINE how == IF q = form.opening THEN "saved" ELSE "swept"
        <4>1. EndForm(how) /\ how \in End
          BY <1>7, <2>1, <3>2 DEF Shut, End
        <4>2. ASSUME NEW u \in CallSlot \ {s}, how = "saved", Saving(u)
              PROVE  calls[u].opening # form.opening
          BY <1>4, <4>2 DEF SavesOf
        <4>3. how = "swept" => \E p \in Opening : ended[p] = "cancelled" /\ tries[p] > 0
          <5>1. SUFFICES ASSUME q # form.opening
                PROVE \E p \in Opening : ended[p] = "cancelled" /\ tries[p] > 0
            OBVIOUS
          <5>2. ended[q] \in {"cancelled", "swept"} /\ tries[q] > 0
            BY <5>1 DEF PagesInv, SavesInv
          <5>3. QED
            BY <1>4, <5>2 DEF PagesInv, SweptInv
        <4>4. /\ {s} \in SUBSET CallSlot
              /\ \A u \in CallSlot \ {s} : calls'[u] = calls[u]
              /\ \A u \in {s} : ~Saving(u)' /\ ~Asking(u)'
          BY <1>2, NoneSentCall DEF FreedAt, Only
        <4> HIDE DEF how
        <4>5. QED
          BY <1>1, <1>3, <2>2, <2>3, <3>2, <4>1, <4>2, <4>3, <4>4, EndKeeps
      <3>3. QED
        BY <3>1, <3>2
    <2>6. ShownInv'
      <3>1. ASSUME dialog'.editing # None, ~dialog'.creating
            PROVE  form' = form /\ ~dialog.creating
        <4>1. EditorOpen(dialog') /\ dialog' # NoDialog
          BY <3>1 DEF EditorOpen, NoDialog
        <4>2. form' = form
          BY <2>1, <4>1 DEF Shut
        <4>3. dialog.editing # None
          BY <2>3, <3>1
        <4>4. Now.closes \in {"all", "same", "own"}
          BY NowFits DEF PagesInv, PagesTypeOK, PageOK
        <4>5. CASE Now.closes = "same"
          BY <4>2, <4>3, <4>5 DEF PagesInv, FormInv
        <4>6. CASE Now.closes \in {"all", "own"}
          <5>1. dialog' = dialog
            BY <2>1, <4>1, <4>6 DEF ClosedBy, Close
          <5>2. QED
            BY <3>1, <4>2, <5>1
        <4>7. QED
          BY <4>4, <4>5, <4>6
      <3>2. QED
        BY <1>2, <1>3, <2>3, <3>1, SavedShown
    <2>7. QED
      BY <1>1, <1>5, <2>5, <2>6 DEF PagesInv
  <1>8. QED
    BY <1>6, <1>7

LEMMA HearKeeps == ASSUME PagesInv, NEW s \in CallSlot, Hear(s) PROVE PagesInv'
  <1>1. CASE HearDetail(s)
    BY <1>1, HearDetailKeeps
  <1>2. CASE HearOperation(s)
    BY <1>2, HearOperationKeeps
  <1>3. CASE HearDerivation(s)
    BY <1>3, HearDerivationKeeps
  <1>4. CASE HearSave(s)
    <2>1. Saving(s)
      BY <1>4 DEF HearSave, Saving
    <2>2. PagesTypeOK
      BY DEF PagesInv
    <2>3. QED
      BY <1>4, <2>1, <2>2, HearSaveSplit, OnAnswerKeeps, MoreKeeps
  <1>5. QED
    BY <1>1, <1>2, <1>3, <1>4 DEF Hear

-----------------------------------------------------------------------------
(* The invariant *)

LEMMA PagesStart == PagesInit => PagesInv
  <1> SUFFICES ASSUME PagesInit PROVE PagesInv
    OBVIOUS
  <1>1. PagesTypeOK
    BY PagesStartTyped
  <1>2. /\ \A s \in CallSlot : calls[s] = NoneSent
        /\ form.opening = 0 /\ form.base = None /\ ~form.typed
        /\ ~dialog.creating /\ dialog.editing = None
        /\ \A o \in Opening : made[o] = 0 /\ failed[o] = 0 /\ ended[o] = "never"
        /\ \A d \in Doc : doc[d].by = d
    BY DEF PagesInit, NoForm, NoDialog
  <1>3. \A s \in CallSlot : ~Saving(s) /\ ~Asking(s) /\ calls[s].at = "off"
    BY <1>2, NoneSentFields DEF Saving, Saves, Asking
  <1>4. CallsInv /\ FreshPressAccepted
    BY <1>2, <1>3, NoneSentFields DEF CallsInv, CallOf, Details, FreshPressAccepted
  <1>5. FormInv
    BY <1>2, BoundAssumption DEF FormInv, EditorOpen, Opening
  <1>6. RoomInv
    <2>1. AskSet = {}
      BY <1>3 DEF AskSet
    <2>2. QED
      BY <1>1, <2>1, SetsFinite, FS_EmptySet DEF RoomInv
  <1>7. SavesInv /\ SweptInv
    BY <1>2, <1>3 DEF SavesInv, SweptInv
  <1>8. MadeInv
    BY <1>2, <1>3 DEF MadeInv
  <1>9. ShownInv
    <2>1. \A s \in CallSlot : calls[s].op # "patch"
      BY <1>3 DEF Saving, Saves
    <2>2. QED
      BY <1>2, <1>3, <2>1 DEF ShownInv, SavedWhereShown
  <1>10. QED
    BY <1>1, <1>4, <1>5, <1>6, <1>7, <1>8, <1>9 DEF PagesInv

LEMMA PagesStep == PagesInv /\ [PagesNext]_pagesVars => PagesInv'
  <1> SUFFICES ASSUME PagesInv, [PagesNext]_pagesVars PROVE PagesInv'
    OBVIOUS
  <1>1. CASE AskList \/ ReadList \/ ListArrives \/ ListFails
    BY <1>1, ListKeeps
  <1>2. CASE OpenNew
    BY <1>2, OpenNewKeeps
  <1>3. CASE Cancel
    BY <1>3, CancelKeeps
  <1>4. CASE \E d \in Doc, op \in OfPage : OpenRow(d, op) \/ Others(d, op)
    BY <1>4, OpenRowKeeps, OthersKeep
  <1>5. CASE \E s \in CallSlot :
                Submit(s) \/ Derive(s) \/ Serve(s) \/ Lose(s) \/ Hear(s)
    BY <1>5, SubmitKeeps, DeriveKeeps, ServeKeeps, LoseKeeps, HearKeeps
  <1>6. CASE \E s \in CallSlot, d \in Doc, op \in OfPage :
                AskDetail(s, d, op) \/ Press(s, d, op)
    <2>1. OfPage \subseteq Operations
      <3> DEFINE all == UNION {DOMAIN PageOf[p].steps : p \in Pages}
                 rest == {"view", "convert", "invoice"}
      <3>1. page \in Pages
        BY DEF PagesInv, PagesTypeOK
      <3>2. DOMAIN Now.steps \in {DOMAIN PageOf[p].steps : p \in Pages}
        BY <3>1 DEF Now
      <3>3. DOMAIN Now.steps \subseteq all
        BY <3>2, Zenon
      <3>4. OfPage = DOMAIN Now.steps \cup rest /\ Operations = all \cup rest
        BY DEF OfPage, Operations
      <3> HIDE DEF all, rest
      <3>5. QED
        BY <3>3, <3>4
    <2>2. QED
      BY <1>6, <2>1, AskKeeps, PressKeeps
  <1>7. CASE UNCHANGED pagesVars
    <2>1. /\ page' = page /\ doc' = doc /\ version' = version /\ list' = list /\ fetch' = fetch
          /\ SameEditor /\ calls' = calls /\ hasty' = hasty /\ tries' = tries
          /\ made' = made /\ failed' = failed /\ dialog' = dialog
      BY <1>7 DEF pagesVars, serverVars, listVars, dialogVars, saveVars, history, SameEditor
    <2>2. form' = form /\ ended' = ended
      BY <1>7 DEF pagesVars, dialogVars
    <2>3. PagesTypeOK'
      BY <2>1, <2>2, Untouched, TypeParts DEF PagesInv
    <2>4. QED
      BY <2>1, <2>3, StillKeeps DEF PagesInv
  <1>8. CASE PartStep
    BY <1>8, PartKeeps
  <1>9. QED
    BY <1>1, <1>2, <1>3, <1>4, <1>5, <1>6, <1>7, <1>8 DEF PagesNext, PartStep

LEMMA PagesKeepInv == PagesSpec => []PagesInv
  BY PagesStart, PagesStep, PTL DEF PagesSpec

\* Values are saved in the document they were shown for, unless a second
\* document to edit was asked for before the answer to the first.
THEOREM ValuesSavedWhereShown == PagesSpec => []SavedWhereShown
  <1>1. PagesInv => SavedWhereShown
    BY DEF PagesInv, ShownInv, SavedWhereShown
  <1>2. QED
    BY <1>1, PagesKeepInv, PTL

\* The button of a row is refused only if the document has changed its status
\* since the row was shown, or its user lacks the permission, whatever buttons,
\* answers and changes of others come in between.
THEOREM FreshPressesAccepted == PagesSpec => []FreshPressAccepted
  <1>1. PagesInv => FreshPressAccepted
    BY DEF PagesInv
  <1>2. QED
    BY <1>1, PagesKeepInv, PTL

\* An editor creates its document once, unless a save that the user saw fail
\* had created it and no number of the document stops the next one.
THEOREM CreatedOnlyOnce == PagesSpec => []CreatedOnce
  <1>1. ASSUME PagesInv PROVE CreatedOnce
    <2>1. made \in [Opening -> Nat] /\ Now.numbered \in BOOLEAN
      BY <1>1, NowFits DEF PagesInv, PagesTypeOK, PageOK
    <2>2. QED
      BY <1>1, <2>1 DEF PagesInv, MadeInv, CreatedOnce
  <1>2. QED
    BY <1>1, PagesKeepInv, PTL

\* How a step leaves the editor: as it was, new on a page without one, gone, or
\* with another part filled.
EditorStep ==
    \/ form' = form /\ ended' = ended
    \/ form.opening = 0 /\ \E o \in Opening : ended' = [ended EXCEPT ![o] = "open"]
    \/ tries' = tries /\ \E how \in End : EndForm(how)
    \/ PartStep /\ ended' = ended

LEMMA MountedStep ==
    ASSUME PagesInv, NEW d \in Doc \cup {None}, ~EditorOpen(dialog), Unopened # {},
           Mounted(d)
    PROVE  EditorStep
  <1>1. form.opening = 0
    BY DEF PagesInv, FormInv
  <1>2. \E o \in Opening : ended' = [ended EXCEPT ![o] = "open"]
    BY FormMounted DEF PagesInv
  <1>3. QED
    BY <1>1, <1>2 DEF EditorStep

LEMMA EditorSteps == ASSUME PagesInv, PagesNext PROVE EditorStep
  <1>1. CASE \/ AskList \/ ReadList \/ ListArrives \/ ListFails
             \/ \E d \in Doc, op \in OfPage : Others(d, op)
             \/ \E s \in CallSlot : Submit(s) \/ Derive(s) \/ Serve(s) \/ Lose(s)
             \/ \E s \in CallSlot, d \in Doc, op \in OfPage :
                    AskDetail(s, d, op) \/ Press(s, d, op)
    <2>1. form' = form /\ ended' = ended
      BY <1>1 DEF AskList, ReadList, ListArrives, ListFails, Others, Submit, Derive, Serve,
                  Lose, AskDetail, Press, dialogVars
    <2>2. QED
      BY <2>1 DEF EditorStep
  <1>2. CASE OpenNew
    <2>1. Unopened # {} /\ Mounted(None) /\ ~EditorOpen(dialog)
      BY <1>2, MayOpenMeans DEF OpenNew, PagesInv, Covered
    <2>2. QED
      BY <2>1, MountedStep
  <1>3. CASE \E d \in Doc, op \in OfPage : OpenRow(d, op)
    <2>1. PICK d \in Doc, op \in OfPage : OpenRow(d, op)
      BY <1>3
    <2>2. CASE MayOpen /\ Mounted(d)
      <3>1. Unopened # {} /\ ~EditorOpen(dialog)
        BY <2>1, <2>2, MayOpenMeans DEF OpenRow, PagesInv, Covered
      <3>2. QED
        BY <2>2, <3>1, MountedStep
    <2>3. CASE form' = form /\ ended' = ended
      BY <2>3 DEF EditorStep
    <2>4. QED
      BY <2>1, <2>2, <2>3 DEF OpenRow
  <1>4. CASE Cancel
    <2>1. tries' = tries
      BY <1>4 DEF Cancel, saveVars
    <2>2. (form' = form /\ ended' = ended) \/ EndForm("cancelled")
      BY <1>4 DEF Cancel
    <2>3. QED
      BY <2>1, <2>2 DEF EditorStep, End
  <1>5. CASE PartStep
    BY <1>5, PartMeans DEF EditorStep, PagesInv
  <1>6. CASE \E s \in CallSlot : Hear(s)
    <2>1. PICK s \in CallSlot : Hear(s)
      BY <1>6
    <2>2. CASE HearDetail(s)
      <3>1. calls[s].doc \in Doc
        BY <2>2 DEF HearDetail, PagesInv, CallsInv, CallOf
      <3>2. CASE Asking(s) /\ ~EditorOpen(dialog) /\ Mounted(calls[s].doc)
        <4>1. Unopened # {}
          BY <3>2, AskedMayOpen DEF PagesInv
        <4>2. QED
          BY <3>1, <3>2, <4>1, MountedStep
      <3>3. CASE form' = form /\ ended' = ended
        BY <3>3 DEF EditorStep
      <3>4. QED
        BY <2>2, <3>2, <3>3 DEF HearDetail, Details, Asking, dialogVars
    <2>3. CASE HearOperation(s) \/ HearDerivation(s)
      BY <2>3 DEF HearOperation, HearDerivation, dialogVars, EditorStep
    <2>4. CASE HearSave(s)
      <3>1. tries' = tries
        BY <2>4 DEF HearSave, OnAnswer, saveVars
      <3>2. (form' = form /\ ended' = ended) \/ EndForm("saved") \/ EndForm("swept")
        BY <2>4 DEF HearSave, OnAnswer, Shut, dialogVars
      <3>3. QED
        BY <3>1, <3>2 DEF EditorStep, End
    <2>5. QED
      BY <2>1, <2>2, <2>3, <2>4 DEF Hear
  <1>7. QED
    BY <1>1, <1>2, <1>3, <1>4, <1>5, <1>6 DEF PagesNext, PartStep

\* An editor that goes without its Cancel or its own success goes with the
\* success of one that was cancelled.
LEMMA SweptStep ==
    ASSUME PagesInv, SweptInv', EditorStep, NEW o \in Opening,
           ended[o] # "swept", ended'[o] = "swept"
    PROVE  \E p \in Opening : ended[p] = "cancelled" /\ tries[p] > 0
  <1>1. /\ ended \in [Opening -> {"never", "open"} \cup End]
        /\ form.opening \in {0} \cup Opening
    BY DEF PagesInv, PagesTypeOK, FormRecord
  <1>2. ended' # ended
    OBVIOUS
  <1>3. ~\E p \in Opening : ended' = [ended EXCEPT ![p] = "open"]
    BY <1>1
  <1>4. PICK how \in End : tries' = tries /\ EndForm(how)
    BY <1>2, <1>3 DEF EditorStep
  <1>5. form.opening \in Opening /\ ended' = [ended EXCEPT ![form.opening] = how]
    BY <1>1, <1>2, <1>4 DEF EndForm
  <1>6. o = form.opening /\ how = "swept"
    BY <1>1, <1>5
  <1>7. PICK p \in Opening : ended'[p] = "cancelled" /\ tries'[p] > 0
    BY DEF SweptInv
  <1>8. p # form.opening /\ ended'[p] = ended[p]
    BY <1>1, <1>5, <1>6, <1>7
  <1>9. QED
    BY <1>4, <1>7, <1>8

\* What was typed in the part that an answer fills.
LEMMA TypedStep ==
    ASSUME PagesInv, EditorStep, form.typed, ~form'.typed
    PROVE  \/ ended'[form.opening] \in {"cancelled", "saved", "swept"}
           \/ form.due /\ ~form'.due
           \/ Return \/ SavePart
  <1>1. /\ form.opening # 0 /\ form.opening \in Opening /\ form \in FormRecord
        /\ ended \in [Opening -> {"never", "open"} \cup End]
    BY DEF PagesInv, FormInv, PagesTypeOK, FormRecord
  <1>2. CASE \E how \in End : EndForm(how)
    BY <1>1, <1>2 DEF EndForm, End
  <1>3. CASE TypePart \/ PartChanges
    <2>1. form'.typed
      BY <1>1, <1>3 DEF TypePart, PartChanges, ChangeForm, FormRecord
    <2>2. QED
      BY <2>1
  <1>4. CASE FillPart
    BY <1>1, <1>4 DEF FillPart, ChangeForm, FormRecord
  <1>5. QED
    BY <1>1, <1>2, <1>3, <1>4 DEF EditorStep, PartStep

\* What the user typed goes away with a Cancel or with its own success, unless
\* an editor was cancelled while its save was in flight.  The part of a form
\* that an answer fills also goes away with an answer that is the first or says
\* something else, and the prices of a product on coming back to their tab or
\* with their own save.
THEOREM InputStays == PagesSpec => InputKept
  <1>1. ASSUME PagesInv, PagesInv', [PagesNext]_pagesVars
        PROVE  [/\ \A o \in Opening :
                      ended[o] # "swept" /\ ended'[o] = "swept" =>
                          \E p \in Opening : ended[p] = "cancelled" /\ tries[p] > 0
                /\ form.typed /\ ~form'.typed =>
                      \/ ended'[form.opening] \in {"cancelled", "saved", "swept"}
                      \/ form.due /\ ~form'.due
                      \/ Return \/ SavePart]_pagesVars
    <2>1. CASE PagesNext
      <3>1. EditorStep /\ SweptInv'
        BY <1>1, <2>1, EditorSteps DEF PagesInv
      <3>2. QED
        BY <1>1, <3>1, SweptStep, TypedStep
    <2>2. CASE UNCHANGED pagesVars
      BY <2>2
    <2>3. QED
      BY <1>1, <2>1, <2>2
  <1>2. QED
    BY <1>1, PagesKeepInv, PTL DEF PagesSpec, InputKept
=============================================================================
