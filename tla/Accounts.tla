------------------------------- MODULE Accounts -------------------------------
(***************************************************************************)
(* One account of the api and its sessions (auth.service.ts, and what      *)
(* users.service.ts does to the password and the sessions of a user):      *)
(* login with its counter of failed attempts, refresh, logout, change and  *)
(* reset of the password, update and removal by an administrator.          *)
(*                                                                         *)
(* Requests interleave statement by statement; a password is compared with *)
(* the row read before.  A session is a row of refresh_token.  Left out:   *)
(* signatures and hashes (a token is its row), names, mails, the policy a  *)
(* new password must meet, other accounts.                                 *)
(***************************************************************************)
EXTENDS Integers, FiniteSets

CONSTANTS Req,          \* request slots of the api
          Password,
          FirstPassword,
          MaxAttempts   \* AUTH_MAX_FAILED_ATTEMPTS

ASSUME AccountsAssumption ==
    /\ MaxAttempts \in Nat \ {0}
    /\ FirstPassword \in Password /\ 0 \notin Password

Null == 0

\* What may be asked: an update changes the password or the active flag.
Operation ==
    [kind : {"login"}, pw : Password] \cup [kind : {"forgot", "remove"}]
      \cup [kind : {"change"}, old : Password, new : Password]
      \cup [kind : {"update"}, new : {Null}, active : BOOLEAN]
      \cup [kind : {"update", "reset"}, new : Password]
      \cup [kind : {"refresh", "logout"}, id : Nat]

VARIABLES account,  \* app_user: [pw, tries, locked, active, gone], and as
                    \* history: ver (passwords so far), fails (attempts failed
                    \* since the last reset), raced (a counter was written
                    \* from an older reading), lapsed (a lock has expired)
          session,  \* refresh_token by id: [revoked], and as history ver (the
                    \* password its login read) and late (no longer current)
          reset,    \* the latest password_reset_token: "live" or "used";
                    \* earlier ones, which stay valid, are left out
          req,      \* by slot: [pc, op, row, id]
          cut       \* history: a request died before it revoked the sessions
accountVars == <<account, session, reset, req, cut>>

Ids == DOMAIN session
NoRow == [tries |-> 0, ver |-> 0]
Quiet == [pc |-> "idle", op |-> [kind |-> "none"], row |-> NoRow, id |-> Null]

Op(r) == req[r].op
At(r, pc) == req[r].pc = pc
Goto(r, pc) == req' = [req EXCEPT
    ![r].pc = pc, ![r].row = IF pc \in {"done", "failed"} THEN NoRow ELSE @]
Fail(r) == Goto(r, "failed")
Answered(r) == req[r].pc \in {"done", "failed"}

Live(i) == i \in Ids /\ ~session[i].revoked
RevokeAll == session' = [i \in Ids |-> [session[i] EXCEPT !.revoked = TRUE]]

Pc == {"idle", "user", "miss", "counters", "issue", "refresh", "logout",
       "password", "update", "remove", "revoke", "mail", "token", "reset",
       "done", "failed"}

AccountsTypeOK ==
    /\ account \in [pw : Password, tries : Nat, locked : BOOLEAN, active : BOOLEAN,
                    gone : BOOLEAN, ver : Nat, fails : Nat, raced : BOOLEAN,
                    lapsed : BOOLEAN]
    /\ Ids \subseteq Nat /\ IsFiniteSet(Ids)
    /\ session \in [Ids -> [revoked : BOOLEAN, ver : Nat, late : BOOLEAN]]
    /\ reset \in {"live", "used"}
    /\ req \in [Req -> [pc : Pc, op : Operation \cup {[kind |-> "none"]},
                        row : [tries : Nat, ver : Nat], id : Nat]]
    /\ cut \in BOOLEAN

-----------------------------------------------------------------------------
\* Where each request begins.
Entry(op) == CASE op.kind = "refresh" -> "refresh"
               [] op.kind = "logout" -> "logout"
               [] op.kind = "reset" -> "token"
               [] OTHER -> "user"
Start(r, op) ==
    /\ At(r, "idle")
    /\ req' = [req EXCEPT ![r] = [Quiet EXCEPT !.pc = Entry(op), !.op = op]]

\* What the row must be for the request to go on, and where it goes.
Admits(op) ==
    CASE op.kind = "login" -> account.active /\ ~account.gone /\ ~account.locked
      [] op.kind = "change" -> /\ ~account.gone /\ account.pw = op.old
                               /\ op.new # op.old
      [] op.kind = "forgot" -> account.active /\ ~account.gone
      [] OTHER -> ~account.gone
After(op) == CASE op.kind = "login" ->
                      IF op.pw = account.pw THEN "counters" ELSE "miss"
               [] op.kind = "change" -> "password"
               [] op.kind = "forgot" -> "mail"
               [] OTHER -> op.kind

\* findCandidateUser, findUnique, findFirst; then the password is compared.
ReadUser(r) ==
    /\ At(r, "user")
    /\ IF ~Admits(Op(r)) THEN Fail(r)
       ELSE req' = [req EXCEPT
                ![r].pc = After(Op(r)),
                ![r].row = [tries |-> account.tries, ver |-> account.ver]]
    /\ UNCHANGED <<account, session, reset, cut>>

RegisterLate(r) ==                                             \* faulty
    /\ At(r, "miss")
    /\ LET next == req[r].row.tries + 1
       IN  account' = [account EXCEPT
               !.tries = next, !.locked = @ \/ next > MaxAttempts,
               !.fails = @ + 1, !.lapsed = FALSE,
               !.raced = @ \/ account.tries # req[r].row.tries]
    /\ Fail(r)
    /\ UNCHANGED <<session, reset, cut>>
\* registerFailedAttempt: one more than was read.
RegisterFailedAttempt(r) ==
    /\ At(r, "miss")
    /\ LET next == req[r].row.tries + 1
       IN  account' = [account EXCEPT
               !.tries = next, !.locked = @ \/ next >= MaxAttempts,
               !.fails = @ + 1, !.lapsed = FALSE,
               !.raced = @ \/ account.tries # req[r].row.tries]
    /\ Fail(r)
    /\ UNCHANGED <<session, reset, cut>>

Unlocked(a) == [a EXCEPT !.tries = 0, !.locked = FALSE,
                         !.fails = 0, !.raced = FALSE, !.lapsed = FALSE]
ResetCounters(r) ==
    /\ At(r, "counters")
    /\ account' = Unlocked(account)
    /\ Goto(r, "issue")
    /\ UNCHANGED <<session, reset, cut>>

IssueTokens(r) ==
    /\ At(r, "issue")
    /\ LET i == 1 + Cardinality(Ids)
       IN  /\ session' = [j \in Ids \cup {i} |->
                             IF j # i THEN session[j]
                             ELSE [revoked |-> FALSE, ver |-> req[r].row.ver,
                                   late |-> \/ account.ver # req[r].row.ver
                                            \/ account.gone]]
           /\ req' = [req EXCEPT ![r].pc = "done", ![r].row = NoRow,
                                    ![r].id = i]
    /\ UNCHANGED <<account, reset, cut>>

\* The row of the session is read, and no other: not that of the user.  An
\* expired session is refused like a revoked one.
Refresh(r) ==
    /\ At(r, "refresh")
    /\ \/ Live(Op(r).id) /\ Goto(r, "done")
       \/ Fail(r)
    /\ UNCHANGED <<account, session, reset, cut>>

Logout(r) ==
    /\ At(r, "logout")
    /\ session' = [i \in Ids |-> [session[i] EXCEPT !.revoked = @ \/ i = Op(r).id]]
    /\ Goto(r, "done")
    /\ UNCHANGED <<account, reset, cut>>

-----------------------------------------------------------------------------
(* Passwords, updates and removal: the row first, its sessions next *)

Repassword(a, pw) == [a EXCEPT !.pw = pw, !.ver = @ + 1]

ChangePassword(r) ==
    /\ At(r, "password")
    /\ account' = Repassword(account, Op(r).new)
    /\ Goto(r, "revoke")
    /\ UNCHANGED <<session, reset, cut>>

UpdateKeepsSessions(r) ==                                      \* faulty
    /\ At(r, "update")
    /\ account' = IF Op(r).new = Null
                  THEN [account EXCEPT !.active = Op(r).active]
                  ELSE Unlocked(Repassword(account, Op(r).new))
    /\ Goto(r, "done")
    /\ UNCHANGED <<session, reset, cut>>
\* UsersService.update with a password, which also unlocks, or with isActive,
\* which leaves the sessions alone.
UpdateUser(r) ==
    /\ At(r, "update")
    /\ IF Op(r).new = Null
       THEN /\ account' = [account EXCEPT !.active = Op(r).active]
            /\ Goto(r, "done")
       ELSE /\ account' = Unlocked(Repassword(account, Op(r).new))
            /\ Goto(r, "revoke")
    /\ UNCHANGED <<session, reset, cut>>

RemoveUser(r) ==
    /\ At(r, "remove")
    /\ account' = [account EXCEPT !.gone = TRUE]
    /\ Goto(r, "revoke")
    /\ UNCHANGED <<session, reset, cut>>

Revoke(r) ==
    /\ At(r, "revoke")
    /\ RevokeAll
    /\ Goto(r, "done")
    /\ UNCHANGED <<account, reset, cut>>

ForgotPassword(r) ==
    /\ At(r, "mail")
    /\ reset' = "live"
    /\ Goto(r, "done")
    /\ UNCHANGED <<account, session, cut>>

\* The token is checked by itself, and may expire.
ReadResetToken(r) ==
    /\ At(r, "token")
    /\ \/ reset = "live" /\ Goto(r, "reset")
       \/ Fail(r)
    /\ UNCHANGED <<account, session, reset, cut>>

\* Password, counters, token and sessions in one transaction, of a removed
\* user too.
ResetPassword(r) ==
    /\ At(r, "reset")
    /\ account' = Unlocked(Repassword(account, Op(r).new))
    /\ reset' = "used"
    /\ RevokeAll
    /\ Goto(r, "done")
    /\ UNCHANGED cut

\* The lock runs out.
LockExpires ==
    /\ account.locked
    /\ account' = [account EXCEPT !.locked = FALSE, !.lapsed = TRUE]
    /\ UNCHANGED <<session, reset, req, cut>>

\* The request dies between two statements, or before it revokes the session
\* it was to revoke; anywhere else it is as if it had been refused.
Abort(r) ==
    /\ req[r].pc \in {"logout", "issue", "revoke"}
    /\ Fail(r)
    /\ cut' = (cut \/ At(r, "revoke"))
    /\ UNCHANGED <<account, session, reset>>

-----------------------------------------------------------------------------
AccountsInit ==
    /\ account = [pw |-> FirstPassword, tries |-> 0, locked |-> FALSE,
                  active |-> TRUE, gone |-> FALSE, ver |-> 0, fails |-> 0,
                  raced |-> FALSE, lapsed |-> FALSE]
    /\ session = [i \in {} |-> {}]
    /\ reset = "live"
    /\ req = [r \in Req |-> Quiet]
    /\ cut = FALSE

Statement(r) ==
    \/ ReadUser(r) \/ RegisterFailedAttempt(r) \/ ResetCounters(r)
    \/ IssueTokens(r) \/ Refresh(r) \/ Logout(r)
    \/ ChangePassword(r) \/ UpdateUser(r) \/ RemoveUser(r) \/ Revoke(r)
    \/ ForgotPassword(r) \/ ReadResetToken(r) \/ ResetPassword(r)

-----------------------------------------------------------------------------
(* Properties *)

\* A session that still works was opened with the current password of a user
\* who is still there, unless its login was overtaken by the change, or the
\* change has not come to its second statement, or died before it.
LiveSessionsCurrent ==
    \A i \in Ids :
        Live(i) =>
            \/ session[i].ver = account.ver /\ ~account.gone
            \/ session[i].late
            \/ cut
            \/ \E r \in Req : At(r, "revoke")

\* The counter counts the failed attempts, and the account is locked when
\* they are MaxAttempts until the lock expires, unless two overlapped.
AttemptsLock ==
    ~account.raced =>
        /\ account.tries = account.fails
        /\ account.fails >= MaxAttempts => account.locked \/ account.lapsed

\* A request is where its kind can be.
PlaceOf(r) ==
    /\ At(r, "user") => Op(r).kind \in {"login", "change", "forgot", "update", "remove"}
    /\ At(r, "password") => Op(r).kind = "change"
    /\ At(r, "update") => Op(r).kind = "update"
    /\ req[r].pc \in {"token", "reset"} => Op(r).kind = "reset"

\* The inductive invariant behind the two.
AccountsInv ==
    /\ AccountsTypeOK
    /\ \A r \in Req : PlaceOf(r)
    /\ LiveSessionsCurrent
    /\ AttemptsLock
=============================================================================
