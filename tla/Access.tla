-------------------------------- MODULE Access --------------------------------
(***************************************************************************)
(* What a user may do and where (users.service.ts, roles.service.ts): the  *)
(* roles of a user, the permissions of the roles, the branches of the user *)
(* and the default one.  A set is replaced whole, by a batch that deletes  *)
(* the rows and inserts the new ones in one transaction; roles and         *)
(* branches may be removed, and take the rows that name them along.        *)
(*                                                                         *)
(* Requests interleave statement by statement, in READ COMMITTED, and a    *)
(* row is the item with the replacement that inserted it: the same item    *)
(* inserted again is another row.  A DELETE removes the rows its snapshot  *)
(* saw and nobody else did, after waiting for those another batch has      *)
(* deleted; what was inserted since its snapshot stays.  An INSERT waits   *)
(* for the same key of another batch, deleted or inserted, and fails if it *)
(* stays.  A batch may be the victim of a deadlock or lose its connection. *)
(* Left out: names and descriptions, other users and companies, passwords  *)
(* (module Accounts), warehouses (module Catalog).                         *)
(***************************************************************************)
EXTENDS Integers, FiniteSets

CONSTANTS Req, Role, Permission, AccessAll, Branch, Null, Keep,
          Operation   \* what a request may ask

\* What the controllers let through: the replacement of a set (Keep: no default
\* was sent), a new default, the removal of a role or of a branch.
Admitted ==
    [kind : {"replace"}, set : {"roles"}, items : SUBSET Role]
        \cup [kind : {"replace"}, set : Role, items : SUBSET Permission]
        \cup [kind : {"replace"}, set : {"branches"}, items : SUBSET Branch,
              default : Branch \cup {Null, Keep}]
        \cup [kind : {"default"}, default : Branch \cup {Null}]
        \cup [kind : {"countRoles"}, item : Role]
        \cup [kind : {"dropBranch"}, item : Branch]

ASSUME AccessAssumption ==
    /\ AccessAll \in Permission
    /\ Null \notin Branch /\ Keep \notin Branch \cup {Null}
    /\ Role \cap {"roles", "branches"} = {}
    /\ Operation \subseteq Admitted

VARIABLES held,     \* the sets: the rows of each owner, <<item, version>>
          role,     \* the roles that exist
          branch,   \* the branches that exist
          default,  \* app_user.default_branch_id
          req,      \* by slot: [pc, op, read, snap, gone] and as history the
                    \* clock of its first reading and the version of its set
          clock,    \* history: how many writes there have been
          version,  \* by owner, how many replacements: it names new rows
          asked,    \* history: by owner, what was asked last and still exists
          mixed,    \* history: owners whose last two replacements overlapped
          slack     \* history: the default was written from an older reading,
                    \* by the creation of the user, or lost its permission since
vars == <<held, role, branch, default, req, clock, version, asked, mixed, slack>>

\* The owners of a set: the user of its roles and of its branches, each role
\* of its permissions.
Owner == {"roles", "branches"} \cup Role

Idle == [pc |-> "idle", op |-> [kind |-> "none"],
         read |-> [default |-> Null, all |-> FALSE],
         snap |-> {}, gone |-> {}, clock |-> 0, version |-> 0]

Op(r) == req[r].op
At(r, pc) == req[r].pc = pc
Goto(r, pc) == req' = [req EXCEPT ![r].pc = pc]
Fail(r) == req' = [req EXCEPT ![r] = [Idle EXCEPT !.pc = "failed"]]
Done(r) == req' = [req EXCEPT ![r] = [Idle EXCEPT !.pc = "done"]]

Data == <<held, role, branch, default>>
History == <<clock, version, asked, mixed, slack>>

\* What a set of rows says, and the rows a batch inserts.
Items(rows) == {row[1] : row \in rows}
RowsOf(items, v) == {<<i, v>> : i \in items}

\* The join of PermissionsGuard, of me and of hasAccessAll.
Granted(h) == UNION {Items(h[x]) : x \in Items(h["roles"])}
Allowed(h, b) ==
    b = Null \/ b \in Items(h["branches"]) \/ AccessAll \in Granted(h)

\* A batch that has deleted and not committed, and those that hold a row, or
\* the key of one, that they deleted or inserted.
Writing(q, x) == req[q].pc \in {"insert", "commit"} /\ Op(q).set = x
Locked(r, x, rows) == \E q \in Req \ {r} : Writing(q, x) /\ rows \cap req[q].gone # {}
Deleting(r, x, items) ==
    \E q \in Req \ {r} : Writing(q, x) /\ items \cap Items(req[q].gone) # {}
Inserting(r, x, items) ==
    \E q \in Req \ {r} : /\ Writing(q, x) /\ At(q, "commit")
                         /\ items \cap Op(q).items # {}

-----------------------------------------------------------------------------
(* Readings *)

\* The items named exist, and so does the role whose permissions they are.
Named(op) == CASE op.set = "roles" -> op.items \subseteq role
               [] op.set = "branches" -> op.items \subseteq branch
               [] OTHER -> op.set \in role

Entry(op) == IF op.kind = "replace" THEN "check" ELSE op.kind

\* The user or the role is read, with the default.
Begin(r, op) ==
    /\ At(r, "idle")
    /\ req' = [req EXCEPT ![r] =
                   [pc |-> Entry(op), op |-> op,
                    read |-> [default |-> default, all |-> FALSE],
                    snap |-> {}, gone |-> {},
                    clock |-> clock, version |-> version["roles"]]]
    /\ UNCHANGED <<Data, History>>

\* An empty list of roles or permissions checks nothing, and reads nothing more.
CheckItems(r) ==
    /\ At(r, "check")
    /\ IF ~Named(Op(r)) THEN Fail(r)
       ELSE Goto(r, IF Op(r).set = "branches" THEN "accessAll" ELSE "snapshot")
    /\ UNCHANGED <<Data, History>>

\* hasAccessAll, for the branches or for the default alone.
HasAccessAll(r) ==
    /\ At(r, "accessAll")
    /\ req' = [req EXCEPT ![r].read = [@ EXCEPT !.all = AccessAll \in Granted(held)],
                          ![r].pc = IF Op(r).kind = "replace" THEN "resolve"
                                                               ELSE "allowed"]
    /\ UNCHANGED <<Data, History>>

ResolvedKept(r) ==                                             \* faulty
    IF Op(r).default = Keep THEN req[r].read.default ELSE Op(r).default
\* The default that replaceBranches leaves: the one asked for; or the one
\* read, unless it is outside the new branches and nothing lets it stay.
Resolved(r) ==
    LET old == req[r].read.default
    IN  IF Op(r).default # Keep THEN Op(r).default
        ELSE IF old # Null /\ ~req[r].read.all /\ old \notin Op(r).items
        THEN Null ELSE old

Resolve(r) ==
    /\ At(r, "resolve")
    /\ LET d == Op(r).default
       IN  IF /\ d \notin {Keep, Null}
              /\ d \in branch => ~req[r].read.all /\ d \notin Op(r).items
           THEN Fail(r) ELSE Goto(r, "snapshot")
    /\ UNCHANGED <<Data, History>>

\* PATCH with a default: the branch, then hasAccessAll, then the assignment.
CheckDefault(r) ==
    /\ At(r, "default")
    /\ IF Op(r).default = Null THEN Goto(r, "setDefault")
       ELSE IF Op(r).default \in branch THEN Goto(r, "accessAll") ELSE Fail(r)
    /\ UNCHANGED <<Data, History>>
AssertBranchAllowed(r) ==
    /\ At(r, "allowed")
    /\ IF req[r].read.all \/ Op(r).default \in Items(held["branches"])
       THEN Goto(r, "setDefault") ELSE Fail(r)
    /\ UNCHANGED <<Data, History>>

-----------------------------------------------------------------------------
(* Writes *)

Tick == clock' = clock + 1
\* A default written by r is as good as what r read.
Wrote(r) == slack' = (clock # req[r].clock)
\* Roles and permissions may take from the default what lets it stay.
Shaken == slack' = (slack \/ ~Allowed(held', default))

\* The DELETE of the batch takes its snapshot.
Snapshot(r) ==
    /\ At(r, "snapshot")
    /\ req' = [req EXCEPT ![r].snap = held[Op(r).set], ![r].pc = "delete",
                          ![r].version = version[Op(r).set]]
    /\ UNCHANGED <<Data, History>>

DeleteAtOnce(r) ==                                             \* faulty
    /\ At(r, "delete")
    /\ ~Locked(r, Op(r).set, req[r].snap)
    /\ held' = [held EXCEPT ![Op(r).set] = @ \ req[r].snap]
    /\ Goto(r, "insert")
    /\ UNCHANGED <<role, branch, default, History>>
\* The rows of the snapshot that are still there once the batches that had
\* deleted some have ended.
DeleteRows(r) ==
    /\ At(r, "delete")
    /\ ~Locked(r, Op(r).set, req[r].snap)
    /\ req' = [req EXCEPT ![r].gone = req[r].snap \cap held[Op(r).set],
                          ![r].pc = "insert"]
    /\ UNCHANGED <<Data, History>>

\* An item that does not exist any more, or whose key another row has, breaks
\* the batch (UserRole, UserBranch and RolePermission have no other key).
InsertRows(r) ==
    /\ At(r, "insert")
    /\ ~Deleting(r, Op(r).set, Op(r).items) /\ ~Inserting(r, Op(r).set, Op(r).items)
    /\ IF Named(Op(r)) /\ Op(r).items \cap Items(held[Op(r).set] \ req[r].gone) = {}
       THEN Goto(r, "commit") ELSE Fail(r)
    /\ UNCHANGED <<Data, History>>

\* The batch is rolled back: a victim of a deadlock, a lost connection.
Interrupt(r) ==
    /\ req[r].pc \in {"delete", "insert", "commit"}
    /\ Fail(r)
    /\ UNCHANGED <<Data, History>>

\* The commit, with the default of replaceBranches.
Commit(r) ==
    /\ At(r, "commit")
    /\ LET x == Op(r).set
       IN  /\ version' = [version EXCEPT ![x] = @ + 1]
           /\ held' = [held EXCEPT ![x] = (@ \ req[r].gone)
                                              \cup RowsOf(Op(r).items, version'[x])]
           /\ asked' = [asked EXCEPT ![x] = Op(r).items]
           /\ mixed' = IF version[x] = req[r].version THEN mixed \ {x}
                                                      ELSE mixed \cup {x}
           /\ IF x = "branches" THEN default' = Resolved(r) /\ Wrote(r)
                                ELSE Shaken /\ UNCHANGED default
    /\ Tick
    /\ Done(r)
    /\ UNCHANGED <<role, branch>>

SetDefault(r) ==
    /\ At(r, "setDefault")
    /\ IF Op(r).default \in branch \cup {Null}
       THEN default' = Op(r).default /\ Wrote(r) /\ Tick /\ Done(r)
       ELSE Fail(r) /\ UNCHANGED <<default, slack, clock>>
    /\ UNCHANGED <<held, role, branch, version, asked, mixed>>

CountNothing(r) ==                                             \* faulty
    /\ At(r, "countRoles")
    /\ Goto(r, "deleteRole")
    /\ UNCHANGED <<Data, History>>
\* RolesService.remove: refused while a user has the role.
CountUserRoles(r) ==
    /\ At(r, "countRoles")
    /\ IF Op(r).item \in role \ Items(held["roles"])
       THEN req' = [req EXCEPT ![r].pc = "deleteRole", ![r].version = version["roles"]]
       ELSE Fail(r)
    /\ UNCHANGED <<Data, History>>

\* The rows that name an item go with it.
Without(h, x, i) == [h EXCEPT ![x] = {row \in @ : row[1] # i}]
\* Nobody has deleted or inserted a row that names the item, or one of its own.
Unwritten(r, x, i) ==
    /\ ~Deleting(r, x, {i}) /\ ~Inserting(r, x, {i})
    /\ \A q \in Req \ {r} :
           Writing(q, i) => req[q].gone = {} /\ (At(q, "insert") \/ Op(q).items = {})

\* The assignments and the permissions of the role go with it.
DeleteRole(r) ==
    /\ At(r, "deleteRole")
    /\ LET i == Op(r).item
       IN  IF i \in role
           THEN /\ Unwritten(r, "roles", i)
                /\ role' = role \ {i}
                /\ held' = [Without(held, "roles", i) EXCEPT ![i] = {}]
                /\ asked' = [asked EXCEPT !["roles"] = @ \ {i}, ![i] = {}]
                /\ Shaken /\ Tick /\ Done(r)
           ELSE Fail(r) /\ UNCHANGED <<role, held, asked, slack, clock>>
    /\ UNCHANGED <<branch, default, version, mixed>>

\* BranchesService.remove of a branch without warehouses: it fails on the
\* default of a user, and takes assignments along.
DeleteBranch(r) ==
    /\ At(r, "dropBranch")
    /\ LET i == Op(r).item
       IN  IF i \in branch /\ i # default
           THEN /\ Unwritten(r, "branches", i)
                /\ \A q \in Req : At(q, "commit") /\ Op(q).set = "branches"
                                      => Resolved(q) # i
                /\ branch' = branch \ {i}
                /\ held' = Without(held, "branches", i)
                /\ asked' = [asked EXCEPT !["branches"] = @ \ {i}]
                /\ Tick /\ Done(r)
           ELSE Fail(r) /\ UNCHANGED <<branch, held, asked, clock>>
    /\ UNCHANGED <<role, default, version, mixed, slack>>

-----------------------------------------------------------------------------
\* UsersService.create takes any branch of the company for the default, and
\* assigns none.
Init ==
    /\ held = [x \in Owner |-> {}]
    /\ role = Role /\ branch = Branch
    /\ default \in Branch \cup {Null}
    /\ req = [r \in Req |-> Idle]
    /\ clock = 0
    /\ version = [x \in Owner |-> 0]
    /\ asked = [x \in Owner |-> {}]
    /\ mixed = {}
    /\ slack = (default # Null)

Statement(r) ==
    \/ CheckItems(r) \/ HasAccessAll(r) \/ Resolve(r)
    \/ CheckDefault(r) \/ AssertBranchAllowed(r)
    \/ Snapshot(r) \/ DeleteRows(r) \/ InsertRows(r) \/ Commit(r) \/ Interrupt(r)
    \/ SetDefault(r) \/ CountUserRoles(r) \/ DeleteRole(r) \/ DeleteBranch(r)

Next == \E r \in Req : Statement(r) \/ \E op \in Operation : Begin(r, op)
Spec == Init /\ [][Next]_vars

-----------------------------------------------------------------------------
(* Properties *)

\* Nothing of the set asked for last is missing, less what was removed since;
\* and there is nothing else in it, unless the last replacement overlapped the
\* one before: what that one inserted then stays.
SetsAreWhole ==
    \A x \in Owner : /\ asked[x] \subseteq Items(held[x])
                     /\ x \notin mixed => Items(held[x]) = asked[x]

\* The default branch is among the branches of the user or the user has
\* branch.access_all, unless it was written from an older reading, or given
\* at creation, or the permission went away since.
DefaultAllowed == ~slack => Allowed(held, default)

\* An assignment is lost to the removal of its role only if it was made after
\* the remover counted none.
AssignmentLostOnlyIfLate ==
    [][\A i \in Items(held["roles"]) :
           i \in role \ role' =>
               \E r \in Req : /\ At(r, "deleteRole") /\ Op(r).item = i
                              /\ req[r].version # version["roles"]]_vars
=============================================================================
