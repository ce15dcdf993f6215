------------------------------- MODULE MCAccess -------------------------------
(* Two roles and two branches; each slot serves one request. *)
EXTENDS Access, Permissions, TLC

CONSTANTS r1, r2, q1, q2, q3, all, b1, b2

MCRole == {r1, r2}
MCReq == {q1, q2, q3}
MCPermission == {all}
MCBranch == {b1, b2}
MCSymmetry == Permutations(MCReq)

MCOps ==
    [kind : {"replace"}, set : {"roles"}, items : SUBSET Role]
        \cup [kind : {"replace"}, set : {r1}, items : SUBSET Permission]
        \cup [kind : {"replace"}, set : {"branches"}, items : {{b1}, {b2}, Branch},
              default : {Keep, b1}]
        \cup [kind : {"default"}, default : {b1, Null}]
        \cup [kind : {"countRoles"}, item : {r1}]
        \cup [kind : {"dropBranch"}, item : {b1}]
=============================================================================
