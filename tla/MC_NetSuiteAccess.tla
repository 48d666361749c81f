-------------------------- MODULE MC_NetSuiteAccess --------------------------
(* Bounds for the model-checking runs of NetSuiteAccess.                   *)
EXTENDS NetSuiteAccess, TLC
CONSTANTS o1, o2, o3, g1, g2

Address(gid, content) == [gid |-> gid, content |-> content]

(* One address for both kinds, one known and one new, and one without id.  *)
Brought ==
    (o1 :> [billing |-> Address(g1, "home"), shipping |-> Address(g1, "home")]) @@
    (o2 :> [billing |-> Address(g1, "home"), shipping |-> Address(g2, "work")]) @@
    (o3 :> [billing |-> Address(NoGid, "work"), shipping |-> NoAddress])

Error(status, concurrent, dataCode) ==
    [status |-> status, concurrent |-> concurrent, dataCode |-> dataCode]

Rejections ==
    {Error(0, FALSE, FALSE), Error(401, FALSE, FALSE), Error(429, TRUE, FALSE),
     Error(400, TRUE, FALSE), Error(400, FALSE, TRUE)}
=============================================================================
