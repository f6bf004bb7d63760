--------------------------- MODULE MCUploadStore ---------------------------
(***************************************************************************)
(* Instances of UploadStore: one or two properties, and the meter m1 of   *)
(* p1.  ann is administrator of p1; bob is manager of p1 and administrator *)
(* of p2; root is a global admin.  Every file holds the same picture, so   *)
(* that the duplicate check and the index always have something to decide. *)
(***************************************************************************)
EXTENDS UploadStore, TLC

CONSTANTS p1, p2, m1, ann, bob, root, f1, f2

MCPropertyOfOne == [m \in Meters |-> p1]

MCRole ==
    [p \in Properties |-> [u \in Users |->
        CASE u = ann -> IF p = p1 THEN "admin" ELSE "none"
          [] u = bob -> IF p = p1 THEN "manager" ELSE "admin"
          [] OTHER -> "none"]]

MCImageOf == [f \in Files |-> CHOOSE i \in Images : TRUE]

Request(u, m, f, s) == [user |-> u, meter |-> m, image |-> f, serial |-> s, rid |-> 0]

(* Both tenants scan, bob without a meter.  ann attaches her photo, and    *)
(* tries bob's as its serial crop; bob attaches hers, a file of p1, as a   *)
(* serial crop in p1: two references to one file.                          *)
TenantScans == {Request(ann, m1, f1, None), Request(bob, None, f2, None)}
TenantCreates ==
    {Request(ann, m1, f1, None), Request(bob, m1, None, f1), Request(ann, m1, f1, f2)}

(* One global admin: a scan with a serial crop, and a reading with both. *)
RootScans == {Request(root, m1, f1, f2), Request(root, None, f1, None)}
RootCreates == {Request(root, m1, f1, f2), Request(root, m1, f1, None),
                Request(root, m1, None, None)}

Threads == Permutations(Workers)
============================================================================
