----------------------------- MODULE MCCatalog ----------------------------
(***************************************************************************)
(* Instances of Catalog: root is a global admin, ann and bob administer    *)
(* p1 with the meter m1, bob is a user of p2 with m2, m3 can be created.   *)
(***************************************************************************)
EXTENDS Catalog, TLC

CONSTANTS root, ann, bob, p1, p2, m1, m2

MCFounding ==
    [p \in Properties |-> [u \in Users |->
        CASE p = p1 /\ u \in {ann, bob} -> "admin"
          [] p = p2 /\ u = bob -> "user"
          [] OTHER -> None]]

MCMeteredBy == [m \in Meters |-> CASE m = m1 -> p1 [] m = m2 -> p2 [] OTHER -> None]

Threads == Permutations(Workers)
============================================================================
