----------------------------- MODULE MCAccounts -----------------------------
(* Small instances of Accounts for TLC.                                    *)
EXTENDS Accounts

CONSTANTS i1, i2, i3, alice, bob, root

MCIds == {i1, i2, i3}

Account(who, name, role) == [who |-> who, name |-> name, role |-> role, tv |-> 0]

Table(first, second) ==
    [id \in Ids |-> CASE id = i1 -> first [] id = i2 -> second [] OTHER -> None]

Root == Account(root, "superadmin_user", "superadmin")

(* The break-glass superadmin; or, before anyone used that login, alice,   *)
(* whose user name at the identity provider is the same.                   *)
RootOrNamesake ==
    {Table(Root, None), Table(Account(alice, "superadmin_user", "admin"), None)}

(* Both are superadmins: root promoted alice. *)
TwoSuperadmins == {Table(Root, Account(alice, "other", "superadmin"))}
=============================================================================
