--------------------------- MODULE MCBulkImport ---------------------------
(***************************************************************************)
(* Instances of BulkImport.  The photos twin1 and twin2 show the same      *)
(* image; torn is damaged, and alone larger than a batch may be.           *)
(***************************************************************************)
EXTENDS BulkImport, TLC

CONSTANTS twin1, twin2, torn

MCSizeOf == [f \in Files |-> IF f = torn THEN 3 ELSE 1]
MCImageOf == [f \in Files |-> IF f \in {twin1, twin2} THEN "same" ELSE "other"]

(* Duplicates in one batch, before and after the large file, and in two. *)
MCSelections == {<<twin1, twin2, torn>>, <<torn, twin1, twin2>>, <<twin1, torn, twin2>>}
============================================================================
