------------------------------ MODULE MCPaging ------------------------------
(* The instance of Paging that TLC checks. *)
EXTENDS Paging

E(b, n, t) == [base |-> b, len |-> n, type |-> t]
(* Frames 9 to 12 hold the boot loader's tables.  Memory suffices for       *)
(* everything in the first map and runs out at various points in the others; *)
(* in the third the frame records are where the direct map has small pages, *)
(* and in the last there is no place for them.                              *)
MCMemMaps == {
  <<E(0, 1, "reserved"), E(1, 8, "usable"), E(9, 4, "reclaimable"), E(13, 13, "usable")>>,
  <<E(0, 1, "reserved"), E(3, 4, "usable"), E(9, 4, "reclaimable"), E(13, 5, "usable")>>,
  <<E(1, 2, "usable"), E(3, 5, "usable"), E(8, 5, "reclaimable"), E(16, 2, "reserved")>>,
  <<E(0, 1, "usable"), E(9, 4, "reclaimable")>> }

(* The boot loader maps frames 0 to 26 directly, from page 27 on: the first *)
(* three page by page, the others with huge pages of three and of nine.     *)
MCBootTables ==
  [t \in 9 .. 12 |-> IF t = 9 THEN [i \in 0 .. 2 |-> IF i = 1 THEN 10 ELSE NONE]
                     ELSE IF t = 10 THEN [i \in 0 .. 2 |-> IF i = 0 THEN 11 ELSE 9 * i]
                     ELSE IF t = 11 THEN [i \in 0 .. 2 |-> IF i = 0 THEN 12 ELSE 3 * i]
                     ELSE [i \in 0 .. 2 |-> i]]
MCBootHuge == {<<10, 1>>, <<10, 2>>, <<11, 1>>, <<11, 2>>}

(* A region where the direct map begins, over small pages and a huge one,   *)
(* and others elsewhere; devices under each kind of huge page, and beyond.  *)
MCRegions == {<<27, 4>>, <<1, 3>>, <<5, 1>>}
MCDevices == {7, 20, 30}
=============================================================================
