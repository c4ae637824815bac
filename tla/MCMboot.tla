------------------------------ MODULE MCMboot ------------------------------
(***************************************************************************)
(* Small machines for TLC: page tables of three levels with two entries,   *)
(* and few runtime ranges.                                                 *)
(***************************************************************************)
EXTENDS Mboot, TLC

\* Pages 0 to 7 are what can be mapped, 8 to 12 hold the firmware's tables, and
\* the copies go to 16 and 22.  Page 4 belongs to a device.
Kinds ==
  [p \in 0 .. 29 |-> CASE p = 4 -> "mmio"
                       [] p = 7 -> "reserved"
                       [] p \in 13 .. 15 -> "hole"
                       [] OTHER -> "ram"]

\* Large and small pages; a read-only table above a writable page.
Deep == 8 :> <<Table(9, FALSE), Page(4, TRUE)>> @@
        9 :> <<Table(10, FALSE), Page(2, TRUE)>> @@
        10 :> <<Page(0, TRUE), Page(1, FALSE)>> @@
        11 :> <<NoEntry, NoEntry>> @@
        12 :> <<Page(6, TRUE), Page(7, FALSE)>>

Wide == [Deep EXCEPT ![8] = <<Table(9, TRUE), Table(11, FALSE)>>,
                     ![9] = <<Table(10, FALSE), NoEntry>>,
                     ![11] = <<NoEntry, Table(12, TRUE)>>]

\* Some with mappings that are no identity, an empty table before others, a
\* table outside RAM, a tree that loses a whole branch.
SmallTrees ==
  {Deep, Wide,
   [Deep EXCEPT ![8][2] = Table(13, FALSE),
                ![9] = <<Table(11, FALSE), Table(10, FALSE)>>,
                ![10] = <<Page(2, TRUE), Page(3, FALSE)>>],
   [Wide EXCEPT ![8] = <<Table(9, FALSE), Table(11, TRUE)>>,
                ![10][1] = Page(1, FALSE),
                ![11][1] = Page(4, TRUE)],
   [Wide EXCEPT ![12] = <<NoEntry, NoEntry>>]}

Rt(type, phys, num) ==
  [type |-> type, phys |-> phys, pages |-> num, runtime |-> type # "boot"]

\* Maps for the simple, sparse, compact and contiguous policies, in this order.
Maps == {
  <<Rt("code", 2, 1), Rt("boot", 3, 1), Rt("data", 5, 2), Rt("mmio", 9, 2)>>,
  <<Rt("data", 25, 2), Rt("code", 22, 1)>>,
  <<Rt("code", 30, 2), Rt("data", 20, 2), Rt("code", 24, 1), Rt("mmio", 60, 1)>>,
  <<Rt("data", 20, 4), Rt("code", 30, 4), Rt("mmio", 50, 2)>> }

Ranges == {Runtime(m) : m \in Maps}
=============================================================================
