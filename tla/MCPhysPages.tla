---------------------------- MODULE MCPhysPages ----------------------------
(* A small machine: five frames, one slot per table page, a region of four  *)
(* slots, so that tables fill up, grow by one and by two pages, run into   *)
(* unmapped slots and hit the end of the region.                           *)
EXTENDS PhysPages

CONSTANT LastFrame

MCFrames == 1 .. LastFrame

\* Tables init_mmap may leave: one range (a table of one slot holds no more).
MCInitTables == {<<memory_range(1, LastFrame)>>}
=============================================================================
