--------------------------- MODULE MCVirtMappings ---------------------------
(* A space of a few pages of two units, and requests of one and two pages, *)
(* aligned and not.                                                        *)
EXTENDS VirtMappings

MCRequests == {[paddr |-> 20, size |-> 2], [paddr |-> 31, size |-> 1], [paddr |-> 41, size |-> 2]}
=============================================================================
