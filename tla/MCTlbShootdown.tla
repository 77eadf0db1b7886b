--------------------------- MODULE MCTlbShootdown ---------------------------
(* Small machines for the shootdown protocol: two or three processors, one *)
(* or two pages.                                                           *)
EXTENDS TlbShootdown, TLC

CONSTANTS v1, v2

\* Everybody is past the barrier of __kernel_init.
AllUp == {[c \in Cpus |-> "joined"]}

\* The boot processor alone, its local APIC enabled, early in __kernel_bsp_init.
BootOnly == {[c \in Cpus |-> IF c = Boot THEN "enabled" ELSE "off"]}

AnyStart == AllUp \cup BootOnly

NoRegion == << >>
OneRegion == <<v1>>
TwoRegion == <<v1, v2>>

\* The application processors are interchangeable (safety runs only).
ApSymmetry == Permutations(Cpus \ {Boot})

\* Nothing is claimed of what follows a change that overlapped a start.
NotRaced == ~raced
=============================================================================
