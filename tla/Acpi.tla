-------------------------------- MODULE Acpi --------------------------------
(***************************************************************************)
(* kernel/acpi.c: init_acpi maps the root table of ACPI, get_acpi_table    *)
(* maps the header of one table after the other until a signature matches, *)
(* and then the whole table.  Lengths are read from a header before what   *)
(* it heads is mapped.                                                     *)
(***************************************************************************)
EXTENDS Naturals, Sequences

CONSTANTS RootTables,  \* what may lie at boot_inf.acpi_x_r_sdt: [signature, tables]
          Signature    \* the table init_pci looks for

VARIABLES acpi,    \* where init_acpi or get_acpi_table is
          root,    \* the root table: its signature and those of the tables it lists
          entry,   \* the index i of get_acpi_table
          mapped   \* live virtual mappings of the boot processor, by what they show

acpiVars == <<acpi, root, entry, mapped>>

AcpiInit == /\ acpi = "off" /\ root \in RootTables /\ entry = 1 /\ mapped = {}

\* create_virt_mapping returns 0, and the caller panics.
MapFails == /\ acpi' = "panic" /\ UNCHANGED <<root, entry, mapped>>

MapRootHeader ==
    /\ acpi = "off"
    /\ \/ /\ mapped' = mapped \cup {<<"root header", 0>>} /\ acpi' = "length"
          /\ UNCHANGED <<root, entry>>
       \/ MapFails

ReadRootLength ==
    /\ acpi = "length"
    /\ mapped' = mapped \ {<<"root header", 0>>} /\ acpi' = "root"
    /\ UNCHANGED <<root, entry>>

MapRoot ==
    /\ acpi = "root"
    /\ \/ /\ mapped' = mapped \cup {<<"root", 0>>}
          /\ acpi' = IF root.signature \in {"XSDT", "RSDT"} THEN "ready" ELSE "panic"
          /\ UNCHANGED <<root, entry>>
       \/ MapFails

init_acpi == MapRootHeader \/ ReadRootLength \/ MapRoot

-----------------------------------------------------------------------------
CallGetTable == acpi = "ready" /\ acpi' = "search" /\ entry' = 1 /\ UNCHANGED <<root, mapped>>

MapHeader ==
    /\ acpi = "search" /\ entry <= Len(root.tables)
    /\ \/ /\ mapped' = mapped \cup {<<"header", entry>>} /\ acpi' = "compare"
          /\ UNCHANGED <<root, entry>>
       \/ MapFails



(* The header is unmapped whether it matches or not.                       *)
DeleteUnlessFound ==   \* a plausible slip, for the mutants
    IF root.tables[entry] = Signature THEN mapped ELSE mapped \ {<<"header", entry>>}
DeleteHeader == mapped \ {<<"header", entry>>}

CompareHeader ==
    /\ acpi = "compare"
    /\ mapped' = DeleteHeader
    /\ IF root.tables[entry] = Signature
       THEN acpi' = "found" /\ UNCHANGED entry
       ELSE acpi' = "search" /\ entry' = entry + 1
    /\ UNCHANGED root

NotFound ==
    /\ acpi = "search" /\ entry > Len(root.tables)
    /\ acpi' = "missing" /\ UNCHANGED <<root, entry, mapped>>

MapTable ==
    /\ acpi = "found"
    /\ \/ /\ mapped' = mapped \cup {<<"table", entry>>} /\ acpi' = "returned"
          /\ UNCHANGED <<root, entry>>
       \/ MapFails

get_acpi_table == MapHeader \/ CompareHeader \/ NotFound \/ MapTable
=============================================================================
