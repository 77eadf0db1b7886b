---------------------------- MODULE MCBootChain ----------------------------
(* Twenty page frames, four to a 2 MiB page and eight to a 1 GiB page.  The *)
(* firmware's stack and page tables lie above the free memory, among its    *)
(* lowest frames or in the middle, and it lists memory in three orders.     *)
EXTENDS BootChain

CONSTANT LastFrame

MCFrames == 0 .. LastFrame

\* The unit of sizes is a quarter of a page.
Header(load, vaddr, memsz) == [load |-> load, vaddr |-> vaddr, memsz |-> memsz]
MCHeaderLists ==
    {<<Header(FALSE, 0, 1), Header(TRUE, 3, 6)>>,   \* the thread-local image is not loaded by itself
     <<Header(TRUE, 0, 3), Header(TRUE, 8, 2)>>,    \* the second behind what the first was given
     <<Header(TRUE, 0, 7), Header(TRUE, 7, 3)>>}    \* the second begins in a page of the first

Mode(ok, fits, pixels) == [ok |-> ok, fits |-> fits, pixels |-> pixels]
MCModeLists ==
    {<<Mode(TRUE, FALSE, 9), Mode(TRUE, TRUE, 5)>>, <<Mode(FALSE, FALSE, 0), Mode(TRUE, TRUE, 3)>>}

Rsdp(kind, revision, xsdt) == [kind |-> kind, revision |-> revision, xsdt |-> xsdt]
MCRsdpLists ==
    {<<Rsdp("acpi10", 0, FALSE), Rsdp("acpi20", 2, TRUE)>>, <<Rsdp("acpi20", 2, FALSE)>>,
     <<Rsdp("acpi10", 0, FALSE), Rsdp("acpi20", 2, FALSE), Rsdp("acpi20", 2, TRUE)>>,
     <<Rsdp("acpi20", 0, FALSE)>>, <<Rsdp("other", 0, FALSE), Rsdp("acpi10", 0, FALSE)>>}

Sizes == {[large |-> {}, huge |-> {}], [large |-> 0 .. 4, huge |-> {}],
          [large |-> {4}, huge |-> {0, 1}]}
Places == {<<17, 19>>, <<2, 4>>, <<11, 10>>}  \* of the stack's two pages, and of the page table

\* Memory listed from the bottom, from the top, and with the middle first.
MCOrders == {[f \in MCFrames |-> f], [f \in MCFrames |-> LastFrame - f],
             [f \in MCFrames |-> (f + 12) % (LastFrame + 1)]}

MCLayouts ==
    {[mem  |-> [f \in MCFrames |->
                  IF f \in {p[1], p[1] + 1, p[2]} THEN "boot"
                  ELSE IF f = 0 THEN zero
                  ELSE IF f = 5 THEN "reserved" ELSE IF f = 6 THEN "hole" ELSE "conventional"],
      own |-> {p[1], p[1] + 1}, walk |-> {p[2]},
      large |-> s.large, huge |-> s.huge] :
     zero \in {"conventional", "reserved"}, p \in Places, s \in Sizes}
=============================================================================
