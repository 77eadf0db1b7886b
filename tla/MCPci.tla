------------------------------- MODULE MCPci -------------------------------
(* Two devices to a bus, three functions to a device, registers of six     *)
(* bits, some of ports with five.  The first group starts at bus 1 and     *)
(* ends at bus 3: buses 1 and 2 are looked at.  Five functions make the    *)
(* table grow twice.                                                       *)
EXTENDS Pci

Reg6(kind, size, flags, base) ==
    [kind |-> kind, size |-> size, flags |-> flags, val |-> base + flags, top |-> 64]
Reg5(size, base) == [kind |-> "ports", size |-> size, flags |-> 1, val |-> base + 1, top |-> 32]

None == Reg6("none", 64, 0, 0)
Regs(s) == [o \in 0 .. 6 |-> IF o < Len(s) THEN s[o + 1] ELSE None]

\* A 64-bit register below and one above what a single register holds, a
\* 32-bit register without an address, and one of the kind left out.
Memory == Regs(<<Reg6("wide", 32, 4, 32), Reg6("high", 1, 0, 3), Reg6("memory", 16, 8, 48),
                 Reg6("memory", 16, 0, 0), Reg6("wide", 64, 4, 0), Reg6("high", 2, 0, 6)>>)
Ports == Regs(<<Reg6("ports", 4, 1, 20), Reg6("below", 16, 2, 16), Reg6("ports", 32, 1, 32),
                Reg5(4, 24), Reg5(16, 16)>>)

\* A bridge has other things where a device has more registers.
Bridge == Regs(<<Reg6("memory", 32, 0, 32), None, Reg6("other", 1, 0, 5), Reg6("other", 1, 0, 33)>>)

F(multi, type, command, regs) == [multi |-> multi, type |-> type, command |-> command, regs |-> regs]
Group(s, e) == [start |-> s, end |-> e]

FiveFunctions ==
    [groups |-> <<Group(1, 3)>>,
     functions |-> [p \in {<<1, 1, 0, 0>>, <<1, 1, 1, 0>>, <<1, 1, 1, 2>>, <<1, 2, 0, 0>>, <<1, 2, 0, 1>>,
                           <<1, 2, 1, 0>>, <<1, 3, 0, 0>>} |->
       CASE p = <<1, 1, 0, 0>> -> F(FALSE, 1, 7, Bridge)
         [] p = <<1, 1, 1, 0>> -> F(TRUE, 0, 3, Memory)
         [] p = <<1, 1, 1, 2>> -> F(TRUE, 0, 1, Ports)
         [] p = <<1, 2, 0, 0>> -> F(FALSE, 2, 3, Memory)
         [] p = <<1, 2, 0, 1>> -> F(FALSE, 0, 3, Ports)   \* hidden by its function 0
         [] OTHER -> F(FALSE, 0, 2, Memory)]]             \* one of them on the bus left out

TwoGroups ==
    [groups |-> <<Group(0, 1), Group(0, 2)>>,
     functions |-> [p \in {<<1, 0, 0, 0>>, <<2, 0, 1, 0>>, <<2, 1, 0, 0>>} |->
                      F(FALSE, 0, 3, IF p[1] = 1 THEN Ports ELSE Memory)]]

OneBus == [groups |-> <<Group(0, 0)>>, functions |-> [p \in {<<1, 0, 0, 0>>} |-> F(FALSE, 0, 3, Memory)]]
NoBus == [groups |-> << >>, functions |-> << >>]

MCMachines == {FiveFunctions, TwoGroups, OneBus, NoBus}

Root(signature, tables) == [signature |-> signature, tables |-> tables]
MCRootTables == {Root("XSDT", <<"FACP", "MCFG", "MCFG">>), Root("RSDT", <<"MCFG">>),
                 Root("XSDT", <<"FACP">>), Root("RSDT", << >>), Root("garbage", <<"MCFG">>)}
=============================================================================
