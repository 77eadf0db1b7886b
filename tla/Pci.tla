-------------------------------- MODULE Pci --------------------------------
(***************************************************************************)
(* kernel/pci.c, as __kernel_bsp_init calls it: init_pci looks up the MCFG *)
(* table, maps the configuration space of every segment group it lists,    *)
(* and find_devices records every function found there with the sizes of   *)
(* its base address registers.  When init_pci returns false the boot       *)
(* processor panics.                                                       *)
(*                                                                         *)
(* A function is named <<group, bus, device, function>>.  A register has   *)
(* RegValues values instead of 2^32; its low four bits are flags.  Of a    *)
(* value written to one only the multiples of its size stick, and only up  *)
(* to its top: a register of ports may have its upper 16 bits hardwired to *)
(* zero.                                                                   *)
(***************************************************************************)
EXTENDS Acpi, Integers, FiniteSets

CONSTANTS Machines,   \* what may be there: [groups, functions]
          DevCount, FunCount,  \* devices of a bus (32), functions of a device (8)
          RegValues,
          PortValues  \* values of a register of ports without its upper bits (2^16)

ASSUME CountsAssumption == {DevCount, FunCount} \subseteq Nat \ {0}
ASSUME RegValuesAssumption == RegValues \in Nat /\ RegValues % 16 = 0 /\ RegValues > 16
ASSUME PortValuesAssumption == /\ PortValues \in Nat /\ PortValues % 16 = 0 /\ PortValues > 16
                               /\ RegValues % PortValues = 0

(* What a machine may be.  Headers of type 0 have six registers, of type 1 *)
(* two, others none that make_dev_desc touches.                            *)
BarCount(type) == CASE type = 0 -> 6 [] type = 1 -> 2 [] OTHER -> 0

Kinds == {"none", "memory", "wide", "high", "ports", "below", "other"}
Registers == {r \in [kind : Kinds, size : Nat \ {0}, flags : Nat, val : Nat, top : {RegValues, PortValues}] :
                /\ r.top % r.size = 0 /\ r.val % r.size = r.flags /\ r.val < r.top
                /\ r.kind # "ports" => r.top = RegValues
                /\ r.kind = "none" => r.val = 0
                /\ r.kind \in {"memory", "wide", "below"} => r.size % 16 = 0
                /\ r.kind \in {"memory", "ports", "high"} => r.size < r.top
                /\ r.kind = "memory" => r.flags \in {0, 8}
                /\ r.kind = "wide" => r.flags \in {4, 12}
                /\ r.kind = "below" => r.flags \in {2, 10}
                /\ r.kind = "high" => r.flags = 0
                /\ r.kind = "ports" => r.flags = 1 /\ (r.size \in {4, 8} \/ r.size % 16 = 0)}

(* The upper half of a 64-bit register follows the lower one.              *)
Functions == {f \in [multi : BOOLEAN, type : Nat, command : Nat, regs : [0 .. 6 -> Registers]] :
                \A o \in 0 .. BarCount(f.type) - 1 :
                  /\ f.regs[o].kind # "other"
                  /\ f.regs[o].kind = "high" => o > 0 /\ f.regs[o - 1].kind = "wide"
                  /\ f.regs[o].kind = "wide" =>
                       /\ o + 1 < BarCount(f.type) /\ f.regs[o + 1].kind = "high"
                       /\ f.regs[o].size < RegValues => f.regs[o + 1].size = 1}

ASSUME MachinesAssumption ==
    \A m \in Machines :
      /\ m.groups \in Seq([start : Nat, end : Nat])
      /\ m.functions \in [DOMAIN m.functions -> Functions]
      /\ \A p \in DOMAIN m.functions :
           p \in (1 .. Len(m.groups)) \X Nat \X (0 .. DevCount - 1) \X (0 .. FunCount - 1)

VARIABLES pci,       \* where init_pci or find_devices is
          machine,   \* the machine, as the firmware left it
          config,    \* its functions: their command and base address registers now
          group,     \* index of the group whose window is to be mapped
          pos,       \* the function find_devices looks at
          memory,    \* the block pci_devices points to: none, live or freed
          capacity,  \* device_capacity
          devices,   \* pci_devices up to pci_device_count
          probe      \* the locals of make_dev_desc: offset, cmd, bars

pciVars == <<pci, machine, config, group, pos, memory, capacity, devices, probe>>
allVars == <<acpiVars, pciVars>>

NoBar == [addr |-> 0, size |-> 0]
NoBars == [o \in 0 .. 5 |-> NoBar]
Idle == [offset |-> 0, cmd |-> 0, bars |-> NoBars]

PciInit ==
    /\ AcpiInit
    /\ pci = "off" /\ machine \in Machines /\ config = machine.functions
    /\ group = 1 /\ pos = <<1, 0, 0, 0>>
    /\ memory = "none" /\ capacity = 0 /\ devices = << >> /\ probe = Idle

ReturnFalse == /\ pci' = "false"
               /\ UNCHANGED <<acpiVars, machine, config, group, pos, capacity, devices, probe>>

-----------------------------------------------------------------------------
CallInitPci ==
    /\ pci = "off" /\ CallGetTable
    /\ pci' = "lookup"
    /\ UNCHANGED <<machine, config, group, pos, memory, capacity, devices, probe>>

NoTable == pci = "lookup" /\ acpi = "missing" /\ ReturnFalse /\ UNCHANGED memory

AllocGroups ==
    /\ pci = "lookup" /\ acpi = "returned"
    /\ \/ /\ pci' = "windows"
          /\ UNCHANGED <<acpiVars, machine, config, group, pos, memory, capacity, devices, probe>>
       \/ ReturnFalse /\ UNCHANGED memory

(* The size of a window is (end_bus_num - start_bus_num) MiB.  Of size 0   *)
(* create_virt_mapping computes 2^52 pages, which there never are.  The    *)
(* windows mapped before a failure stay.                                   *)
MapWindow ==
    /\ pci = "windows" /\ group <= Len(machine.groups)
    /\ \/ /\ machine.groups[group].start < machine.groups[group].end
          /\ mapped' = mapped \cup {<<"window", group>>}
          /\ group' = group + 1
          /\ UNCHANGED <<acpi, root, entry, pci, machine, config, pos, memory, capacity, devices, probe>>
       \/ ReturnFalse /\ UNCHANGED memory

Start(g) == IF g <= Len(machine.groups) THEN <<g, machine.groups[g].start, 0, 0>> ELSE <<g, 0, 0, 0>>

AllocTable ==
    /\ pci = "windows" /\ group > Len(machine.groups)
    /\ \/ /\ pci' = "scan" /\ memory' = "live" /\ capacity' = 2 /\ devices' = << >>
          /\ pos' = Start(1)
          /\ UNCHANGED <<acpiVars, machine, config, group, probe>>
       \/ ReturnFalse /\ UNCHANGED memory

-----------------------------------------------------------------------------
(* The loops of find_devices: the other functions of a device are looked   *)
(* at when its function 0 says that it has several.                        *)
NextDevice(p) ==
    IF p[3] + 1 < DevCount THEN <<p[1], p[2], p[3] + 1, 0>>
    ELSE IF p[2] + 1 < machine.groups[p[1]].end THEN <<p[1], p[2] + 1, 0, 0>>
    ELSE Start(p[1] + 1)

NextFunction(p) == IF p[4] + 1 < FunCount THEN <<p[1], p[2], p[3], p[4] + 1>> ELSE NextDevice(p)

Present(p) == p \in DOMAIN config
Multi(p) == Present(p) /\ machine.functions[p].multi

After(p) == IF p[4] = 0 /\ ~Multi(p) THEN NextDevice(p) ELSE NextFunction(p)

Scanning == pci = "scan" /\ pos[1] <= Len(machine.groups)

SkipAbsent ==
    /\ Scanning /\ ~Present(pos)
    /\ pos' = After(pos)
    /\ UNCHANGED <<acpiVars, pci, machine, config, group, memory, capacity, devices, probe>>

(* krealloc doubles the table; if it cannot, the table is freed, with      *)
(* pci_devices and the count left as they are.                             *)
FullLate == Len(devices) > capacity  \* a plausible slip, for the mutants
Full == Len(devices) = capacity

GrowTable ==
    /\ Scanning /\ Present(pos) /\ Full
    /\ \/ /\ capacity' = 2 * capacity
          /\ UNCHANGED <<acpiVars, pci, machine, config, group, pos, memory, devices, probe>>
       \/ ReturnFalse /\ memory' = "freed"

EndScan ==
    /\ pci = "scan" /\ pos[1] > Len(machine.groups)
    /\ pci' = "true"
    /\ UNCHANGED <<acpiVars, machine, config, group, pos, memory, capacity, devices, probe>>

-----------------------------------------------------------------------------
(* make_dev_desc and bar_size.                                             *)
Written(r, x) ==
    LET y == x % r.top IN [r EXCEPT !.val = (y - (y % r.size)) + r.flags]
Ones == RegValues - 1

\* ~(x & ~0xF) + 1 in a number of n values.
Negated(x, n) == (n - (x - (x % 16))) % n

Reg(o) == config[pos].regs[o]
Wide(r) == r.val % 8 = 4
SkipsBar(r) == r.val = 0 \/ r.val % 8 = 2

\* The value of the register at o, with the next one for a 64-bit register.
Value(regs, o) ==
    IF Wide(regs[o]) THEN regs[o].val + RegValues * regs[o + 1].val ELSE regs[o].val

\* What the register at o, or it and the next one, hold after a store.
Asked(regs, o) == [regs EXCEPT ![o] = Written(@, Ones),
                               ![o + 1] = IF Wide(regs[o]) THEN Written(@, Ones) ELSE @]
PutBack(regs, o, old) ==
    [regs EXCEPT ![o] = Written(@, old % RegValues),
                 ![o + 1] = IF Wide(regs[o]) THEN Written(@, old \div RegValues) ELSE @]

Record(bars) == devices' = Append(devices, [function |-> pos, bars |-> bars]) /\ pos' = After(pos)

DecodingStays(f) == config[f].command   \* a plausible slip, for the mutants
Quiet(f) == 0

Describe ==
    /\ Scanning /\ Present(pos) /\ ~Full
    /\ IF BarCount(config[pos].type) = 0
       THEN Record(NoBars) /\ UNCHANGED <<pci, config, probe>>
       ELSE /\ pci' = "probe"
            /\ probe' = [offset |-> 0, cmd |-> config[pos].command, bars |-> NoBars]
            /\ config' = [config EXCEPT ![pos].command = Quiet(pos)]
            /\ UNCHANGED <<pos, devices>>
    /\ UNCHANGED <<acpiVars, machine, group, memory, capacity>>

Probing == pci = "probe" /\ probe.offset < BarCount(config[pos].type)

SkipBar ==
    /\ Probing /\ SkipsBar(Reg(probe.offset))
    /\ probe' = [probe EXCEPT !.offset = @ + 1]
    /\ UNCHANGED <<acpiVars, pci, machine, config, group, pos, memory, capacity, devices>>

(* old_val is kept in addr: what addr is set to in the end.                *)
WriteOnes ==
    LET o == probe.offset
    IN  /\ Probing /\ ~SkipsBar(Reg(o))
        /\ pci' = "read"
        /\ probe' = [probe EXCEPT !.bars[o].addr = Value(config[pos].regs, o)]
        /\ config' = [config EXCEPT ![pos].regs = Asked(@, o)]
        /\ UNCHANGED <<acpiVars, machine, group, pos, memory, capacity, devices>>

OneReg(o) == 1  \* a plausible slip, for the mutants
RegsOf(o) == IF Wide(Reg(o)) THEN 2 ELSE 1

ReadSize ==
    LET o == probe.offset
        wide == Wide(Reg(o))
        old == probe.bars[o].addr
    IN  /\ pci = "read"
        /\ pci' = "probe"
        /\ probe' = [probe EXCEPT
              !.bars[o].size = Negated(Value(config[pos].regs, o), IF wide THEN RegValues * RegValues ELSE RegValues),
              !.offset = @ + RegsOf(o)]
        /\ config' = [config EXCEPT ![pos].regs = PutBack(@, o, old)]
        /\ UNCHANGED <<acpiVars, machine, group, pos, memory, capacity, devices>>

EndProbe ==
    /\ pci = "probe" /\ ~Probing
    /\ config' = [config EXCEPT ![pos].command = probe.cmd]
    /\ Record(probe.bars)
    /\ probe' = Idle /\ pci' = "scan"
    /\ UNCHANGED <<acpiVars, machine, group, memory, capacity>>

make_dev_desc == Describe \/ SkipBar \/ WriteOnes \/ ReadSize \/ EndProbe
find_devices == AllocTable \/ SkipAbsent \/ GrowTable \/ EndScan

PciNext ==
    \/ (init_acpi \/ get_acpi_table) /\ UNCHANGED pciVars
    \/ CallInitPci \/ NoTable \/ AllocGroups \/ MapWindow
    \/ find_devices \/ make_dev_desc

PciSpec == PciInit /\ [][PciNext]_allVars

-----------------------------------------------------------------------------
\* The functions of the buses from start_bus_num up to, not including, end_bus_num.
Scanned == {p \in DOMAIN machine.functions :
              /\ machine.groups[p[1]].start <= p[2] /\ p[2] < machine.groups[p[1]].end
              /\ LET zero == <<p[1], p[2], p[3], 0>>
                 IN  p = zero \/ (zero \in DOMAIN machine.functions /\ machine.functions[zero].multi)}

(* Of all the mappings made on the way only those in use are left: the     *)
(* root table, the MCFG table, the windows.                                *)
TemporariesReturned ==
    /\ acpi = "missing" => mapped = {<<"root", 0>>}
    /\ pci = "true" =>
         mapped = {<<"root", 0>>, <<"table", entry>>} \cup {<<"window", g>> : g \in DOMAIN machine.groups}

(* The table of devices never holds more than its block has room for, what *)
(* is written to it goes to a live block, and when init_pci succeeds it    *)
(* lists every function of the scanned buses, once.                        *)
DevicesTrue ==
    /\ memory # "none" => Len(devices) <= capacity
    /\ pci \in {"scan", "probe", "read"} => memory = "live"
    /\ pci = "true" => /\ {devices[i].function : i \in DOMAIN devices} = Scanned
                       /\ Len(devices) = Cardinality(Scanned)
    /\ TemporariesReturned

(* Every register is as the firmware left it but for those of the function *)
(* in work, and that one decodes no address while one of its registers is  *)
(* not.                                                                    *)
RegistersKept ==
    \A p \in DOMAIN config :
      \/ config[p] = machine.functions[p]
      \/ p = pos /\ pci \in {"probe", "read"} /\ config[p].command = 0

(* A base address register is described by its address with the flags, and *)
(* its true size; space of less than 16 ports (the mask is that of memory) *)
(* as 16, and with bits set that the register does not have if it is one   *)
(* of ports without its upper bits.  A register that holds 0 is taken for  *)
(* one that is not there.                                                  *)
SizeFound(regs, o) ==
    LET size == IF Wide(regs[o]) /\ regs[o].size = RegValues THEN RegValues * regs[o + 1].size
                                                            ELSE regs[o].size
    IN  (RegValues - regs[o].top) + (IF size < 16 THEN 16 ELSE size)

BarOf(f, o) ==
    IF o < BarCount(f.type) /\ f.regs[o].kind \in {"memory", "wide", "ports"} /\ f.regs[o].val # 0
    THEN [addr |-> Value(f.regs, o), size |-> SizeFound(f.regs, o)]
    ELSE NoBar

BarsTrue ==
    \A i \in DOMAIN devices : \A o \in 0 .. 5 :
      devices[i].bars[o] = BarOf(machine.functions[devices[i].function], o)
=============================================================================
