----------------------------------- MODULE Pci ---------------------------------
(* The scan of PCI configuration space at start-up, src/src/kernel/drv/pci.c, as
   an operator on a machine: a function from the places of its devices,
   <<bus, device, function>>, to what their configuration space says of them.

   PCI demands that a device has function 0, and others only if the header of
   function 0 says so. *)
EXTENDS Integers, FiniteSets

Place == (0 .. 255) \X (0 .. 31) \X (0 .. 7)

\* Room in the table of devices, which nothing checks.
MaxDevices == 20

PCI_MASS_STORAGE == 1

AsDemanded(m) ==
    \A p \in DOMAIN m :
       /\ <<p[1], p[2], 0>> \in DOMAIN m
       /\ p[3] # 0 => m[<<p[1], p[2], 0>>].multi

\* pci_headerType's top bit.  Where nothing is, every register reads as ones.
Multi(m, p) == p \in DOMAIN m => m[p].multi

\* pci_checkAll: the buses that are looked at.
Buses(m) == IF Multi(m, <<0, 0, 0>>) THEN 0 .. 7 ELSE {0}

\* Variant of Functions: the loop leaves out the last function.
FunctionsButLast(m, bus, device) ==
    IF <<bus, device, 0>> \notin DOMAIN m THEN {}
    ELSE IF Multi(m, <<bus, device, 0>>) THEN 0 .. 6
    ELSE {0}

\* pci_checkDevice: the functions of a device that are looked at.
Functions(m, bus, device) ==
    IF <<bus, device, 0>> \notin DOMAIN m THEN {}
    ELSE IF Multi(m, <<bus, device, 0>>) THEN 0 .. 7
    ELSE {0}

Before(p, q) ==
    \/ p[1] < q[1]
    \/ p[1] = q[1] /\ (p[2] < q[2] \/ (p[2] = q[2] /\ p[3] < q[3]))

\* What pci_init leaves in the table, in the order of places.
devices(m) == {p \in DOMAIN m : p[1] \in Buses(m) /\ p[3] \in Functions(m, p[1], p[2])}

\* The one that a walk of the table meets first.
FirstOf(S) == CHOOSE p \in S : \A q \in S \ {p} : Before(p, q)
===============================================================================
