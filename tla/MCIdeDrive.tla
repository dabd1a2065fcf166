------------------------------- MODULE MCIdeDrive ------------------------------
(* Drives of every kind before and after each other, behind a controller that is
   one function of a device with several, or a device of its own on another bus,
   which the scan reaches or not; and a machine with two controllers. *)
EXTENDS IdeDrive

Has(a, b, c, d) == (<<0, 0>> :> a) @@ (<<0, 1>> :> b) @@ (<<1, 0>> :> c) @@ (<<1, 1>> :> d)

Empty  == Has("none", "none", "none", "none")
Mixed  == Has("none", "ata", "other", "none")
Packets == Has("atapi", "none", "ata", "none")

Disks(kinds, multi) == [class |-> PCI_MASS_STORAGE, multi |-> multi, kinds |-> kinds]
Other(multi)        == [class |-> 6, multi |-> multi, kinds |-> Empty]

Host(multi) == <<0, 0, 0>> :> Other(multi)

MCMachines == {
    \* A function of the bridge that comes second, as on most machines, or its last.
    Host(FALSE) @@ (<<0, 1, 0>> :> Other(TRUE))
       @@ (<<0, 1, 1>> :> Disks(Has("ata", "ata", "none", "atapi"), TRUE)),
    Host(TRUE) @@ (<<0, 31, 0>> :> Other(TRUE)) @@ (<<0, 31, 7>> :> Disks(Mixed, TRUE)),
    \* On another bus, seen or not.
    Host(TRUE) @@ (<<7, 3, 0>> :> Disks(Packets, FALSE)),
    Host(FALSE) @@ (<<1, 0, 0>> :> Disks(Packets, FALSE)),
    <<3, 2, 0>> :> Disks(Has("other", "none", "none", "ata"), FALSE),
    \* Two of them, none.
    Host(FALSE) @@ (<<0, 2, 0>> :> Disks(Has("ata", "none", "none", "none"), FALSE))
       @@ (<<0, 4, 0>> :> Disks(Mixed, FALSE)),
    Host(FALSE) @@ (<<0, 2, 0>> :> Disks(Empty, FALSE)) @@ (<<0, 4, 0>> :> Disks(Mixed, FALSE)),
    Host(FALSE) }
===============================================================================
