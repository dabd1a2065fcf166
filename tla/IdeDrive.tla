------------------------------- MODULE IdeDrive --------------------------------
(* Disk drives, src/src/kernel/drv/ide.c and drive.c: the search for drives at
   start-up and reading sectors by programmed I/O, against drives that answer
   in their own time.

   A step of the driver is one exchange with a drive: registers and a command,
   a look at the status, the words of one sector.  The drives are modelled as
   the driver uses them: a command is noticed within the time of four reads of
   the alternate status, keeps the drive busy, and ends in data or an error.
   Drives address sectors by number (capability 0x200), and an absent drive
   reads as status 0. *)
EXTENDS Pci, Drive, SequencesExt

CONSTANTS
    Machines,  \* what the PCI buses can hold, and the drives of the controllers
    Heads,     \* values of the 4 bits of an address that go with the drive: 16
    Sectors,   \* the first sectors callers ask for
    Counts     \* the numbers of sectors callers ask for

Slot  == {0, 1} \X {0, 1}  \* channel and drive
Kind  == {"none", "ata", "atapi", "other"}
Flags == {"BSY", "DRQ", "ERR", "DF"}

ASSUME DriveAssumption ==
    /\ \A m \in Machines :
          /\ DOMAIN m \subseteq Place /\ AsDemanded(m)
          /\ Cardinality(devices(m)) <= MaxDevices
          /\ \A p \in DOMAIN m : m[p].multi \in BOOLEAN /\ m[p].kinds \in [Slot -> Kind]
    /\ Heads \in Nat \ {0} /\ Heads <= Byte
    /\ Counts \subseteq Nat \ {0} /\ Sectors \subseteq 0 .. Byte * Byte * Byte * Byte - 1

VARIABLES
    machine,   \* the machine's PCI devices, controllers with their drives
    kind,      \* what sits in each slot of the controller that is used
    device,    \* the state of each drive
    selected,  \* on each channel, the drive that listens
    registers, \* on each channel, sector count and address as last written
    driver,    \* where the driver is, and with which slot
    request,   \* the drive_read in progress or last done
    drives     \* the drives found, in order

vars == <<machine, kind, device, selected, registers, driver, request, drives>>

Pending   == -1
NoCommand == [noticed |-> TRUE, status |-> {}, cmd |-> "none", next |-> 0, left |-> 0]

-------------------------------------------------------------------------------
(* Addresses *)

\* What each byte of an address counts for: the shifts of its masks.
Weight == [i \in 0 .. 3 |-> CASE i = 0 -> 1
                              [] i = 1 -> Byte
                              [] i = 2 -> Byte * Byte
                              [] i = 3 -> Byte * Byte * Byte]

Digit(n, i) == (n \div Weight[i]) % Byte

\* Variant of Lba28: the limit is noticed one sector late.
Lba28Late(lba) == lba <= Heads * Weight[3]

\* ide_set_lba: whether the address fits the short form.
Lba28(lba) == lba < Heads * Weight[3]

\* What ide_set_lba leaves in the registers: bytes of the address, and in the
\* short form its top bits next to the drive's number.
SetLba(lba, n) ==
    [count |-> n, lba |-> [i \in 0 .. 3 |-> IF i = 3 /\ Lba28(lba) THEN 0 ELSE Digit(lba, i)],
     head |-> IF Lba28(lba) THEN Digit(lba, 3) % Heads ELSE 0]

\* The sector a drive understands, by the command.
Address(r, cmd) ==
    r.lba[0] + Weight[1] * r.lba[1] + Weight[2] * r.lba[2]
      + Weight[3] * (IF cmd = "READ_PIO" THEN r.head ELSE r.lba[3])

-------------------------------------------------------------------------------
(* The drives *)

\* A command reaches the drive that is selected, if there is one.
Command(cmd, ch, sel, r) ==
    device' = [device EXCEPT ![<<ch, sel>>] =
       IF kind[<<ch, sel>>] = "none" THEN @
       ELSE [noticed |-> FALSE, status |-> @.status, cmd |-> cmd,
             next |-> Address(r, cmd),
             left |-> IF cmd \in {"READ_PIO", "READ_PIO_EXT"} /\ r.count # 0 THEN r.count
                      ELSE IF cmd = "READ_PIO" THEN Byte ELSE 1]]

DeviceNotices(s) ==
    /\ ~device[s].noticed
    /\ device' = [device EXCEPT ![s].noticed = TRUE, ![s].status = {"BSY"}]
    /\ UNCHANGED <<machine, kind, selected, registers, driver, request, drives>>

Busy(s) == device[s].noticed /\ "BSY" \in device[s].status

\* Drives that take packets answer IDENTIFY with an error and a signature.
Refuses(s) == device[s].cmd = "IDENTIFY" /\ kind[s] # "ata"

DeviceReady(s) ==
    /\ Busy(s) /\ ~Refuses(s)
    /\ device' = [device EXCEPT ![s].status = {"DRQ"}]
    /\ UNCHANGED <<machine, kind, selected, registers, driver, request, drives>>

DeviceFails(s) ==
    /\ Busy(s)
    /\ \E flag \in {"ERR", "DF"} :
          /\ \/ device[s].cmd \in {"READ_PIO", "READ_PIO_EXT"}
             \/ Refuses(s) /\ flag = "ERR"
          /\ device' = [device EXCEPT ![s].status = {flag}]
    /\ UNCHANGED <<machine, kind, selected, registers, driver, request, drives>>

\* After the last word of a sector the drive goes on with the next one.
Delivered(d) ==
    IF d.left > 1
    THEN [d EXCEPT !.noticed = FALSE, !.next = @ + 1, !.left = @ - 1]
    ELSE NoCommand

-------------------------------------------------------------------------------
(* The search: ide_search *)

Ch == driver.slot[1]
Here == device[<<Ch, selected[Ch]>>]  \* the drive the channel's ports lead to

Goto(pc) == driver' = [driver EXCEPT !.pc = pc]

NextSlot ==
    driver' = CASE driver.slot = <<0, 0>> -> [pc |-> "select", slot |-> <<0, 1>>]
                [] driver.slot = <<0, 1>> -> [pc |-> "select", slot |-> <<1, 0>>]
                [] driver.slot = <<1, 0>> -> [pc |-> "select", slot |-> <<1, 1>>]
                [] driver.slot = <<1, 1>> -> [pc |-> "idle", slot |-> <<1, 1>>]

\* HDDEVSEL, then the sleep.
SelectSlot ==
    /\ driver.pc = "select"
    /\ selected' = [selected EXCEPT ![Ch] = driver.slot[2]]
    /\ Goto("identify")
    /\ UNCHANGED <<machine, kind, device, registers, request, drives>>

Identify ==
    /\ driver.pc = "identify"
    /\ Command("IDENTIFY", Ch, selected[Ch], registers[Ch])
    /\ Goto("present")
    /\ UNCHANGED <<machine, kind, selected, registers, request, drives>>

\* After a sleep of a millisecond the drive has noticed the command.
IsPresent ==
    /\ driver.pc = "present" /\ Here.noticed
    /\ IF Here.status = {} THEN NextSlot ELSE Goto("answer")
    /\ UNCHANGED <<machine, kind, device, selected, registers, request, drives>>

\* The condition that ends the loop over the status.
Answered ==
    \/ "ERR" \in Here.status
    \/ "BSY" \notin Here.status /\ "DRQ" \in Here.status

\* The signatures of ATAPI drives.
Signature == {"atapi"}

Answer ==
    /\ driver.pc = "answer" /\ Here.noticed /\ Answered
    /\ \/ /\ "ERR" \notin Here.status
          /\ Goto("data") /\ UNCHANGED device
       \/ /\ "ERR" \in Here.status /\ kind[driver.slot] \in Signature
          /\ Command("IDENTIFY_PACKET", Ch, selected[Ch], registers[Ch])
          /\ Goto("packet")
       \/ /\ "ERR" \in Here.status /\ kind[driver.slot] \notin Signature
          /\ NextSlot /\ UNCHANGED device
    /\ UNCHANGED <<machine, kind, selected, registers, request, drives>>

\* The sleep after IDENTIFY_PACKET; the status is not looked at again.
Packet ==
    /\ driver.pc = "packet" /\ Here.noticed
    /\ Goto("data")
    /\ UNCHANGED <<machine, kind, device, selected, registers, request, drives>>

\* 512 bytes of identification, and drive_addIDEDevice.
AddDevice ==
    /\ driver.pc = "data"
    /\ device' = [device EXCEPT ![<<Ch, selected[Ch]>>] =
                     IF "DRQ" \in @.status THEN Delivered(@) ELSE @]
    /\ drives' = Append(drives, driver.slot)
    /\ NextSlot
    /\ UNCHANGED <<machine, kind, selected, registers, request>>

-------------------------------------------------------------------------------
(* Reading: drive_read and ide_ata_read *)

\* The file system asks for n sectors of the first drive.  Only drives that take
\* no packets are read.
drive_read(lba, n) ==
    /\ driver.pc = "idle" /\ drives # <<>>
    /\ IF kind[drives[1]] = "ata"
       THEN /\ driver' = [pc |-> "free", slot |-> drives[1]]
            /\ request' = [lba |-> lba, n |-> n, count |-> Count(n), dst |-> <<>>,
                           ret |-> Pending]
       ELSE /\ request' = [lba |-> lba, n |-> n, count |-> Count(n), dst |-> <<>>,
                           ret |-> 1]
            /\ UNCHANGED driver
    /\ UNCHANGED <<machine, kind, device, selected, registers, drives>>

\* The channel is free: address, count and command.
StartRead ==
    /\ driver.pc = "free" /\ "BSY" \notin Here.status
    /\ selected' = [selected EXCEPT ![Ch] = driver.slot[2]]
    /\ registers' = [registers EXCEPT ![Ch] = SetLba(request.lba, request.count)]
    /\ Command(IF Lba28(request.lba) THEN "READ_PIO" ELSE "READ_PIO_EXT",
               Ch, selected'[Ch], registers'[Ch])
    /\ Goto(IF request.count = 0 THEN "done" ELSE "settle")
    /\ UNCHANGED <<machine, kind, request, drives>>

\* Variant of Settled: the four reads of the alternate status are left out.
SettledAtOnce == TRUE

\* The four reads of the alternate status take long enough.
Settled == Here.noticed

Settle ==
    /\ driver.pc = "settle" /\ Settled
    /\ Goto("poll")
    /\ UNCHANGED <<machine, kind, device, selected, registers, request, drives>>

\* ide_polling's result, in the order of its tests.
PollResult(status) ==
    IF "ERR" \in status THEN 2
    ELSE IF "DF" \in status THEN 1
    ELSE IF "DRQ" \notin status THEN 3
    ELSE 0

\* Variant of PollEnds: the poll waits for data.
PollEndsByData == "DRQ" \in Here.status

PollEnds == "BSY" \notin Here.status

Poll ==
    /\ driver.pc = "poll" /\ PollEnds
    /\ IF PollResult(Here.status) = 0
       THEN Goto("words") /\ UNCHANGED request
       ELSE /\ Goto("idle")
            /\ request' = [request EXCEPT !.ret = PollResult(Here.status)]
    /\ UNCHANGED <<machine, kind, device, selected, registers, drives>>

\* The 256 words of sector s go to dst + s * 512.
ReadSector ==
    /\ driver.pc = "words"
    /\ request' = [request EXCEPT !.dst = Append(@, Here.next)]
    /\ device' = [device EXCEPT ![<<Ch, selected[Ch]>>] = Delivered(@)]
    /\ Goto(IF Len(request.dst) + 1 < request.count THEN "settle" ELSE "done")
    /\ UNCHANGED <<machine, kind, selected, registers, drives>>

ReadDone ==
    /\ driver.pc = "done"
    /\ Goto("idle")
    /\ request' = [request EXCEPT !.ret = 0]
    /\ UNCHANGED <<machine, kind, device, selected, registers, drives>>

-------------------------------------------------------------------------------

\* ide_init takes every controller of mass storage for one of IDE drives.
Controllers(m) == {p \in devices(m) : m[p].class = PCI_MASS_STORAGE}

\* The first one is searched; without one there are no drives.
ide_init(m) ==
    IF Controllers(m) = {}
    THEN kind = [s \in Slot |-> "none"] /\ driver = [pc |-> "idle", slot |-> <<0, 0>>]
    ELSE /\ kind = m[FirstOf(Controllers(m))].kinds
         /\ driver = [pc |-> "select", slot |-> <<0, 0>>]

Init ==
    /\ machine \in Machines /\ ide_init(machine)
    /\ device = [s \in Slot |-> NoCommand]
    /\ selected = [ch \in {0, 1} |-> 0]
    /\ registers = [ch \in {0, 1} |-> SetLba(0, 0)]
    /\ request = [lba |-> 0, n |-> 0, count |-> 0, dst |-> <<>>, ret |-> Pending]
    /\ drives = <<>>

Driver ==
    \/ SelectSlot \/ Identify \/ IsPresent \/ Answer \/ Packet \/ AddDevice
    \/ StartRead \/ Settle \/ Poll \/ ReadSector \/ ReadDone

Device(s) == DeviceNotices(s) \/ DeviceReady(s) \/ DeviceFails(s)

Next ==
    \/ Driver
    \/ \E s \in Slot : Device(s)
    \/ \E lba \in Sectors, n \in Counts : drive_read(lba, n)

\* The processor runs the driver; a drive answers in the end.
Fairness == WF_vars(Driver) /\ \A s \in Slot : WF_vars(Device(s))

Spec == Init /\ [][Next]_vars /\ Fairness

-------------------------------------------------------------------------------
(* Properties *)

\* A read that reports success has stored the sectors asked for, in order, from
\* the drive asked for, in either form of address; from Byte sectors on it has
\* stored the remainder only.
ReadExact ==
    driver.pc = "idle" /\ request.ret = 0 =>
       request.dst = [i \in 1 .. request.n % Byte |-> request.lba + i - 1]

\* Words are taken only from a drive that offers them, and the drive is the one
\* the caller meant: never from a status older than the command.
WordsOffered ==
    driver.pc = "words" =>
       /\ "DRQ" \in Here.status /\ Here.noticed
       /\ selected[Ch] = driver.slot[2]
       /\ Here.next = request.lba + Len(request.dst)

\* The channel first, then the drive.
Number(s) == 2 * s[1] + s[2]

\* The search, once over, has found the drives of one controller, each once, in the
\* order of slots: of the first on bus 0, or on the first eight if the device at the
\* very first place is none of a single function.
DrivesFound ==
    LET near  == <<0, 0, 0>> \in DOMAIN machine /\ ~machine[<<0, 0, 0>>].multi
        disks == {p \in DOMAIN machine : machine[p].class = PCI_MASS_STORAGE
                                          /\ p[1] < IF near THEN 1 ELSE 8}
    IN  driver.pc \in {"idle", "free", "settle", "poll", "words", "done"} =>
          /\ ToSet(drives) =
                {s \in Slot : disks # {} /\ machine[FirstOf(disks)].kinds[s] \in {"ata", "atapi"}}
          /\ \A i, j \in DOMAIN drives : i < j => Number(drives[i]) < Number(drives[j])

\* Every poll ends, also when the drive reports an error: the driver always gets
\* back to its caller.
Returns == (driver.pc # "idle") ~> (driver.pc = "idle")
===============================================================================
