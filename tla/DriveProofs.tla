------------------------------- MODULE DriveProofs -----------------------------
(* Proofs about drives and the discs in them, for any machine, disc and size of
   registers: the search finds the drives, a read that reports success has stored
   the sectors asked for, and the file system's lookups and reads answer what its
   directories and files say. *)
EXTENDS IdeDrive, Iso9660, CommonLemmas, TLAPS

-------------------------------------------------------------------------------
(* Addresses *)

\* What the bytes of an address count for.
LEMMA Weights ==
    /\ Byte \in Nat /\ Byte > 1 /\ Heads \in Nat /\ Heads > 0 /\ Heads <= Byte
    /\ Weight[0] = 1 /\ Weight[1] = Byte
    /\ Weight[2] = Byte * Byte /\ Weight[3] = Byte * Byte * Byte
    /\ \A i \in 0 .. 3 : Weight[i] \in Nat \ {0}
<1>1. Byte \in Nat /\ Byte > 1 /\ Heads \in Nat /\ Heads > 0 /\ Heads <= Byte
      BY ByteAssumption, DriveAssumption
<1>2. /\ Weight[0] = 1 /\ Weight[1] = Byte
      /\ Weight[2] = Byte * Byte /\ Weight[3] = Byte * Byte * Byte
      BY DEF Weight
<1>3. Byte * Byte \in Nat \ {0}
      BY <1>1, Products
<1>4. Byte * Byte * Byte \in Nat \ {0}
      BY <1>1, <1>3, Products
<1>5. \A i \in 0 .. 3 : i = 0 \/ i = 1 \/ i = 2 \/ i = 3
      OBVIOUS
<1>   QED BY <1>1, <1>2, <1>3, <1>4, <1>5

\* The bytes of a number below Byte to the fourth.
LEMMA Digits ==
    ASSUME NEW n \in Nat, n < Byte * Byte * Byte * Byte
    PROVE  /\ \A i \in 0 .. 3 : Digit(n, i) \in 0 .. Byte - 1
           /\ n = Digit(n, 0) + Weight[1] * Digit(n, 1) + Weight[2] * Digit(n, 2)
                    + Weight[3] * Digit(n, 3)
           /\ Digit(n, 3) = n \div Weight[3]
<1>   DEFINE q1 == n \div Byte
             q2 == q1 \div Byte
             q3 == q2 \div Byte
<1>0. Byte \in Nat \ {0} /\ Byte \in Nat
      BY Weights
<1>1. q1 \in Nat /\ n % Byte \in 0 .. Byte - 1 /\ n = Byte * q1 + (n % Byte)
      BY <1>0, Division
<1>2. q2 \in Nat /\ q1 % Byte \in 0 .. Byte - 1 /\ q1 = Byte * q2 + (q1 % Byte)
      BY <1>0, <1>1, Division
<1>3. q3 \in Nat /\ q2 % Byte \in 0 .. Byte - 1 /\ q2 = Byte * q3 + (q2 % Byte)
      BY <1>0, <1>2, Division
<1>4. PICK W2 \in Nat \ {0}, W3 \in Nat \ {0} :
         /\ W2 = Weight[2] /\ W3 = Weight[3] /\ W2 = Byte * Byte /\ W3 = W2 * Byte
      BY Weights
<1>5. n \div W2 = q2 /\ n \div W3 = q3
  <2>1. n \div W2 = q2
        BY <1>0, <1>4, NestedDivision
  <2>2. n \div W3 = (n \div W2) \div Byte
        BY <1>0, <1>4, NestedDivision
  <2>   QED BY <2>1, <2>2
<1>6. /\ Digit(n, 0) = n % Byte /\ Digit(n, 1) = q1 % Byte
      /\ Digit(n, 2) = q2 % Byte /\ Digit(n, 3) = q3 % Byte
  <2>1. n \div Weight[0] = n /\ n \div Weight[1] = q1
        BY Weights
  <2>   QED BY <2>1, <1>4, <1>5 DEF Digit
<1>   HIDE DEF q1, q2, q3
<1>7. PICK d0 \in 0 .. Byte - 1, d1 \in 0 .. Byte - 1, d2 \in 0 .. Byte - 1 :
         /\ d0 = Digit(n, 0) /\ d1 = Digit(n, 1) /\ d2 = Digit(n, 2)
         /\ n = Byte * q1 + d0 /\ q1 = Byte * q2 + d1 /\ q2 = Byte * q3 + d2
      BY <1>1, <1>2, <1>3, <1>6
<1>8. n = d0 + Byte * d1 + W2 * d2 + W3 * q3
  <2>1. d0 \in Nat /\ d1 \in Nat /\ d2 \in Nat /\ W2 \in Nat
        BY <1>0, <1>4, <1>7
  <2>2. Byte * q1 = W2 * q2 + Byte * d1
        BY <1>0, <1>2, <1>4, <1>7, <2>1, Distribute
  <2>3. W2 * q2 = W3 * q3 + W2 * d2
        BY <1>0, <1>3, <1>4, <1>7, <2>1, Distribute
  <2>4. /\ Byte * d1 \in Nat /\ W2 * d2 \in Nat /\ W3 * q3 \in Nat
        /\ W2 * q2 \in Nat /\ Byte * q1 \in Nat
        BY <1>0, <1>1, <1>2, <1>3, <1>4, <2>1, Products
  <2>   QED BY <1>7, <2>1, <2>2, <2>3, <2>4
<1>9. q3 < Byte
  <2>   SUFFICES ASSUME Byte <= q3 PROVE FALSE
        BY <1>0, <1>3
  <2>1. W3 * Byte <= W3 * q3
        BY <1>0, <1>3, <1>4, Multiples
  <2>2. Byte * d1 \in Nat /\ W2 * d2 \in Nat /\ W3 * q3 \in Nat /\ W3 * Byte \in Nat
        BY <1>0, <1>3, <1>4, <1>7, Products
  <2>3. n < W3 * Byte
        BY <1>4
  <2>   QED BY <1>7, <1>8, <2>1, <2>2, <2>3
<1>10. q3 % Byte = q3
      BY <1>0, <1>3, <1>9
<1>11. \A i \in 0 .. 3 : Digit(n, i) \in 0 .. Byte - 1
  <2>1. Digit(n, 3) \in 0 .. Byte - 1
        BY <1>0, <1>3, <1>6, <1>9, <1>10
  <2>2. \A i \in 0 .. 3 : i = 0 \/ i = 1 \/ i = 2 \/ i = 3
        OBVIOUS
  <2>   QED BY <1>7, <2>1, <2>2
<1>   QED BY <1>4, <1>5, <1>6, <1>7, <1>8, <1>10, <1>11, Weights

\* The command of a read, by its address.
ReadCommand(lba) == IF Lba28(lba) THEN "READ_PIO" ELSE "READ_PIO_EXT"

\* The fields of what ide_set_lba writes.
LEMMA SetLbaIs ==
    ASSUME NEW lba \in Nat, lba < Byte * Byte * Byte * Byte, NEW c \in 0 .. Byte - 1
    PROVE  /\ SetLba(lba, c).count = c
           /\ SetLba(lba, c).lba \in [0 .. 3 -> Nat] /\ SetLba(lba, c).head \in Nat
           /\ \A i \in 0 .. 2 : SetLba(lba, c).lba[i] = Digit(lba, i)
           /\ ~ Lba28(lba) => SetLba(lba, c).lba[3] = Digit(lba, 3)
           /\ Lba28(lba) => SetLba(lba, c).head = Digit(lba, 3) % Heads
<1>1. \A i \in 0 .. 3 : Digit(lba, i) \in Nat
      BY Digits, Weights
<1>2. Digit(lba, 3) % Heads \in Nat
  <2>1. Heads \in Nat \ {0} /\ Digit(lba, 3) \in Nat
        BY <1>1, Weights
  <2>   QED BY <2>1, Division
<1>3. \A i \in 0 .. 2 : i \in 0 .. 3 /\ i # 3
      OBVIOUS
<1>   QED BY <1>1, <1>2, <1>3 DEF SetLba

\* The drive understands the address the driver means, in the short form up to its
\* limit and in the long one beyond.
LEMMA AddressMeant ==
    ASSUME NEW lba \in Nat, lba < Byte * Byte * Byte * Byte, NEW c \in 0 .. Byte - 1
    PROVE  Address(SetLba(lba, c), ReadCommand(lba)) = lba
<1>   DEFINE r == SetLba(lba, c)
<1>1. /\ lba = Digit(lba, 0) + Weight[1] * Digit(lba, 1) + Weight[2] * Digit(lba, 2)
                    + Weight[3] * Digit(lba, 3)
      /\ Digit(lba, 3) = lba \div Weight[3] /\ Digit(lba, 3) \in Nat
      BY Digits, Weights
<1>2. r.lba[0] = Digit(lba, 0) /\ r.lba[1] = Digit(lba, 1) /\ r.lba[2] = Digit(lba, 2)
      BY SetLbaIs
<1>3. CASE Lba28(lba)
  <2>1. lba < Heads * Weight[3]
        BY <1>3 DEF Lba28
  <2>2. PICK W \in Nat \ {0}, q \in Nat :
           W = Weight[3] /\ q = Digit(lba, 3) /\ q = lba \div W
        BY <1>1, Weights
  <2>3. q < Heads
    <3>   SUFFICES ASSUME Heads <= q PROVE FALSE
          BY <2>2, Weights
    <3>1. W * Heads <= W * q
          BY <2>2, Weights, Multiples
    <3>2. lba = W * q + (lba % W) /\ lba % W \in 0 .. W - 1
          BY <2>2, Division
    <3>3. Heads * W = W * Heads /\ W * Heads \in Nat /\ W * q \in Nat
          BY <2>2, Weights, Products
    <3>   QED BY <2>1, <2>2, <3>1, <3>2, <3>3
  <2>4. q % Heads = q
        BY <2>2, <2>3, Weights
  <2>5. r.head = Digit(lba, 3)
        BY <1>3, <2>2, <2>4, SetLbaIs
  <2>   QED BY <1>1, <1>2, <1>3, <2>5 DEF Address, ReadCommand
<1>4. CASE ~ Lba28(lba)
  <2>1. r.lba[3] = Digit(lba, 3)
        BY <1>4, SetLbaIs
  <2>   QED BY <1>1, <1>2, <1>4, <2>1 DEF Address, ReadCommand
<1>   QED BY <1>3, <1>4

-------------------------------------------------------------------------------
(* The invariant *)

Commands  == {"none", "IDENTIFY", "IDENTIFY_PACKET", "READ_PIO", "READ_PIO_EXT"}
ReadCommands == {"READ_PIO", "READ_PIO_EXT"}
Drive     == [noticed : BOOLEAN, status : SUBSET Flags, cmd : Commands,
              next : Nat, left : Nat]
Registers == [count : 0 .. Byte - 1, lba : [0 .. 3 -> Nat], head : Nat]
Request   == [lba : Nat, n : Nat, count : 0 .. Byte - 1, dst : Seq(Nat), ret : Int]
Reading   == {"settle", "poll", "words"}
Search    == {"select", "identify", "present", "answer", "packet", "data"}

TypeOK ==
    /\ driver \in [pc : Search \cup Reading \cup {"idle", "free", "done"}, slot : Slot]
    /\ device \in [Slot -> Drive]
    /\ selected \in [{0, 1} -> {0, 1}]
    /\ registers \in [{0, 1} -> Registers]
    /\ request \in Request
    /\ drives \in Seq(Slot)

\* A call in progress reads a drive that takes no packets, and has no result yet.
CallInv ==
    /\ request.lba < Byte * Byte * Byte * Byte /\ request.count = request.n % Byte
    /\ driver.pc \in Reading \cup {"free", "done"} =>
          request.ret = Pending /\ kind[driver.slot] = "ata"
    /\ driver.pc = "free" => request.dst = <<>>

\* The drive is at the sector the driver expects next, with as many left as the
\* driver still wants; once it has noticed the command, its status tells of it.
ReadInv ==
    /\ driver.pc \in Reading =>
          /\ Len(request.dst) < request.count
          /\ selected[Ch] = driver.slot[2]
          /\ Here.next = request.lba + Len(request.dst)
          /\ Here.left = request.count - Len(request.dst)
          /\ Here.cmd \in ReadCommands
          /\ Here.noticed => Here.status \in {{f} : f \in Flags}
    /\ driver.pc \in {"poll", "words"} => Here.noticed
    /\ driver.pc = "words" => Here.status = {"DRQ"}

\* What has been stored so far.
StoredInv ==
    /\ \A i \in 1 .. Len(request.dst) : request.dst[i] = request.lba + i - 1
    /\ driver.pc = "done" \/ request.ret = 0 => Len(request.dst) = request.count

\* The drives the search should have found once it is at the slot it is at.
Present(s) == kind[s] \in {"ata", "atapi"}
Passed(s)  == driver.pc \in Search => Number(s) < Number(driver.slot)

FoundInv ==
    /\ ToSet(drives) = {s \in Slot : Present(s) /\ Passed(s)}
    /\ \A i, j \in DOMAIN drives : i < j => Number(drives[i]) < Number(drives[j])

\* What a drive of each kind answers to IDENTIFY, and so what the search knows of
\* the drive at its slot.
Answers(k) == IF k = "ata" THEN {{"BSY"}, {"DRQ"}} ELSE {{"BSY"}, {"ERR"}}

SearchInv ==
    /\ driver.pc \in Search =>
          \A s \in Slot : kind[s] = "none" => device[s] = NoCommand
    /\ driver.pc \in Search \ {"select"} => selected[Ch] = driver.slot[2]
    /\ driver.pc \in {"present", "answer"} /\ kind[driver.slot] # "none" =>
          /\ Here.cmd = "IDENTIFY"
          /\ Here.noticed => Here.status \in Answers(kind[driver.slot])
    /\ driver.pc = "answer" => kind[driver.slot] # "none" /\ Here.noticed
    /\ driver.pc \in {"packet", "data"} => Present(driver.slot)

\* The controller that has been searched.
KindInv == kind = IF Controllers(machine) = {} THEN [s \in Slot |-> "none"]
                  ELSE machine[FirstOf(Controllers(machine))].kinds

IInv == TypeOK /\ CallInv /\ ReadInv /\ StoredInv

ScanInv == FoundInv /\ SearchInv /\ KindInv /\ machine \in Machines

\* The slot the channel's ports lead to.
LEMMA Slots ==
    ASSUME TypeOK
    PROVE  /\ driver.slot \in Slot /\ Ch \in {0, 1} /\ driver.slot[2] \in {0, 1}
           /\ driver.slot = <<Ch, driver.slot[2]>>
           /\ selected[Ch] \in {0, 1} /\ <<Ch, selected[Ch]>> \in Slot
           /\ Here \in Drive
BY DEF TypeOK, Slot, Ch, Here

\* ide_set_lba writes values of the registers' width.
LEMMA RegistersTyped ==
    ASSUME NEW lba \in Nat, lba < Byte * Byte * Byte * Byte, NEW c \in 0 .. Byte - 1
    PROVE  SetLba(lba, c) \in Registers
<1>1. SetLba(lba, c) = [count |-> SetLba(lba, c).count, lba |-> SetLba(lba, c).lba,
                        head |-> SetLba(lba, c).head]
      BY DEF SetLba
<1>   QED BY <1>1, SetLbaIs DEF Registers

\* A drive understands any registers as the number of a sector.
LEMMA AddressTyped ==
    ASSUME NEW r \in Registers, NEW cmd
    PROVE  Address(r, cmd) \in Nat
<1>1. /\ r.lba[0] \in Nat /\ r.lba[1] \in Nat /\ r.lba[2] \in Nat /\ r.lba[3] \in Nat
      /\ r.head \in Nat
      BY DEF Registers
<1>2. PICK top \in Nat : top = IF cmd = "READ_PIO" THEN r.head ELSE r.lba[3]
      BY <1>1
<1>3. /\ Weight[1] * r.lba[1] \in Nat /\ Weight[2] * r.lba[2] \in Nat
      /\ Weight[3] * top \in Nat
      BY <1>1, <1>2, Weights, Products
<1>   QED BY <1>1, <1>2, <1>3 DEF Address

\* How many sectors a command is about, as a drive understands it.
Wanted(cmd, r) == IF cmd \in {"READ_PIO", "READ_PIO_EXT"} /\ r.count # 0 THEN r.count
                  ELSE IF cmd = "READ_PIO" THEN Byte ELSE 1

\* What a command leaves: the drive selected, if there is one, has yet to notice it.
LEMMA CommandIs ==
    ASSUME TypeOK, NEW cmd \in Commands \ {"none"}, NEW s \in Slot, NEW r \in Registers,
           Command(cmd, s[1], s[2], r)
    PROVE  /\ device' \in [Slot -> Drive]
           /\ kind[s] # "none" =>
                 /\ device'[s].noticed = FALSE /\ device'[s].cmd = cmd
                 /\ device'[s].next = Address(r, cmd)
                 /\ device'[s].left = Wanted(cmd, r)
<1>1. s = <<s[1], s[2]>>
      BY DEF Slot
<1>2. PICK next \in Nat : next = Address(r, cmd)
      BY AddressTyped
<1>3. PICK left \in Nat : left = Wanted(cmd, r)
      BY Weights DEF Registers, Wanted
<1>4. device' = [device EXCEPT ![s] =
                    IF kind[s] = "none" THEN device[s]
                    ELSE [noticed |-> FALSE, status |-> device[s].status, cmd |-> cmd,
                          next |-> next, left |-> left]]
      BY <1>1, <1>2, <1>3 DEF Command, Wanted
<1>5. device[s] \in Drive /\ device[s].status \in SUBSET Flags
      BY DEF TypeOK, Drive
<1>6. [noticed |-> FALSE, status |-> device[s].status, cmd |-> cmd,
       next |-> next, left |-> left] \in Drive
      BY <1>5 DEF Drive
<1>   QED BY <1>1, <1>2, <1>3, <1>4, <1>5, <1>6 DEF TypeOK

Singles == {{f} : f \in Flags}

\* What a drive's own step leaves: its place in the data, and a status of this command.
LEMMA DeviceIs ==
    ASSUME TypeOK, NEW s \in Slot, Device(s)
    PROVE  /\ device' \in [Slot -> Drive]
           /\ UNCHANGED <<machine, kind, selected, registers, driver, request, drives>>
           /\ \A t \in Slot :
                 \/ device'[t] = device[t]
                 \/ /\ device'[t].next = device[t].next /\ device'[t].left = device[t].left
                    /\ device'[t].cmd = device[t].cmd
                    /\ device'[t].noticed /\ device'[t].status \in Singles
                    /\ device[t].noticed => "BSY" \in device[t].status
<1>1. PICK noticed \in BOOLEAN, status \in Singles :
         /\ device' = [device EXCEPT ![s].noticed = noticed, ![s].status = status]
         /\ noticed = TRUE /\ (device[s].noticed => "BSY" \in device[s].status)
  <2>1. device[s] \in Drive
        BY DEF TypeOK
  <2>2. CASE DeviceNotices(s)
    <3>1. /\ device' = [device EXCEPT ![s].noticed = TRUE, ![s].status = {"BSY"}]
          /\ ~ device[s].noticed /\ {"BSY"} \in Singles
          BY <2>2 DEF DeviceNotices, Singles, Flags
    <3>   QED BY <3>1
  <2>3. CASE DeviceReady(s) \/ DeviceFails(s)
    <3>1. PICK f \in Flags : device' = [device EXCEPT ![s].status = {f}]
          BY <2>3 DEF DeviceReady, DeviceFails, Flags
    <3>2. device[s].noticed = TRUE /\ "BSY" \in device[s].status
          BY <2>1, <2>3 DEF DeviceReady, DeviceFails, Busy, Drive
    <3>3. [device[s] EXCEPT !.status = {f}]
             = [device[s] EXCEPT !.noticed = TRUE, !.status = {f}]
          BY <2>1, <3>2 DEF Drive
    <3>4. /\ device' = [device EXCEPT ![s] = [device[s] EXCEPT !.status = {f}]]
          /\ [device EXCEPT ![s].noticed = TRUE, ![s].status = {f}]
                = [device EXCEPT ![s] = [device[s] EXCEPT !.noticed = TRUE, !.status = {f}]]
          BY <3>1 DEF TypeOK
    <3>5. device' = [device EXCEPT ![s].noticed = TRUE, ![s].status = {f}]
          BY <3>3, <3>4
    <3>6. {f} \in Singles
          BY DEF Singles
    <3>   QED BY <3>2, <3>5, <3>6
  <2>   QED BY <2>2, <2>3 DEF Device
<1>2. \A t \in Slot : device[t] \in Drive
      BY DEF TypeOK
<1>3. /\ \A t \in Slot : t # s => device'[t] = device[t]
      /\ device'[s] = [device[s] EXCEPT !.noticed = noticed, !.status = status]
      BY <1>1 DEF TypeOK
<1>4. status \in SUBSET Flags
      BY DEF Singles
<1>5. /\ device'[s] \in Drive /\ device'[s].next = device[s].next
      /\ device'[s].left = device[s].left /\ device'[s].cmd = device[s].cmd
      /\ device'[s].noticed = noticed /\ device'[s].status = status
      BY <1>2, <1>3, <1>4 DEF Drive
<1>6. device' \in [Slot -> Drive]
      BY <1>1, <1>2, <1>3, <1>5 DEF TypeOK
<1>7. UNCHANGED <<machine, kind, selected, registers, driver, request, drives>>
      BY DEF Device, DeviceNotices, DeviceReady, DeviceFails
<1>   QED BY <1>1, <1>3, <1>5, <1>6, <1>7

\* The drive after a sector: at the next one, or done.
LEMMA DeliveredTyped ==
    ASSUME NEW d \in Drive
    PROVE  /\ Delivered(d) \in Drive
           /\ d.left > 1 => /\ Delivered(d).noticed = FALSE
                            /\ Delivered(d).next = d.next + 1
                            /\ Delivered(d).left = d.left - 1
                            /\ Delivered(d).cmd = d.cmd
<1>1. NoCommand \in Drive
      BY DEF NoCommand, Drive, Commands
<1>2. d.next + 1 \in Nat /\ (d.left > 1 => d.left - 1 \in Nat)
      BY DEF Drive
<1>   QED BY <1>1, <1>2 DEF Delivered, Drive

-------------------------------------------------------------------------------
(* The steps *)

\* A step that leaves the request alone and does not lead into a call.
LEMMA OutsideCalls ==
    ASSUME IInv, TypeOK', request' = request, driver'.pc \in Search \cup {"idle"},
           driver.pc \in Search
    PROVE  IInv'
<1>1. CallInv'
      BY DEF IInv, CallInv, Search, Reading
<1>2. ReadInv'
      BY DEF ReadInv, Search, Reading
<1>3. StoredInv'
      BY DEF IInv, StoredInv, Search
<1>   QED BY <1>1, <1>2, <1>3 DEF IInv

\* Where the search goes next.
LEMMA NextSlotIs ==
    ASSUME TypeOK, NextSlot
    PROVE  driver' \in [pc : {"select", "idle"}, slot : Slot]
<1>1. /\ <<0, 0>> \in Slot /\ <<0, 1>> \in Slot /\ <<1, 0>> \in Slot /\ <<1, 1>> \in Slot
      BY DEF Slot
<1>2. \/ driver.slot = <<0, 0>> \/ driver.slot = <<0, 1>>
      \/ driver.slot = <<1, 0>> \/ driver.slot = <<1, 1>>
      BY DEF TypeOK, Slot
<1>   QED BY <1>1, <1>2 DEF NextSlot

\* Going to a place keeps the slot.
LEMMA GotoIs ==
    ASSUME TypeOK, NEW pc, Goto(pc)
    PROVE  driver'.pc = pc /\ driver'.slot = driver.slot
           /\ driver' = [pc |-> pc, slot |-> driver.slot]
BY DEF TypeOK, Goto

\* The search keeps its types and leaves no read behind.
LEMMA SearchStep ==
    ASSUME IInv, SelectSlot \/ Identify \/ IsPresent \/ Answer \/ Packet \/ AddDevice
    PROVE  IInv'
<1>   USE DEF IInv
<1>1. /\ driver.pc \in Search /\ request' = request /\ registers' = registers
      BY DEF SelectSlot, Identify, IsPresent, Answer, Packet, AddDevice, Search
<1>2. driver' \in [pc : Search \cup {"idle"}, slot : Slot]
  <2>1. ASSUME NEW pc \in Search, Goto(pc)
        PROVE  driver' \in [pc : Search \cup {"idle"}, slot : Slot]
        BY <2>1, GotoIs, Slots
  <2>2. ASSUME NextSlot
        PROVE  driver' \in [pc : Search \cup {"idle"}, slot : Slot]
        BY <2>2, NextSlotIs DEF Search
  <2>3. \/ NextSlot \/ Goto("identify") \/ Goto("present") \/ Goto("answer")
        \/ Goto("data") \/ Goto("packet")
        BY DEF SelectSlot, Identify, IsPresent, Answer, Packet, AddDevice
  <2>   QED BY <2>1, <2>2, <2>3 DEF Search
<1>3. /\ registers[Ch] \in Registers /\ Ch \in {0, 1} /\ selected[Ch] \in {0, 1}
      BY Slots DEF TypeOK
<1>4. selected' \in [{0, 1} -> {0, 1}]
  <2>1. CASE SelectSlot
        BY <2>1, Slots DEF SelectSlot, TypeOK
  <2>2. CASE selected' = selected
        BY <2>2 DEF TypeOK
  <2>   QED BY <2>1, <2>2 DEF Identify, IsPresent, Answer, Packet, AddDevice
<1>5. device' \in [Slot -> Drive]
  <2>0. PICK s \in Slot, r \in Registers :
           s[1] = Ch /\ s[2] = selected[Ch] /\ r = registers[Ch]
        BY <1>3, Slots
  <2>1. CASE Identify
    <3>1. Command("IDENTIFY", s[1], s[2], r)
          BY <2>0, <2>1 DEF Identify
    <3>   QED BY <3>1, CommandIs DEF Commands
  <2>2. CASE Answer
    <3>1. CASE Command("IDENTIFY_PACKET", Ch, selected[Ch], registers[Ch])
      <4>1. Command("IDENTIFY_PACKET", s[1], s[2], r)
            BY <2>0, <3>1
      <4>   QED BY <4>1, CommandIs DEF Commands
    <3>2. CASE device' = device
          BY <3>2 DEF TypeOK
    <3>   QED BY <2>2, <3>1, <3>2 DEF Answer
  <2>3. CASE AddDevice
    <3>1. PICK q \in Slot : q = <<Ch, selected[Ch]>>
          BY Slots
    <3>2. device' = [device EXCEPT ![q] = IF "DRQ" \in device[q].status
                                          THEN Delivered(device[q]) ELSE device[q]]
          BY <2>3, <3>1 DEF AddDevice
    <3>3. device[q] \in Drive
          BY DEF TypeOK
    <3>4. Delivered(device[q]) \in Drive
          BY <3>3, DeliveredTyped
    <3>   QED BY <3>2, <3>3, <3>4 DEF TypeOK
  <2>4. CASE device' = device
        BY <2>4 DEF TypeOK
  <2>   QED BY <2>1, <2>2, <2>3, <2>4 DEF SelectSlot, IsPresent, Packet
<1>6. drives' \in Seq(Slot)
  <2>1. CASE AddDevice
        BY <2>1, Slots DEF AddDevice, TypeOK
  <2>2. CASE drives' = drives
        BY <2>2 DEF TypeOK
  <2>   QED BY <2>1, <2>2 DEF SelectSlot, Identify, IsPresent, Answer, Packet
<1>7. TypeOK'
  <2>1. registers' \in [{0, 1} -> Registers] /\ request' \in Request
        BY <1>1 DEF TypeOK
  <2>   QED BY <1>2, <1>4, <1>5, <1>6, <2>1 DEF TypeOK, Registers, Drive, Request, Search
<1>   QED BY <1>1, <1>2, <1>7, OutsideCalls

\* A call begins with nothing stored and no result, or is refused at once.
LEMMA CallStep ==
    ASSUME IInv, NEW lba \in Sectors, NEW n \in Counts, drive_read(lba, n)
    PROVE  IInv'
<1>1. /\ lba \in Nat /\ lba < Byte * Byte * Byte * Byte
      /\ n \in Nat /\ n % Byte \in 0 .. Byte - 1
  <2>1. n \in Nat /\ Byte \in Nat \ {0}
        BY DriveAssumption, Weights
  <2>2. Byte * Byte * Byte * Byte \in Nat
        BY <2>1, Products
  <2>3. lba \in 0 .. Byte * Byte * Byte * Byte - 1
        BY DriveAssumption
  <2>   QED BY <2>1, <2>2, <2>3, Division
<1>2. /\ driver.pc = "idle" /\ drives # <<>>
      /\ UNCHANGED <<machine, kind, device, selected, registers, drives>>
      BY DEF drive_read
<1>3. drives[1] \in Slot
      BY <1>2 DEF IInv, TypeOK
<1>4. PICK ret \in {Pending, 1} :
         /\ request' = [lba |-> lba, n |-> n, count |-> n % Byte, dst |-> <<>>, ret |-> ret]
         /\ \/ /\ ret = Pending /\ kind[drives[1]] = "ata"
               /\ driver' = [pc |-> "free", slot |-> drives[1]]
            \/ ret = 1 /\ driver' = driver
      BY DEF drive_read, Count
<1>5. /\ request'.lba = lba /\ request'.n = n /\ request'.count = n % Byte
      /\ request'.dst = <<>> /\ request'.ret = ret /\ ret \in Int /\ ret # 0
      BY <1>4 DEF Pending
<1>6. request' \in Request
      BY <1>1, <1>4, <1>5 DEF Request
<1>7. /\ driver' \in [pc : Search \cup Reading \cup {"idle", "free", "done"}, slot : Slot]
      /\ driver'.pc \in {"idle", "free"}
      /\ driver'.pc = "free" => ret = Pending /\ kind[driver'.slot] = "ata"
      BY <1>2, <1>3, <1>4 DEF IInv, TypeOK
<1>8. TypeOK'
      BY <1>2, <1>6, <1>7 DEF IInv, TypeOK
<1>9. CallInv'
      BY <1>1, <1>2, <1>5, <1>7 DEF CallInv, Reading
<1>10. ReadInv'
      BY <1>7 DEF ReadInv, Reading
<1>11. StoredInv'
      BY <1>5, <1>7 DEF StoredInv
<1>   QED BY <1>8, <1>9, <1>10, <1>11 DEF IInv

\* The command starts the read at the sector meant, with the count meant.
LEMMA StartStep ==
    ASSUME IInv, StartRead
    PROVE  IInv'
<1>   USE DEF IInv
<1>   DEFINE lba  == request.lba
             c    == request.count
             d    == driver.slot[2]
             want == ReadCommand(lba)
<1>1. /\ driver.pc = "free" /\ Ch \in {0, 1} /\ d \in {0, 1} /\ driver.slot = <<Ch, d>>
      /\ driver.slot \in Slot
      BY Slots DEF StartRead
<1>2. /\ lba \in Nat /\ lba < Byte * Byte * Byte * Byte /\ c \in 0 .. Byte - 1
      /\ request.dst = <<>> /\ request.ret = Pending /\ kind[driver.slot] = "ata"
      BY <1>1 DEF TypeOK, Request, CallInv
<1>3. PICK r \in Registers : r = SetLba(lba, c) /\ r.count = c /\ Address(r, want) = lba
      BY <1>2, RegistersTyped, SetLbaIs, AddressMeant
<1>4. selected' = [selected EXCEPT ![Ch] = d] /\ registers' = [registers EXCEPT ![Ch] = r]
      BY <1>3 DEF StartRead
<1>5. selected'[Ch] = d /\ registers'[Ch] = r
      BY <1>1, <1>4 DEF TypeOK
<1>6. Command(want, Ch, d, r)
      BY <1>5 DEF StartRead, ReadCommand
<1>7. want \in ReadCommands /\ want \in Commands \ {"none"}
      BY DEF ReadCommand, ReadCommands, Commands
<1>8. /\ device' \in [Slot -> Drive]
      /\ device'[driver.slot].noticed = FALSE /\ device'[driver.slot].cmd = want
      /\ device'[driver.slot].next = lba
      /\ c # 0 => device'[driver.slot].left = c
  <2>1. PICK s \in Slot, k \in Commands \ {"none"} : s = driver.slot /\ k = want
        BY <1>1, <1>7
  <2>2. Command(k, s[1], s[2], r) /\ kind[s] # "none" /\ k \in ReadCommands
        BY <1>2, <1>6, <1>7, <2>1 DEF Ch
  <2>3. /\ device' \in [Slot -> Drive]
        /\ device'[s].noticed = FALSE /\ device'[s].cmd = k
        /\ device'[s].next = Address(r, k)
        /\ device'[s].left = Wanted(k, r)
        BY <2>2, CommandIs
  <2>4. c # 0 => Wanted(k, r) = c
        BY <1>3, <2>2 DEF Wanted, ReadCommands
  <2>   QED BY <1>3, <2>1, <2>3, <2>4
<1>9. /\ request' = request /\ kind' = kind /\ drives' = drives
      /\ driver'.slot = driver.slot
      /\ driver'.pc = IF c = 0 THEN "done" ELSE "settle"
      /\ driver' = [pc |-> driver'.pc, slot |-> driver.slot]
  <2>1. Goto(IF c = 0 THEN "done" ELSE "settle")
        BY DEF StartRead
  <2>   QED BY <2>1, GotoIs DEF StartRead
<1>10. TypeOK'
  <2>1. driver' \in [pc : Search \cup Reading \cup {"idle", "free", "done"}, slot : Slot]
        BY <1>1, <1>9 DEF Reading
  <2>2. /\ selected' \in [{0, 1} -> {0, 1}] /\ registers' \in [{0, 1} -> Registers]
        BY <1>1, <1>4 DEF TypeOK
  <2>   QED BY <1>8, <1>9, <2>1, <2>2 DEF TypeOK
<1>11. CallInv'
      BY <1>2, <1>9 DEF CallInv, Reading
<1>12. ReadInv'
  <2>1. Ch' = Ch /\ Here' = device'[driver.slot]
        BY <1>1, <1>5, <1>9 DEF Ch, Here
  <2>2. Len(request.dst) = 0
        BY <1>2
  <2>3. c # 0 => Len(request.dst) < c
        BY <1>2, <2>2, Weights
  <2>4. lba + Len(request.dst) = lba /\ c - Len(request.dst) = c
        BY <1>2, <2>2, Weights
  <2>5. driver'.pc \in Reading =>
           /\ Len(request.dst) < c
           /\ Here'.next = lba + Len(request.dst) /\ Here'.left = c - Len(request.dst)
           /\ Here'.cmd \in ReadCommands /\ Here'.noticed = FALSE
           /\ selected'[Ch] = d
        BY <1>5, <1>7, <1>8, <1>9, <2>1, <2>3, <2>4 DEF Reading
  <2>6. driver'.pc \notin {"poll", "words"}
        BY <1>9
  <2>   QED BY <1>9, <2>1, <2>5, <2>6 DEF ReadInv
<1>13. StoredInv'
      BY <1>2, <1>9 DEF StoredInv, Pending
<1>   QED BY <1>10, <1>11, <1>12, <1>13

\* Waiting takes the drive no further: only the drive's own steps do.
LEMMA WaitStep ==
    ASSUME IInv, Settle \/ Poll
    PROVE  IInv'
<1>   USE DEF IInv
<1>1. /\ driver.pc \in {"settle", "poll"} /\ driver.pc \in Reading
      /\ UNCHANGED <<machine, kind, device, selected, registers, drives>>
      BY DEF Settle, Poll, Reading
<1>2. /\ request \in Request /\ request.ret = Pending /\ kind[driver.slot] = "ata"
      /\ driver.slot \in Slot
      BY <1>1 DEF TypeOK, CallInv
<1>3. CASE Settle
  <2>1. /\ driver'.pc = "poll" /\ driver'.slot = driver.slot /\ request' = request
        /\ driver' = [pc |-> "poll", slot |-> driver.slot] /\ Here.noticed
        BY <1>3, GotoIs DEF Settle, Settled
  <2>2. TypeOK'
        BY <1>1, <1>2, <2>1 DEF TypeOK, Reading
  <2>3. Here' = Here /\ Ch' = Ch
        BY <1>1, <2>1 DEF Here, Ch
  <2>4. CallInv' /\ ReadInv' /\ StoredInv'
        BY <1>1, <1>2, <2>1, <2>3 DEF CallInv, ReadInv, StoredInv, Reading, Pending
  <2>   QED BY <2>2, <2>4
<1>4. CASE Poll /\ PollResult(Here.status) = 0
  <2>1. /\ driver'.pc = "words" /\ driver'.slot = driver.slot /\ request' = request
        /\ driver' = [pc |-> "words", slot |-> driver.slot] /\ driver.pc = "poll"
        BY <1>4, GotoIs DEF Poll
  <2>2. TypeOK'
        BY <1>1, <1>2, <2>1 DEF TypeOK, Reading
  <2>3. Here' = Here /\ Ch' = Ch
        BY <1>1, <2>1 DEF Here, Ch
  <2>4. Here.noticed /\ Here.status \in {{f} : f \in Flags}
        BY <2>1 DEF ReadInv, Reading
  <2>5. "DRQ" \in Here.status
        BY <1>4 DEF PollResult
  <2>6. Here.status = {"DRQ"}
        BY <2>4, <2>5
  <2>7. CallInv' /\ ReadInv' /\ StoredInv'
        BY <1>1, <1>2, <2>1, <2>3, <2>4, <2>6
        DEF CallInv, ReadInv, StoredInv, Reading, Pending
  <2>   QED BY <2>2, <2>7
<1>5. CASE Poll /\ PollResult(Here.status) # 0
  <2>1. PICK ret \in {1, 2, 3} : ret = PollResult(Here.status)
        BY <1>5 DEF PollResult
  <2>2. /\ driver'.pc = "idle" /\ request' = [request EXCEPT !.ret = ret]
        /\ driver' = [pc |-> "idle", slot |-> driver.slot]
        BY <1>5, <2>1, GotoIs DEF Poll
  <2>3. /\ request' \in Request /\ request'.lba = request.lba /\ request'.n = request.n
        /\ request'.count = request.count /\ request'.dst = request.dst
        /\ request'.ret = ret
        BY <1>2, <2>2 DEF Request
  <2>4. TypeOK'
        BY <1>1, <1>2, <2>2, <2>3 DEF TypeOK, Reading
  <2>5. CallInv' /\ ReadInv' /\ StoredInv'
        BY <1>1, <1>2, <2>2, <2>3 DEF CallInv, ReadInv, StoredInv, Reading
  <2>   QED BY <2>4, <2>5
<1>   QED BY <1>3, <1>4, <1>5

\* A sector's words: one more is stored, and the drive is one further.
LEMMA SectorStep ==
    ASSUME IInv, ReadSector
    PROVE  IInv'
<1>   USE DEF IInv
<1>   DEFINE n == Len(request.dst)
<1>1. /\ driver.pc = "words" /\ driver.pc \in Reading
      /\ UNCHANGED <<machine, kind, selected, registers, drives>>
      BY DEF ReadSector, Reading
<1>2. /\ request \in Request /\ request.ret = Pending /\ kind[driver.slot] = "ata"
      /\ driver.slot \in Slot /\ request.dst \in Seq(Nat) /\ n \in Nat
      /\ request.lba \in Nat /\ request.count \in Nat
      BY <1>1, Weights DEF TypeOK, CallInv, Request
<1>3. PICK s \in Slot : /\ s = <<Ch, selected[Ch]>> /\ s = driver.slot
                        /\ Here = device[s] /\ Here \in Drive
      BY <1>1, Slots DEF ReadInv, Here
<1>4. /\ n < request.count /\ Here.next = request.lba + n /\ Here.left = request.count - n
      /\ Here.cmd \in ReadCommands
      BY <1>1 DEF ReadInv
<1>5. request' = [request EXCEPT !.dst = Append(request.dst, Here.next)]
      BY DEF ReadSector
<1>6. PICK dst \in Seq(Nat) : dst = Append(request.dst, Here.next)
  <2>1. Here.next \in Nat
        BY <1>3 DEF Drive
  <2>2. request.dst \in Seq(Nat)
        BY <1>2
  <2>3. Append(request.dst, Here.next) \in Seq(Nat)
        BY <2>1, <2>2
  <2>   QED BY <2>3
<1>7. /\ Len(dst) = n + 1
      /\ \A i \in 1 .. n + 1 : dst[i] = IF i = n + 1 THEN Here.next ELSE request.dst[i]
      BY <1>2, <1>3, <1>6 DEF Drive
<1>8. /\ request' \in Request /\ request'.dst = dst /\ request'.lba = request.lba
      /\ request'.count = request.count /\ request'.n = request.n
      /\ request'.ret = request.ret
      BY <1>2, <1>5, <1>6 DEF Request
<1>9. /\ device' \in [Slot -> Drive] /\ device'[s] = Delivered(Here)
      /\ device' = [device EXCEPT ![s] = Delivered(Here)]
  <2>1. device' = [device EXCEPT ![s] = Delivered(device[s])]
        BY <1>3 DEF ReadSector
  <2>2. Delivered(Here) \in Drive
        BY <1>3, DeliveredTyped
  <2>   QED BY <1>3, <2>1, <2>2 DEF TypeOK
<1>10. /\ driver'.slot = driver.slot
       /\ driver'.pc = IF n + 1 < request.count THEN "settle" ELSE "done"
       /\ driver' = [pc |-> driver'.pc, slot |-> driver.slot]
  <2>1. Goto(IF n + 1 < request.count THEN "settle" ELSE "done")
        BY DEF ReadSector
  <2>   QED BY <2>1, GotoIs
<1>11. TypeOK'
  <2>1. driver' \in [pc : Search \cup Reading \cup {"idle", "free", "done"}, slot : Slot]
        BY <1>2, <1>10 DEF Reading
  <2>   QED BY <1>1, <1>8, <1>9, <2>1 DEF TypeOK
<1>12. CallInv'
      BY <1>1, <1>2, <1>8, <1>10 DEF CallInv, Reading
<1>13. ReadInv'
  <2>1. Ch' = Ch /\ Here' = Delivered(Here)
        BY <1>1, <1>3, <1>9, <1>10 DEF Ch, Here
  <2>2. n + 1 < request.count =>
           /\ Here'.noticed = FALSE /\ Here'.next = request.lba + (n + 1)
           /\ Here'.left = request.count - (n + 1) /\ Here'.cmd \in ReadCommands
    <3>   SUFFICES ASSUME n + 1 < request.count
                   PROVE  /\ Here'.noticed = FALSE /\ Here'.next = request.lba + (n + 1)
                          /\ Here'.left = request.count - (n + 1)
                          /\ Here'.cmd \in ReadCommands
          OBVIOUS
    <3>1. Here.left > 1
          BY <1>2, <1>4
    <3>2. /\ Here'.noticed = FALSE /\ Here'.next = Here.next + 1
          /\ Here'.left = Here.left - 1 /\ Here'.cmd = Here.cmd
          BY <1>3, <2>1, <3>1, DeliveredTyped
    <3>3. request.lba \in Nat /\ request.count \in Nat /\ n \in Nat
          BY <1>2
    <3>4. /\ (request.lba + n) + 1 = request.lba + (n + 1)
          /\ (request.count - n) - 1 = request.count - (n + 1)
          BY <3>3
    <3>   QED BY <1>4, <3>2, <3>4
  <2>3. selected'[Ch] = driver.slot[2]
        BY <1>1 DEF ReadInv
  <2>   QED BY <1>7, <1>8, <1>10, <2>1, <2>2, <2>3 DEF ReadInv, Reading
<1>14. StoredInv'
  <2>1. \A i \in 1 .. n + 1 : dst[i] = request.lba + i - 1
        BY <1>2, <1>4, <1>7 DEF StoredInv
  <2>2. driver'.pc = "done" => n + 1 = request.count
        BY <1>2, <1>4, <1>10
  <2>   QED BY <1>2, <1>7, <1>8, <2>1, <2>2 DEF StoredInv, Pending
<1>   QED BY <1>11, <1>12, <1>13, <1>14

\* The end of a read reports success.
LEMMA DoneStep ==
    ASSUME IInv, ReadDone
    PROVE  IInv'
<1>   USE DEF IInv
<1>1. /\ driver.pc = "done" /\ request \in Request
      /\ UNCHANGED <<machine, kind, device, selected, registers, drives>>
      /\ driver'.pc = "idle" /\ driver' = [pc |-> "idle", slot |-> driver.slot]
      /\ driver.slot \in Slot
      BY GotoIs DEF ReadDone, TypeOK
<1>2. request' = [request EXCEPT !.ret = 0]
      BY DEF ReadDone
<1>3. /\ request' \in Request /\ request'.lba = request.lba /\ request'.n = request.n
      /\ request'.count = request.count /\ request'.dst = request.dst /\ request'.ret = 0
      BY <1>1, <1>2 DEF Request
<1>4. TypeOK'
      BY <1>1, <1>3 DEF TypeOK
<1>5. CallInv' /\ ReadInv' /\ StoredInv'
      BY <1>1, <1>3 DEF CallInv, ReadInv, StoredInv, Reading
<1>   QED BY <1>4, <1>5

\* A drive's own step does not move it, and once it offers words it waits for the
\* driver to take them.
LEMMA DriveStep ==
    ASSUME IInv, NEW s \in Slot, Device(s)
    PROVE  IInv'
<1>   USE DEF IInv
<1>1. /\ device' \in [Slot -> Drive]
      /\ UNCHANGED <<machine, kind, selected, registers, driver, request, drives>>
      BY DeviceIs
<1>2. TypeOK'
      BY <1>1 DEF TypeOK
<1>3. PICK t \in Slot : t = <<Ch, selected[Ch]>>
      BY Slots
<1>4. Ch' = Ch /\ Here = device[t] /\ Here' = device'[t]
      BY <1>1, <1>3 DEF Ch, Here
<1>5. \/ Here' = Here
      \/ /\ Here'.next = Here.next /\ Here'.left = Here.left /\ Here'.cmd = Here.cmd
         /\ Here'.noticed /\ Here'.status \in Singles
         /\ Here.noticed => "BSY" \in Here.status
      BY <1>4, DeviceIs
<1>6. ReadInv'
  <2>1. CASE Here' = Here
        BY <1>1, <1>4, <2>1 DEF ReadInv
  <2>2. CASE /\ Here'.next = Here.next /\ Here'.left = Here.left /\ Here'.cmd = Here.cmd
             /\ Here'.noticed /\ Here'.status \in Singles
             /\ Here.noticed => "BSY" \in Here.status
    <3>1. driver.pc # "words"
          BY <2>2 DEF ReadInv
    <3>   QED BY <1>1, <1>4, <2>2, <3>1 DEF ReadInv, Singles
  <2>   QED BY <1>5, <2>1, <2>2
<1>7. CallInv' /\ StoredInv'
      BY <1>1 DEF CallInv, StoredInv
<1>   QED BY <1>2, <1>6, <1>7

\* Before the search nothing is read.
LEMMA InitInv == Init => IInv
<1>   SUFFICES ASSUME Init PROVE IInv
      OBVIOUS
<1>1. Byte \in Nat /\ Byte > 1 /\ 0 \in 0 .. Byte - 1 /\ 0 % Byte = 0
      BY Weights
<1>2. 0 < Byte * Byte * Byte * Byte
  <2>1. Byte * Byte \in Nat /\ Byte * Byte > 0
        BY <1>1, Products
  <2>2. Byte * Byte * Byte \in Nat /\ Byte * Byte * Byte > 0
        BY <1>1, <2>1, Products
  <2>   QED BY <1>1, <2>2, Products
<1>3. SetLba(0, 0) \in Registers
      BY <1>1, <1>2, RegistersTyped
<1>4. NoCommand \in Drive
      BY DEF NoCommand, Drive, Commands
<1>5. driver \in [pc : {"select", "idle"}, slot : Slot]
      BY DEF Init, ide_init, Slot
<1>6. request = [lba |-> 0, n |-> 0, count |-> 0, dst |-> <<>>, ret |-> Pending]
      BY DEF Init
<1>7. request \in Request
      BY <1>1, <1>6 DEF Request, Pending
<1>8. TypeOK
      BY <1>3, <1>4, <1>5, <1>7 DEF Init, TypeOK, Search
<1>9. CallInv /\ ReadInv
      BY <1>1, <1>2, <1>5, <1>6 DEF CallInv, ReadInv, Reading
<1>10. StoredInv
      BY <1>5, <1>6 DEF StoredInv, Pending
<1>   QED BY <1>8, <1>9, <1>10 DEF IInv

\* Whatever the drives do and when, the driver and the drive agree on the sector
\* that comes next, on how many are left and on what has been stored.
THEOREM DriveInvariant == Spec => []IInv
<1>1. IInv /\ [Next]_vars => IInv'
  <2>   SUFFICES ASSUME IInv, [Next]_vars PROVE IInv'
        OBVIOUS
  <2>1. CASE SelectSlot \/ Identify \/ IsPresent \/ Answer \/ Packet \/ AddDevice
        BY <2>1, SearchStep
  <2>2. CASE \E lba \in Sectors, n \in Counts : drive_read(lba, n)
        BY <2>2, CallStep
  <2>3. CASE StartRead
        BY <2>3, StartStep
  <2>4. CASE Settle \/ Poll
        BY <2>4, WaitStep
  <2>5. CASE ReadSector
        BY <2>5, SectorStep
  <2>6. CASE ReadDone
        BY <2>6, DoneStep
  <2>7. CASE \E s \in Slot : Device(s)
        BY <2>7, DriveStep
  <2>8. CASE UNCHANGED vars
        BY <2>8 DEF vars, IInv, TypeOK, CallInv, ReadInv, StoredInv, Here, Ch
  <2>   QED BY <2>1, <2>2, <2>3, <2>4, <2>5, <2>6, <2>7, <2>8 DEF Next, Driver
<1>   QED BY <1>1, InitInv, PTL DEF Spec

\* Words are taken only from a drive that offers them for this command, and it is
\* the drive the caller meant, at the sector it meant (ide.c:281 and 293).
THEOREM WordsOnlyOffered == Spec => []WordsOffered
<1>1. IInv => WordsOffered
      BY DEF IInv, ReadInv, WordsOffered, Reading
<1>   QED BY <1>1, DriveInvariant, PTL

\* A read that reports success has stored the sectors asked for, in order, in either
\* form of address; of a count beyond 8 bits the remainder (drive.c and ide.c:281).
THEOREM ReadsExact == Spec => []ReadExact
<1>1. IInv => ReadExact
  <2>   SUFFICES ASSUME IInv, driver.pc = "idle", request.ret = 0
                 PROVE  request.dst = [i \in 1 .. request.n % Byte |-> request.lba + i - 1]
        BY DEF ReadExact
  <2>1. /\ request.dst \in Seq(Nat) /\ Len(request.dst) = request.n % Byte
        /\ \A i \in 1 .. Len(request.dst) : request.dst[i] = request.lba + i - 1
        BY DEF IInv, TypeOK, Request, CallInv, StoredInv
  <2>2. request.dst = [i \in 1 .. Len(request.dst) |-> request.dst[i]]
        BY <2>1
  <2>   QED BY <2>1, <2>2
<1>   QED BY <1>1, DriveInvariant, PTL

-------------------------------------------------------------------------------
(* The search *)

\* The numbers of the slots.
LEMMA SlotNumbers ==
    /\ Slot = {<<0, 0>>, <<0, 1>>, <<1, 0>>, <<1, 1>>}
    /\ Number(<<0, 0>>) = 0 /\ Number(<<0, 1>>) = 1
    /\ Number(<<1, 0>>) = 2 /\ Number(<<1, 1>>) = 3
BY DEF Slot, Number

\* Going on leaves behind the slot that the search was at.
LEMMA PassedNext ==
    ASSUME TypeOK, driver.pc \in Search, NextSlot, NEW s \in Slot
    PROVE  Passed(s)' <=> (Passed(s) \/ s = driver.slot)
<1>1. PICK a \in Slot : a = driver.slot
      BY Slots
<1>2. \/ a = <<0, 0>> /\ driver' = [pc |-> "select", slot |-> <<0, 1>>]
      \/ a = <<0, 1>> /\ driver' = [pc |-> "select", slot |-> <<1, 0>>]
      \/ a = <<1, 0>> /\ driver' = [pc |-> "select", slot |-> <<1, 1>>]
      \/ a = <<1, 1>> /\ driver' = [pc |-> "idle", slot |-> <<1, 1>>]
      BY <1>1, SlotNumbers DEF NextSlot
<1>3. Passed(s) <=> Number(s) < Number(a)
      BY <1>1 DEF Passed
<1>4. Passed(s)' <=> (driver'.pc \in Search => Number(s) < Number(driver'.slot))
      BY DEF Passed
<1>5. "select" \in Search /\ "idle" \notin Search
      BY DEF Search
<1>   QED BY <1>1, <1>2, <1>3, <1>4, <1>5, SlotNumbers

\* Outside the search, and as long as it stays at a slot, what has been found stays.
LEMMA FoundKept ==
    ASSUME FoundInv, drives' = drives, kind' = kind,
           \/ driver.pc \in Search /\ driver'.pc \in Search /\ driver'.slot = driver.slot
           \/ driver.pc \notin Search /\ driver'.pc \notin Search
    PROVE  FoundInv'
<1>1. \A s \in Slot : Passed(s)' <=> Passed(s)
      BY DEF Passed
<1>2. \A s \in Slot : Present(s)' <=> Present(s)
      BY DEF Present
<1>3. {s \in Slot : Present(s)' /\ Passed(s)'} = {s \in Slot : Present(s) /\ Passed(s)}
      BY <1>1, <1>2
<1>   QED BY <1>3 DEF FoundInv

\* A slot without a drive of the kinds that are used is passed.
LEMMA FoundNothing ==
    ASSUME TypeOK, FoundInv, driver.pc \in Search, NextSlot, drives' = drives, kind' = kind,
           ~ Present(driver.slot)
    PROVE  FoundInv'
<1>1. \A s \in Slot : Present(s)' <=> Present(s)
      BY DEF Present
<1>2. \A s \in Slot : Passed(s)' <=> (Passed(s) \/ s = driver.slot)
      BY PassedNext
<1>3. {s \in Slot : Present(s)' /\ Passed(s)'} = {s \in Slot : Present(s) /\ Passed(s)}
      BY <1>1, <1>2
<1>   QED BY <1>3 DEF FoundInv

\* A drive is added behind those of the slots before.
LEMMA FoundOne ==
    ASSUME TypeOK, FoundInv, driver.pc \in Search, NextSlot, kind' = kind,
           drives' = Append(drives, driver.slot), Present(driver.slot)
    PROVE  FoundInv'
<1>1. \A s \in Slot : Present(s)' <=> Present(s)
      BY DEF Present
<1>2. \A s \in Slot : Passed(s)' <=> (Passed(s) \/ s = driver.slot)
      BY PassedNext
<1>3. PICK a \in Slot, n \in Nat : a = driver.slot /\ n = Len(drives)
      BY Slots DEF TypeOK
<1>4. drives \in Seq(Slot)
      BY DEF TypeOK
<1>5. /\ DOMAIN drives = 1 .. n /\ DOMAIN drives' = 1 .. n + 1
      /\ \A i \in 1 .. n : drives'[i] = drives[i]
      /\ drives'[n + 1] = a
      BY <1>3, <1>4
<1>6. ToSet(drives') = ToSet(drives) \cup {a}
  <2>1. \A i \in 1 .. n + 1 : i \in 1 .. n \/ i = n + 1
        BY <1>3
  <2>2. 1 .. n \subseteq 1 .. n + 1 /\ n + 1 \in 1 .. n + 1
        BY <1>3
  <2>   QED BY <1>5, <2>1, <2>2, Zenon DEF ToSet
<1>7. ToSet(drives') = {s \in Slot : Present(s)' /\ Passed(s)'}
      BY <1>1, <1>2, <1>3, <1>6 DEF FoundInv
<1>8. ASSUME NEW i \in DOMAIN drives', NEW j \in DOMAIN drives', i < j
      PROVE  Number(drives'[i]) < Number(drives'[j])
  <2>1. i \in 1 .. n
        BY <1>3, <1>5, <1>8
  <2>2. CASE j = n + 1
    <3>1. drives[i] \in {s \in Slot : Present(s) /\ Passed(s)}
          BY <1>5, <2>1 DEF FoundInv, ToSet
    <3>   QED BY <1>3, <1>5, <2>1, <2>2, <3>1 DEF Passed
  <2>3. CASE j # n + 1
    <3>1. j \in 1 .. n
          BY <1>3, <1>5, <2>3
    <3>   QED BY <1>5, <1>8, <2>1, <3>1 DEF FoundInv
  <2>   QED BY <2>2, <2>3
<1>   QED BY <1>7, <1>8 DEF FoundInv

\* How the search knows a drive, by the answer of its kind.
LEMMA AnswerKinds ==
    /\ \A k : {} \notin Answers(k) /\ Answers(k) \subseteq Singles
    /\ \A k, st : st \in Answers(k) /\ "ERR" \in st => k # "ata"
    /\ \A k, st : st \in Answers(k) /\ "ERR" \notin st /\ "DRQ" \in st => k = "ata"
BY DEF Answers, Singles, Flags

\* What no step of the search changes.
SearchFrame == kind' = kind /\ machine' = machine /\ driver.pc \in Search

\* The drive of the slot that the search is at, once it is selected.
LEMMA HereIs ==
    ASSUME TypeOK, SearchInv, driver.pc \in Search \ {"select"}
    PROVE  Here = device[driver.slot] /\ selected[Ch] = driver.slot[2]
BY Slots DEF SearchInv, Here

\* A step that goes on at the same slot.
LEMMA ScanGoesOn ==
    ASSUME TypeOK, ScanInv, SearchFrame, drives' = drives, NEW pc \in Search, Goto(pc)
    PROVE  /\ FoundInv' /\ KindInv' /\ machine' \in Machines
           /\ driver'.pc = pc /\ driver'.slot = driver.slot /\ Ch' = Ch
<1>1. driver'.pc = pc /\ driver'.slot = driver.slot
      BY GotoIs
<1>2. FoundInv'
      BY <1>1, FoundKept DEF ScanInv, SearchFrame
<1>   QED BY <1>1, <1>2 DEF ScanInv, SearchFrame, KindInv, Ch

\* A step that goes on to the next slot.
LEMMA ScanPasses ==
    ASSUME TypeOK, ScanInv, SearchFrame, NextSlot,
           \A s \in Slot : kind[s] = "none" => device'[s] = device[s],
           \/ drives' = drives /\ ~ Present(driver.slot)
           \/ drives' = Append(drives, driver.slot) /\ Present(driver.slot)
    PROVE  ScanInv'
<1>1. FoundInv'
      BY FoundNothing, FoundOne DEF ScanInv, SearchFrame
<1>2. driver'.pc \in {"select", "idle"}
      BY NextSlotIs
<1>3. \A s \in Slot : kind'[s] = "none" => device'[s] = NoCommand
      BY DEF ScanInv, SearchFrame, SearchInv
<1>4. SearchInv'
      BY <1>2, <1>3 DEF SearchInv, Search
<1>   QED BY <1>1, <1>4 DEF ScanInv, SearchFrame, KindInv

\* A command leaves alone the slots where nothing is.
LEMMA CommandMisses ==
    ASSUME TypeOK, NEW cmd, NEW s \in Slot, NEW r, Command(cmd, s[1], s[2], r)
    PROVE  \A t \in Slot : kind[t] = "none" => device'[t] = device[t]
<1>1. s = <<s[1], s[2]>> /\ device \in [Slot -> Drive]
      BY DEF Slot, TypeOK
<1>   QED BY <1>1 DEF Command

\* The drive is selected, and has an IDENTIFY to notice.
LEMMA ScanSelects ==
    ASSUME TypeOK, ScanInv, SelectSlot
    PROVE  ScanInv'
<1>1. /\ SearchFrame /\ Goto("identify") /\ "identify" \in Search
      /\ drives' = drives /\ device' = device
      /\ selected' = [selected EXCEPT ![Ch] = driver.slot[2]]
      BY DEF SelectSlot, Search, SearchFrame
<1>2. /\ FoundInv' /\ KindInv' /\ machine' \in Machines
      /\ driver'.pc = "identify" /\ driver'.slot = driver.slot /\ Ch' = Ch
      BY <1>1, ScanGoesOn
<1>3. selected'[Ch] = driver.slot[2]
      BY <1>1, Slots DEF TypeOK
<1>4. SearchInv'
      BY <1>1, <1>2, <1>3 DEF ScanInv, SearchInv, SearchFrame
<1>   QED BY <1>2, <1>4 DEF ScanInv

\* The selected drive gets the command, and has not answered.
LEMMA ScanIdentifies ==
    ASSUME TypeOK, ScanInv, Identify
    PROVE  ScanInv'
<1>1. /\ SearchFrame /\ Goto("present") /\ "present" \in Search
      /\ driver.pc \in Search \ {"select"}
      /\ drives' = drives /\ selected' = selected
      /\ Command("IDENTIFY", Ch, selected[Ch], registers[Ch])
      BY DEF Identify, Search, SearchFrame
<1>2. /\ FoundInv' /\ KindInv' /\ machine' \in Machines
      /\ driver'.pc = "present" /\ driver'.slot = driver.slot /\ Ch' = Ch
      BY <1>1, ScanGoesOn
<1>3. selected[Ch] = driver.slot[2]
      BY <1>1, HereIs DEF ScanInv
<1>4. PICK s \in Slot, r \in Registers : /\ s = driver.slot /\ s = <<Ch, s[2]>>
                                         /\ r = registers[Ch]
      BY Slots DEF TypeOK
<1>5. Command("IDENTIFY", s[1], s[2], r)
      BY <1>1, <1>3, <1>4 DEF Ch
<1>6. /\ kind[s] # "none" => device'[s].noticed = FALSE /\ device'[s].cmd = "IDENTIFY"
      /\ \A t \in Slot : kind[t] = "none" => device'[t] = device[t]
      BY <1>5, CommandIs, CommandMisses DEF Commands
<1>7. Here' = device'[s] /\ selected'[Ch'] = driver'.slot[2]
      BY <1>1, <1>2, <1>3, <1>4 DEF Here
<1>8. SearchInv'
      BY <1>1, <1>2, <1>4, <1>6, <1>7 DEF ScanInv, SearchInv, SearchFrame
<1>   QED BY <1>2, <1>8 DEF ScanInv

\* A status of zero is that of a slot without a drive.
LEMMA ScanLooks ==
    ASSUME TypeOK, ScanInv, IsPresent
    PROVE  ScanInv'
<1>1. /\ SearchFrame /\ driver.pc = "present" /\ driver.pc \in Search \ {"select"}
      /\ drives' = drives /\ device' = device /\ selected' = selected /\ Here.noticed
      BY DEF IsPresent, Search, SearchFrame
<1>2. /\ Here = device[driver.slot] /\ selected[Ch] = driver.slot[2]
      /\ driver.slot \in Slot
      BY <1>1, HereIs, Slots DEF ScanInv
<1>3. CASE Here.status = {}
  <2>1. kind[driver.slot] = "none"
        BY <1>1, <1>3, AnswerKinds DEF ScanInv, SearchInv
  <2>2. NextSlot /\ ~ Present(driver.slot)
        BY <1>3, <2>1 DEF IsPresent, Present
  <2>   QED BY <1>1, <2>2, ScanPasses
<1>4. CASE Here.status # {}
  <2>1. kind[driver.slot] # "none"
        BY <1>1, <1>2, <1>4 DEF ScanInv, SearchInv, NoCommand
  <2>2. Goto("answer") /\ "answer" \in Search
        BY <1>4 DEF IsPresent, Search
  <2>3. /\ FoundInv' /\ KindInv' /\ machine' \in Machines
        /\ driver'.pc = "answer" /\ driver'.slot = driver.slot /\ Ch' = Ch
        BY <1>1, <2>2, ScanGoesOn
  <2>4. Here' = Here
        BY <1>1, <2>3 DEF Here
  <2>5. SearchInv'
        BY <1>1, <1>2, <2>1, <2>3, <2>4 DEF ScanInv, SearchInv, SearchFrame
  <2>   QED BY <2>3, <2>5 DEF ScanInv
<1>   QED BY <1>3, <1>4

\* Data come from an ATA drive, an error with the signature from an ATAPI drive,
\* and any other from a drive that is not used.
LEMMA ScanAnswered ==
    ASSUME TypeOK, ScanInv, Answer
    PROVE  ScanInv'
<1>1. /\ SearchFrame /\ driver.pc = "answer" /\ driver.pc \in Search \ {"select"}
      /\ drives' = drives /\ selected' = selected /\ Answered
      BY DEF Answer, Search, SearchFrame
<1>2. /\ Here = device[driver.slot] /\ selected[Ch] = driver.slot[2]
      /\ driver.slot \in Slot
      BY <1>1, HereIs, Slots DEF ScanInv
<1>3. kind[driver.slot] # "none" /\ Here.status \in Answers(kind[driver.slot])
      BY <1>1 DEF ScanInv, SearchInv
<1>4. CASE "ERR" \notin Here.status
  <2>1. kind[driver.slot] = "ata"
        BY <1>1, <1>3, <1>4, AnswerKinds DEF Answered
  <2>2. Goto("data") /\ "data" \in Search /\ device' = device
        BY <1>4 DEF Answer, Search
  <2>3. /\ FoundInv' /\ KindInv' /\ machine' \in Machines
        /\ driver'.pc = "data" /\ driver'.slot = driver.slot /\ Ch' = Ch
        BY <1>1, <2>2, ScanGoesOn
  <2>4. Present(driver.slot)'
        BY <1>1, <2>1, <2>3 DEF Present, SearchFrame
  <2>5. SearchInv'
        BY <1>1, <1>2, <2>2, <2>3, <2>4 DEF ScanInv, SearchInv, SearchFrame
  <2>   QED BY <2>3, <2>5 DEF ScanInv
<1>5. CASE "ERR" \in Here.status /\ kind[driver.slot] \in Signature
  <2>1. Command("IDENTIFY_PACKET", Ch, selected[Ch], registers[Ch])
        BY <1>5 DEF Answer
  <2>2. PICK s \in Slot, r \in Registers : /\ s = driver.slot /\ s = <<Ch, s[2]>>
                                           /\ r = registers[Ch]
        BY Slots DEF TypeOK
  <2>3. Command("IDENTIFY_PACKET", s[1], s[2], r)
        BY <1>2, <2>1, <2>2 DEF Ch
  <2>4. \A t \in Slot : kind[t] = "none" => device'[t] = device[t]
        BY <2>3, CommandMisses
  <2>5. Goto("packet") /\ "packet" \in Search
        BY <1>5 DEF Answer, Search
  <2>6. /\ FoundInv' /\ KindInv' /\ machine' \in Machines
        /\ driver'.pc = "packet" /\ driver'.slot = driver.slot /\ Ch' = Ch
        BY <1>1, <2>5, ScanGoesOn
  <2>7. Present(driver.slot)'
        BY <1>1, <1>5, <2>6 DEF Present, SearchFrame, Signature
  <2>8. SearchInv'
        BY <1>1, <1>2, <2>4, <2>6, <2>7 DEF ScanInv, SearchInv, SearchFrame
  <2>   QED BY <2>6, <2>8 DEF ScanInv
<1>6. CASE "ERR" \in Here.status /\ kind[driver.slot] \notin Signature
  <2>1. kind[driver.slot] # "ata" /\ kind[driver.slot] # "atapi"
        BY <1>3, <1>6, AnswerKinds DEF Signature
  <2>2. NextSlot /\ ~ Present(driver.slot) /\ device' = device
        BY <1>6, <2>1 DEF Answer, Present
  <2>   QED BY <1>1, <2>2, ScanPasses
<1>   QED BY <1>4, <1>5, <1>6

\* After IDENTIFY_PACKET the slot is one with a drive that is used.
LEMMA ScanPacket ==
    ASSUME TypeOK, ScanInv, Packet
    PROVE  ScanInv'
<1>1. /\ SearchFrame /\ driver.pc = "packet" /\ driver.pc \in Search \ {"select"}
      /\ drives' = drives /\ selected' = selected /\ device' = device
      /\ Goto("data") /\ "data" \in Search
      BY DEF Packet, Search, SearchFrame
<1>2. selected[Ch] = driver.slot[2] /\ Present(driver.slot)
      BY <1>1, HereIs DEF ScanInv, SearchInv
<1>3. /\ FoundInv' /\ KindInv' /\ machine' \in Machines
      /\ driver'.pc = "data" /\ driver'.slot = driver.slot /\ Ch' = Ch
      BY <1>1, ScanGoesOn
<1>4. Present(driver.slot)'
      BY <1>1, <1>2, <1>3 DEF Present, SearchFrame
<1>5. SearchInv'
      BY <1>1, <1>2, <1>3, <1>4 DEF ScanInv, SearchInv, SearchFrame
<1>   QED BY <1>3, <1>5 DEF ScanInv

\* Such a drive is added, and the search goes on behind its slot.
LEMMA ScanAdds ==
    ASSUME TypeOK, ScanInv, AddDevice
    PROVE  ScanInv'
<1>1. /\ SearchFrame /\ driver.pc \in Search \ {"select"} /\ NextSlot
      /\ drives' = Append(drives, driver.slot) /\ Present(driver.slot)
      BY DEF AddDevice, Search, SearchFrame, ScanInv, SearchInv
<1>2. PICK s \in Slot : s = driver.slot /\ s = <<Ch, selected[Ch]>>
      BY <1>1, HereIs, Slots DEF ScanInv
<1>3. \A t \in Slot : t # s => device'[t] = device[t]
      BY <1>2 DEF AddDevice, TypeOK
<1>4. kind[s] # "none"
      BY <1>1, <1>2 DEF Present
<1>   QED BY <1>1, <1>3, <1>4, ScanPasses

\* A read changes nothing of what the search has left.
LEMMA ScanOver ==
    ASSUME ScanInv, driver.pc \notin Search, driver'.pc \notin Search,
           UNCHANGED <<machine, kind, drives>>
    PROVE  ScanInv'
<1>1. FoundInv'
      BY FoundKept DEF ScanInv
<1>2. SearchInv'
      BY DEF SearchInv, Search
<1>   QED BY <1>1, <1>2 DEF ScanInv, KindInv

\* A drive answers IDENTIFY by its kind.
LEMMA ScanDrive ==
    ASSUME TypeOK, ScanInv, NEW s \in Slot, Device(s)
    PROVE  ScanInv'
<1>1. UNCHANGED <<machine, kind, selected, registers, driver, request, drives>>
      BY DeviceIs
<1>2. FoundInv' /\ KindInv' /\ machine' \in Machines
      BY <1>1 DEF ScanInv, FoundInv, KindInv, Present, Passed
<1>3. Ch' = Ch
      BY <1>1 DEF Ch
<1>4. device[s] \in Drive /\ device \in [Slot -> Drive]
      BY DEF TypeOK
<1>5. ASSUME NEW t \in Slot, device[t] = NoCommand
      PROVE  device'[t] = NoCommand
  <2>1. t # s
        BY <1>5 DEF Device, DeviceNotices, DeviceReady, DeviceFails, Busy, NoCommand
  <2>   QED BY <1>4, <1>5, <2>1 DEF Device, DeviceNotices, DeviceReady, DeviceFails
<1>6. CASE driver.pc \in {"present", "answer"}
  <2>1. /\ Here = device[driver.slot] /\ Here' = device'[driver.slot]
        /\ driver.slot \in Slot
        BY <1>1, <1>3, <1>6, HereIs, Slots DEF ScanInv, Search, Here
  <2>2. ASSUME kind[driver.slot] # "none"
        PROVE  /\ Here'.cmd = "IDENTIFY"
               /\ Here'.noticed => Here'.status \in Answers(kind[driver.slot])
               /\ Here.noticed => Here'.noticed
    <3>1. /\ Here.cmd = "IDENTIFY"
          /\ Here.noticed => Here.status \in Answers(kind[driver.slot])
          BY <1>6, <2>2 DEF ScanInv, SearchInv
    <3>2. CASE driver.slot = s
      <4>1. CASE DeviceNotices(s)
        <5>1. device'[s] = [device[s] EXCEPT !.noticed = TRUE, !.status = {"BSY"}]
              BY <1>4, <4>1 DEF DeviceNotices
        <5>2. /\ device'[s].noticed = TRUE /\ device'[s].status = {"BSY"}
              /\ device'[s].cmd = device[s].cmd
              BY <1>4, <5>1 DEF Drive
        <5>   QED BY <2>1, <3>1, <3>2, <5>2 DEF Answers
      <4>2. CASE DeviceReady(s)
        <5>1. device'[s] = [device[s] EXCEPT !.status = {"DRQ"}] /\ kind[s] = "ata"
              BY <1>4, <2>1, <3>1, <3>2, <4>2 DEF DeviceReady, Refuses
        <5>2. /\ device'[s].noticed = device[s].noticed /\ device'[s].status = {"DRQ"}
              /\ device'[s].cmd = device[s].cmd
              BY <1>4, <5>1 DEF Drive
        <5>   QED BY <2>1, <3>1, <3>2, <5>1, <5>2 DEF Answers
      <4>3. CASE DeviceFails(s)
        <5>1. device'[s] = [device[s] EXCEPT !.status = {"ERR"}] /\ kind[s] # "ata"
              BY <1>4, <2>1, <3>1, <3>2, <4>3 DEF DeviceFails, Refuses
        <5>2. /\ device'[s].noticed = device[s].noticed /\ device'[s].status = {"ERR"}
              /\ device'[s].cmd = device[s].cmd
              BY <1>4, <5>1 DEF Drive
        <5>   QED BY <2>1, <3>1, <3>2, <5>1, <5>2 DEF Answers
      <4>   QED BY <4>1, <4>2, <4>3 DEF Device
    <3>3. CASE driver.slot # s
      <4>1. device'[driver.slot] = device[driver.slot]
            BY <1>4, <2>1, <3>3 DEF Device, DeviceNotices, DeviceReady, DeviceFails
      <4>   QED BY <2>1, <3>1, <4>1
    <3>   QED BY <3>2, <3>3
  <2>   QED BY <1>1, <1>2, <1>3, <1>5, <1>6, <2>2 DEF ScanInv, SearchInv
<1>7. CASE driver.pc \notin {"present", "answer"}
      BY <1>1, <1>2, <1>3, <1>5, <1>7 DEF ScanInv, SearchInv, Present
<1>   QED BY <1>6, <1>7

\* Before the search nothing has been found, and nothing passed.
LEMMA InitScan == Init => ScanInv
<1>   SUFFICES ASSUME Init PROVE ScanInv
      OBVIOUS
<1>1. /\ machine \in Machines /\ ide_init(machine) /\ drives = <<>>
      /\ device = [s \in Slot |-> NoCommand]
      BY DEF Init
<1>2. KindInv /\ driver.pc \in {"idle", "select"}
      BY <1>1 DEF ide_init, KindInv
<1>3. SearchInv
      BY <1>1, <1>2 DEF SearchInv, Search
<1>4. {s \in Slot : Present(s) /\ Passed(s)} = {}
  <2>1. CASE driver.pc = "idle"
        BY <1>1, <2>1 DEF ide_init, Present
  <2>2. CASE driver.pc = "select"
    <3>1. driver.slot = <<0, 0>>
          BY <1>1, <2>2 DEF ide_init
    <3>2. \A s \in Slot : ~(Number(s) < 0)
          BY DEF Slot, Number
    <3>   QED BY <2>2, <3>1, <3>2, SlotNumbers DEF Passed, Search
  <2>   QED BY <1>2, <2>1, <2>2
<1>5. FoundInv
      BY <1>1, <1>4 DEF FoundInv, ToSet
<1>   QED BY <1>1, <1>2, <1>3, <1>5 DEF ScanInv

\* The search is at each moment where it should be, with what it should have found.
LEMMA ScanInvariant == Spec => []ScanInv
<1>1. IInv /\ ScanInv /\ [Next]_vars => ScanInv'
  <2>   SUFFICES ASSUME IInv, ScanInv, [Next]_vars PROVE ScanInv'
        OBVIOUS
  <2>   USE DEF IInv
  <2>1. CASE SelectSlot \/ Identify \/ IsPresent \/ Answer \/ Packet \/ AddDevice
        BY <2>1, ScanSelects, ScanIdentifies, ScanLooks, ScanAnswered, ScanPacket, ScanAdds
  <2>2. CASE \E lba \in Sectors, n \in Counts : drive_read(lba, n)
    <3>1. driver.pc = "idle" /\ driver'.pc \in {"idle", "free"}
          BY <2>2 DEF drive_read
    <3>   QED BY <2>2, <3>1, ScanOver DEF drive_read, Search
  <2>3. CASE StartRead \/ Settle \/ Poll \/ ReadSector \/ ReadDone
    <3>1. driver.pc \notin Search /\ UNCHANGED <<machine, kind, drives>>
          BY <2>3 DEF StartRead, Settle, Poll, ReadSector, ReadDone, Search
    <3>2. \E pc \in {"done", "settle", "poll", "words", "idle"} : Goto(pc)
          BY <2>3 DEF StartRead, Settle, Poll, ReadSector, ReadDone
    <3>3. driver'.pc \notin Search
          BY <3>2, GotoIs DEF Search
    <3>   QED BY <3>1, <3>3, ScanOver
  <2>4. CASE \E s \in Slot : Device(s)
        BY <2>4, ScanDrive
  <2>5. CASE UNCHANGED vars
        BY <2>5 DEF vars, ScanInv, FoundInv, SearchInv, KindInv, Here, Ch, Present, Passed
  <2>   QED BY <2>1, <2>2, <2>3, <2>4, <2>5 DEF Next, Driver
<1>   QED BY <1>1, InitScan, DriveInvariant, PTL DEF Spec

\* The places of PCI are in one order, so that a walk meets one of them first.
LEMMA FirstIs ==
    ASSUME NEW S \in SUBSET Place, S # {}
    PROVE  FirstOf(S) \in S /\ \A q \in S \ {FirstOf(S)} : Before(FirstOf(S), q)
<1>   DEFINE At(p) == (p[1] * 32 + p[2]) * 8 + p[3]
             T     == {At(p) : p \in S}
<1>1. \A p \in S : /\ p[1] \in 0 .. 255 /\ p[2] \in 0 .. 31 /\ p[3] \in 0 .. 7
                   /\ p = <<p[1], p[2], p[3]>>
      BY DEF Place
<1>2. T \in SUBSET Nat /\ T # {}
  <2>1. ASSUME NEW p \in S PROVE At(p) \in Nat
    <3>1. PICK a \in 0 .. 255, b \in 0 .. 31, c \in 0 .. 7 : p[1] = a /\ p[2] = b /\ p[3] = c
          BY <1>1
    <3>2. (a * 32 + b) * 8 + c \in Nat
          OBVIOUS
    <3>   QED BY <3>1, <3>2
  <2>   QED BY <2>1, Zenon
<1>3. PICK least \in T : \A k \in T : least <= k
  <2>   HIDE DEF T
  <2>   QED BY <1>2, LeastNat
<1>4. PICK p \in S : least = At(p)
      OBVIOUS
<1>5. ASSUME NEW q \in S \ {p} PROVE Before(p, q)
  <2>1. At(p) <= At(q)
        BY <1>3, <1>4
  <2>2. p[1] # q[1] \/ p[2] # q[2] \/ p[3] # q[3]
        BY <1>1, <1>5
  <2>3. PICK a \in 0 .. 255, b \in 0 .. 31, c \in 0 .. 7 : p[1] = a /\ p[2] = b /\ p[3] = c
        BY <1>1
  <2>4. PICK d \in 0 .. 255, e \in 0 .. 31, f \in 0 .. 7 : q[1] = d /\ q[2] = e /\ q[3] = f
        BY <1>1
  <2>5. (a * 32 + b) * 8 + c <= (d * 32 + e) * 8 + f
        BY <2>1, <2>3, <2>4
  <2>6. a < d \/ (a = d /\ (b < e \/ (b = e /\ c < f)))
        BY <2>2, <2>3, <2>4, <2>5
  <2>   QED BY <2>3, <2>4, <2>6 DEF Before
<1>   QED BY <1>5 DEF FirstOf

\* The search, once over, has found the drives of one controller, each once, in the
\* order of slots: of the first in the order of PCI that is in reach of the scan,
\* whatever the speed of the drives (ide.c:229, pci.c:125).
THEOREM FindsDrives == Spec => []DrivesFound
<1>   DEFINE near  == <<0, 0, 0>> \in DOMAIN machine /\ ~ machine[<<0, 0, 0>>].multi
             disks == {p \in DOMAIN machine : machine[p].class = PCI_MASS_STORAGE
                                               /\ p[1] < IF near THEN 1 ELSE 8}
<1>1. ASSUME ScanInv PROVE Controllers(machine) = disks
  <2>1. /\ DOMAIN machine \subseteq Place /\ AsDemanded(machine)
        /\ \A p \in DOMAIN machine : machine[p].multi \in BOOLEAN
        BY <1>1, DriveAssumption DEF ScanInv
  <2>2. Multi(machine, <<0, 0, 0>>) <=> ~ near
        BY DEF Multi
  <2>3. ASSUME NEW p \in DOMAIN machine
        PROVE  /\ p[1] \in Buses(machine) <=> p[1] < IF near THEN 1 ELSE 8
               /\ p[3] \in Functions(machine, p[1], p[2])
    <3>1. p[1] \in 0 .. 255 /\ p[3] \in 0 .. 7
          BY <2>1 DEF Place
    <3>2. PICK zero : zero = <<p[1], p[2], 0>>
          OBVIOUS
    <3>3. zero \in DOMAIN machine /\ (p[3] # 0 => machine[zero].multi)
      <4>1. AsDemanded(machine)
            BY <2>1
      <4>   QED BY <3>2, <4>1, Zenon DEF AsDemanded
    <3>4. p[1] \in Buses(machine) <=> p[1] < IF near THEN 1 ELSE 8
          BY <2>2, <3>1 DEF Buses
    <3>5. p[3] \in Functions(machine, p[1], p[2])
          BY <3>1, <3>2, <3>3 DEF Functions, Multi
    <3>   QED BY <3>4, <3>5
  <2>   QED BY <2>3 DEF Controllers, devices
<1>2. ASSUME ScanInv, driver.pc \notin Search
      PROVE  /\ ToSet(drives) =
                  {s \in Slot : disks # {} /\ machine[FirstOf(disks)].kinds[s] \in {"ata", "atapi"}}
             /\ \A i, j \in DOMAIN drives : i < j => Number(drives[i]) < Number(drives[j])
  <2>1. ToSet(drives) = {s \in Slot : kind[s] \in {"ata", "atapi"}}
        BY <1>2 DEF ScanInv, FoundInv, Present, Passed
  <2>2. kind = IF disks = {} THEN [s \in Slot |-> "none"] ELSE machine[FirstOf(disks)].kinds
        BY <1>1, <1>2 DEF ScanInv, KindInv
  <2>   HIDE DEF disks
  <2>3. \A s \in Slot : kind[s] \in {"ata", "atapi"}
                          <=> disks # {} /\ machine[FirstOf(disks)].kinds[s] \in {"ata", "atapi"}
        BY <2>2
  <2>   QED BY <2>1, <2>3, <1>2 DEF ScanInv, FoundInv
<1>3. ScanInv => DrivesFound
      BY <1>2 DEF DrivesFound, Search
<1>   QED BY <1>3, ScanInvariant, PTL

-------------------------------------------------------------------------------
(* The file system: what a lookup can answer *)

\* The least number of a set.
LEMMA LeastIs ==
    ASSUME NEW S \in SUBSET Nat, S # {}
    PROVE  Min(S) \in S /\ \A k \in S : Min(S) <= k
<1>1. \E m \in S : \A k \in S : m <= k
      BY LeastNat
<1>   QED BY <1>1 DEF Min

FileType == [valid : {TRUE}, is_dir : BOOLEAN, lba : Nat, size : Nat]

\* The disc that is mounted.
Mounted == disc \in Discs /\ Accepted(disc.descriptor)

\* Its files are typed, and the entries of its directories well-formed.
LEMMA FilesTyped ==
    ASSUME Mounted
    PROVE  /\ disc.root \in FilesOf(disc)
           /\ \A f \in FilesOf(disc) :
                 /\ f \in FileType
                 /\ f.is_dir => /\ f.lba \in DOMAIN disc.entry
                                /\ WellFormed(disc.entry[f.lba], f.size)
                                /\ \A i \in DOMAIN disc.entry[f.lba] :
                                      disc.entry[f.lba][i].file \in FilesOf(disc)
<1>1. disc.root \in FilesOf(disc)
      BY DEF FilesOf
<1>2. ASSUME NEW f \in FilesOf(disc)
      PROVE  /\ f \in FileType
             /\ f.is_dir => f.lba \in DOMAIN disc.entry /\ WellFormed(disc.entry[f.lba], f.size)
      BY DiscAssumption DEF Mounted, FileType
<1>3. ASSUME NEW e \in DOMAIN disc.entry, NEW i \in DOMAIN disc.entry[e]
      PROVE  disc.entry[e][i].file \in FilesOf(disc)
      BY DEF FilesOf
<1>   QED BY <1>1, <1>2, <1>3

\* A child of a directory is one of the files.
LEMMA ChildTyped ==
    ASSUME Mounted, NEW f \in FilesOf(disc), f.is_dir, NEW name
    PROVE  getChild(f, name) \in FilesOf(disc) \cup {Invalid}
<1>   DEFINE dir  == disc.entry[f.lba]
             same == {i \in getDirEntries(f) : dir[i].name = name}
<1>1. same \in SUBSET Nat /\ same \subseteq DOMAIN dir
      BY FilesTyped DEF getDirEntries, WellFormed
<1>2. CASE same = {}
      BY <1>2 DEF getChild
<1>3. CASE same # {}
  <2>1. Min(same) \in DOMAIN dir
    <3>   HIDE DEF same
    <3>   QED BY <1>1, <1>3, LeastIs
  <2>2. dir[Min(same)].file \in FilesOf(disc)
        BY <2>1, FilesTyped
  <2>   QED BY <1>3, <2>2 DEF getChild
<1>   QED BY <1>2, <1>3

\* What the files of a step can lead to.
Entered(S, name) == UNION {Enter(f, name) : f \in S}

\* They are files of the disc, or none.
LEMMA EnteredTyped ==
    ASSUME Mounted, NEW S \in SUBSET (FilesOf(disc) \cup {Invalid}), NEW name
    PROVE  Entered(S, name) \in SUBSET (FilesOf(disc) \cup {Invalid})
<1>1. ASSUME NEW f \in FilesOf(disc) \cup {Invalid}
      PROVE  Enter(f, name) \subseteq FilesOf(disc) \cup {Invalid}
  <2>1. CASE f = Invalid
        BY <2>1 DEF Enter, Invalid
  <2>2. CASE f \in FilesOf(disc)
    <3>1. CASE f.is_dir
          BY <2>2, <3>1, ChildTyped, FilesTyped DEF Enter, FileType
    <3>2. CASE ~ f.is_dir
          BY <2>2, <3>2, FilesTyped DEF Enter, FileType
    <3>   QED BY <3>1, <3>2
  <2>   QED BY <2>1, <2>2
<1>   QED BY <1>1 DEF Entered

\* _getFile takes the names one after the other.
LEMMA LookupIs ==
    ASSUME Mounted, NEW names, Len(names) \in Nat
    PROVE  \E t \in [0 .. Len(names) -> SUBSET (FilesOf(disc) \cup {Invalid})] :
              /\ t[0] = {disc.root}
              /\ \A k \in 1 .. Len(names) : t[k] = Entered(t[k - 1], names[k])
              /\ _getFile(names) = t[Len(names)]
<1>   DEFINE n == Len(names)
             X == SUBSET (FilesOf(disc) \cup {Invalid})
             root == {disc.root}
             R == [k \in 1 .. n |-> [S \in X |-> Entered(S, names[k])]]
             Is(t) == t = [k \in 0 .. n |->
                              IF k = 0 THEN root ELSE Entered(t[k - 1], names[k])]
<1>1. root \in X
      BY FilesTyped
<1>2. R \in [1 .. n -> [X -> X]]
      BY EnteredTyped
<1>3. \E t : Is(t)
  <2>1. PICK t \in [0 .. n -> X] : t[0] = root /\ \A k \in 1 .. n : t[k] = R[k][t[k - 1]]
    <3>   HIDE DEF R, root, X
    <3>1. Computes(X, n, root, R)
          BY <1>1, <1>2, Recursion
    <3>   QED BY <3>1 DEF Computes
  <2>2. ASSUME NEW k \in 1 .. n
        PROVE  t[k] = Entered(t[k - 1], names[k])
    <3>1. t[k - 1] \in X
          OBVIOUS
    <3>   QED BY <2>1, <3>1
  <2>3. t = [k \in 0 .. n |-> t[k]]
        OBVIOUS
  <2>4. \A k \in 0 .. n : k = 0 \/ k \in 1 .. n
        OBVIOUS
  <2>5. \A k \in 0 .. n : t[k] = IF k = 0 THEN root ELSE Entered(t[k - 1], names[k])
        BY <2>1, <2>2, <2>4
  <2>   QED BY <2>3, <2>5, Zenon
<1>4. PICK t : _getFile(names) = t[n] /\ Is(t)
  <2>   DEFINE u == CHOOSE t : Is(t)
  <2>1. _getFile(names) = u[n]
        BY DEF _getFile, Entered
  <2>2. Is(u)
        BY <1>3
  <2>   QED BY <2>1, <2>2
<1>5. t[0] = root /\ \A k \in 1 .. n : t[k] = Entered(t[k - 1], names[k])
  <2>   HIDE DEF root
  <2>1. \A k \in 0 .. n : t[k] = IF k = 0 THEN root ELSE Entered(t[k - 1], names[k])
        BY <1>4, Zenon
  <2>2. \A k \in 1 .. n : k \in 0 .. n /\ k # 0
        OBVIOUS
  <2>3. 0 \in 0 .. n
        OBVIOUS
  <2>   QED BY <2>1, <2>2, <2>3
<1>6. \A k \in 0 .. n : t[k] \in X
  <2>   DEFINE P == {k \in Nat : t[k] \in X}
  <2>1. 0 \in P
        BY <1>1, <1>5
  <2>2. \A k \in 1 .. n : k - 1 \in P => k \in P
        BY <1>5, EnteredTyped
  <2>3. \A k \in 0 .. n : k \in P
    <3>   HIDE DEF P
    <3>   QED BY <2>1, <2>2, Upward
  <2>   QED BY <2>3
<1>7. t \in [0 .. n -> X]
      BY <1>4, <1>6
<1>   QED BY <1>4, <1>5, <1>7

\* So the answer is a file of the disc, or none.
LEMMA LookupTyped ==
    ASSUME Mounted, NEW names, Len(names) \in Nat
    PROVE  _getFile(names) \subseteq FilesOf(disc) \cup {Invalid}
BY LookupIs

-------------------------------------------------------------------------------
(* The file system: what a read delivers *)

\* Rounding up to whole sectors adds less than one.
LEMMA RoundedUp ==
    ASSUME NEW P \in Nat \ {0}, NEW a \in Nat
    PROVE  /\ CeilDiv(a, P) \in Nat
           /\ a <= P * CeilDiv(a, P) /\ P * CeilDiv(a, P) < a + P
<1>1. PICK q \in Nat, r \in 0 .. P - 1 : q = a \div P /\ r = a % P /\ a = P * q + r
      BY Division
<1>2. P * (q + 1) = P * q + P /\ P * q \in Nat
      BY <1>1
<1>3. CASE r = 0
  <2>1. CeilDiv(a, P) = q
        BY <1>1, <1>3 DEF CeilDiv
  <2>   QED BY <1>1, <1>2, <1>3, <2>1
<1>4. CASE r # 0
  <2>1. CeilDiv(a, P) = q + 1
        BY <1>1, <1>4 DEF CeilDiv
  <2>   QED BY <1>1, <1>2, <1>4, <2>1
<1>   QED BY <1>3, <1>4

\* The sectors that a read of n bytes from an offset on asks for: the bytes lie in
\* them, and where these are Byte or more the read is that long.
LEMMA SectorsAsked ==
    ASSUME NEW U \in Nat \ {0}, NEW o \in Nat, NEW n \in Nat
    PROVE  /\ CeilDiv(o + n, U) - (o \div U) \in Nat
           /\ (o % U) + n <= U * (CeilDiv(o + n, U) - (o \div U))
           /\ U * (CeilDiv(o + n, U) - (o \div U)) < (o % U) + n + U
<1>1. PICK q \in Nat, r \in 0 .. U - 1 : q = o \div U /\ r = o % U /\ o = U * q + r
      BY Division
<1>2. PICK c \in Nat : c = CeilDiv(o + n, U) /\ o + n <= U * c /\ U * c < o + n + U
  <2>1. PICK a \in Nat : a = o + n
        OBVIOUS
  <2>   QED BY <2>1, RoundedUp
<1>3. q <= c
  <2>   SUFFICES ASSUME c + 1 <= q PROVE FALSE
        BY <1>1, <1>2
  <2>1. U * (c + 1) <= U * q /\ U * (c + 1) = U * c + U
        BY <1>1, <1>2, Multiples
  <2>2. U * q \in Nat /\ U * c \in Nat
        BY <1>1, <1>2
  <2>   QED BY <1>1, <1>2, <2>1, <2>2
<1>4. U * (c - q) = U * c - U * q /\ U * c \in Nat /\ U * q \in Nat
      BY <1>1, <1>2
<1>   QED BY <1>1, <1>2, <1>3, <1>4

\* Where a byte of the first sector asked for comes from.
LEMMA SectorsAt ==
    ASSUME Mounted, NEW f \in FilesOf(disc), file = f, NEW o \in Nat
    PROVE  /\ FirstSector(o) \in Nat
           /\ FirstSector(o) * Unit + (o % Unit) = Position(f, o)
           /\ Position(f, 0) \in Nat /\ Position(f, o) = Position(f, 0) + o
<1>1. /\ Unit \in Nat \ {0} /\ f.lba \in Nat
      /\ disc.descriptor.sector_size \in Nat /\ disc.descriptor.sector_size % Unit = 0
      BY DiscAssumption, FilesTyped DEF Mounted, FileType
<1>2. PICK U \in Nat \ {0}, l \in Nat, z \in Nat : /\ U = Unit /\ l = f.lba
                                                  /\ z = disc.descriptor.sector_size
      BY <1>1
<1>3. PICK m \in Nat : z = U * m
  <2>1. PICK m \in Nat, r \in 0 .. U - 1 : r = z % U /\ m = z \div U /\ z = U * m + r
        BY <1>2, Division
  <2>2. r = 0
        BY <1>1, <1>2, <2>1
  <2>3. z = U * m
        BY <2>1, <2>2
  <2>   QED BY <2>3
<1>4. PICK p \in Nat, q \in Nat : p = l * z /\ q = l * m /\ p = U * q
  <2>1. l * z \in Nat /\ l * m \in Nat
        BY <1>2, <1>3, Products
  <2>2. l * (U * m) = U * (l * m)
        BY <1>2, <1>3, Z3
  <2>   QED BY <1>3, <2>1, <2>2
<1>5. p \div U = q
  <2>1. U * q <= p /\ p < U * q + U
        BY <1>2, <1>4
  <2>   QED BY <1>2, <1>4, <2>1, Quotient
<1>6. PICK d \in Nat, r \in 0 .. U - 1 : d = o \div U /\ r = o % U /\ o = U * d + r
  <2>1. U \in Nat \ {0} /\ o \in Nat
        OBVIOUS
  <2>   QED BY <2>1, Division
<1>7. FirstSector(o) = q + d
      BY <1>2, <1>4, <1>5, <1>6 DEF FirstSector, LbaTo512
<1>8. (q + d) * U + r = p + o
  <2>1. (q + d) * U = U * q + U * d /\ U * q \in Nat /\ U * d \in Nat
        BY <1>4, <1>6
  <2>   QED BY <1>4, <1>6, <2>1
<1>9. Position(f, o) = p + o /\ Position(f, 0) = p
      BY <1>2, <1>4 DEF Position
<1>   QED BY <1>2, <1>4, <1>6, <1>7, <1>8, <1>9

\* A read delivers the bytes of the file, but where the count of sectors does not
\* fit 8 bits.
LEMMA ReadBytes ==
    ASSUME Mounted, NEW f \in FilesOf(disc), file = f, file' = f, disc' = disc,
           NEW size \in Nat, NEW offset \in Nat, read(size, offset)
    PROVE  ReadIsSlice'
<1>1. f \in FileType /\ f.size \in Nat
      BY FilesTyped DEF FileType
<1>2. CASE f.is_dir \/ offset >= f.size
  <2>1. answer' = [size |-> size, offset |-> offset, data |-> <<>>, ok |-> TRUE]
        BY <1>2 DEF read
  <2>   QED BY <1>2, <2>1 DEF ReadIsSlice
<1>3. CASE ~ (f.is_dir \/ offset >= f.size)
  <2>   DEFINE n      == Min({size, f.size - offset})
               count  == CeilDiv(offset + n, Unit) - (offset \div Unit)
               buffer == Buffer(FirstSector(offset), count)
               data   == [k \in 1 .. n |-> buffer[(offset % Unit) + k - 1]]
  <2>1. \/ answer' = [size |-> size, offset |-> offset, ok |-> TRUE, data |-> data]
        \/ answer' = [size |-> size, offset |-> offset, ok |-> FALSE, data |-> <<>>]
        BY <1>3 DEF read
  <2>2. n \in Nat
    <3>1. {size, f.size - offset} \in SUBSET Nat
          BY <1>1, <1>3
    <3>   QED BY <3>1, LeastIs
  <2>3. PICK U \in Nat \ {0}, ro \in 0 .. Unit - 1 : U = Unit /\ ro = offset % Unit
        BY DiscAssumption, Division
  <2>4. PICK c \in Nat : /\ c = count
                         /\ ro + n <= U * c /\ U * c < ro + n + U
        BY <2>2, <2>3, SectorsAsked
  <2>5. PICK first \in Nat, p \in Nat :
           /\ first = FirstSector(offset) /\ p = Position(f, 0)
           /\ first * U + ro = p + offset
           /\ \A i \in Nat : Position(f, i) = p + i
    <3>1. /\ FirstSector(offset) \in Nat /\ Position(f, 0) \in Nat
          /\ FirstSector(offset) * Unit + (offset % Unit) = Position(f, offset)
          BY SectorsAt
    <3>2. \A i \in Nat : Position(f, i) = Position(f, 0) + i
          BY SectorsAt
    <3>   QED BY <2>3, <3>1, <3>2
  <2>   HIDE DEF n, count
  <2>6. Len(data) = n /\ DOMAIN data = 1 .. n
        BY <2>2
  <2>7. CASE ro + n > (Byte - 1) * Unit
    <3>   HIDE DEF data
    <3>1. CASE answer' = [size |-> size, offset |-> offset, ok |-> TRUE, data |-> data]
      <4>1. answer'.size = size /\ answer'.offset = offset /\ answer'.data = data
            BY <3>1
      <4>2. /\ Len(answer'.data) = Min({answer'.size, file'.size - answer'.offset})
            /\ (answer'.offset % Unit) + Len(answer'.data) > (Byte - 1) * Unit
            BY <2>3, <2>6, <2>7, <4>1 DEF n
      <4>   QED BY <4>2 DEF ReadIsSlice
    <3>2. CASE answer' = [size |-> size, offset |-> offset, ok |-> FALSE, data |-> <<>>]
          BY <3>2 DEF ReadIsSlice
    <3>   QED BY <2>1, <3>1, <3>2
  <2>8. CASE ~ ro + n > (Byte - 1) * Unit
    <3>1. PICK B \in Nat \ {0, 1} : B = Byte
          BY ByteAssumption
    <3>2. c < B
      <4>   SUFFICES ASSUME B <= c PROVE FALSE
            BY <2>4, <3>1
      <4>1. U * B <= U * c
            BY <2>3, <2>4, <3>1, Multiples
      <4>2. U * B = (B - 1) * U + U /\ (B - 1) * U \in Int /\ U * c \in Int
            BY <2>3, <2>4, <3>1
      <4>   QED BY <2>2, <2>3, <2>4, <2>8, <3>1, <4>1, <4>2
    <3>3. Count(c) = c
          BY <2>4, <3>1, <3>2 DEF Count
    <3>4. ASSUME NEW k \in 1 .. n
          PROVE  data[k] = Position(f, offset + k - 1)
      <4>1. PICK j \in Nat : j = ro + k - 1 /\ j < U * c
            BY <2>2, <2>3, <2>4
      <4>2. c * Unit = U * c /\ U * c \in Nat
            BY <2>3, <2>4
      <4>3. j \in 0 .. c * Unit - 1 /\ j < Count(c) * Unit
            BY <2>3, <3>3, <4>1, <4>2
      <4>4. buffer[j] = first * Unit + j
            BY <2>4, <2>5, <4>3 DEF Buffer
      <4>5. data[k] = buffer[j]
            BY <2>3, <4>1
      <4>6. first * U + j = p + (offset + k - 1) /\ offset + k - 1 \in Nat
        <5>1. PICK m \in Nat : m = first * U
              BY <2>3, <2>5, Products
        <5>2. ro \in Nat /\ k \in Nat /\ k >= 1
              BY <2>2, <2>3, DiscAssumption
        <5>   QED BY <2>5, <4>1, <5>1, <5>2
      <4>   QED BY <2>3, <2>5, <4>4, <4>5, <4>6
    <3>5. \A i : Position(f, i)' = Position(f, i)
          BY DEF Position
    <3>   HIDE DEF data
    <3>6. CASE answer' = [size |-> size, offset |-> offset, ok |-> TRUE, data |-> data]
      <4>1. /\ answer'.size = size /\ answer'.offset = offset /\ answer'.data = data
            BY <3>6
      <4>   QED BY <2>6, <3>4, <3>5, <4>1 DEF ReadIsSlice, n
    <3>7. CASE answer' = [size |-> size, offset |-> offset, ok |-> FALSE, data |-> <<>>]
          BY <3>7 DEF ReadIsSlice
    <3>   QED BY <2>1, <3>6, <3>7
  <2>   QED BY <2>7, <2>8
<1>   QED BY <1>2, <1>3

\* The disc stays, and files are those of a disc that has been mounted.
FsInv ==
    /\ disc \in Discs
    /\ fs = "mounted" => Accepted(disc.descriptor)
    /\ file \in FilesOf(disc) \cup {Invalid}
    /\ file # Invalid \/ answer.ok => fs = "mounted" /\ file # Invalid

-------------------------------------------------------------------------------
(* The file system: the names of a path *)

\* Ending the names with zeros moves none, and the other slashes stay slashes.
LEMMA CutIs ==
    ASSUME NEW path \in Seq(Chars)
    PROVE  /\ Cut(path) \in Seq(Chars \cup {Nul}) /\ Len(Cut(path)) = Len(path)
           /\ \A i \in 1 .. Len(path) : InName(Cut(path)[i]) <=> path[i] # Slash
           /\ \A i \in 1 .. Len(path) : path[i] # Slash => Cut(path)[i] = path[i]
           /\ \A i \in 1 .. Len(path) :
                 Cut(path)[i] = Nul <=> path[i] = Slash /\ i > 1 /\ path[i - 1] # Slash
<1>1. DOMAIN path = 1 .. Len(path) /\ \A i \in 1 .. Len(path) : path[i] \in Chars
      BY DEF Slash
<1>2. Nul \notin Chars /\ Nul # Slash
      BY DiscAssumption DEF Nul, Slash
<1>3. Cut(path) \in [1 .. Len(path) -> Chars \cup {Nul}]
      BY <1>1 DEF Cut
<1>4. Cut(path) \in Seq(Chars \cup {Nul}) /\ Len(Cut(path)) = Len(path)
      BY <1>3
<1>5. \A i \in 1 .. Len(path) :
         Cut(path)[i] = IF path[i] = Slash /\ i > 1 /\ path[i - 1] # Slash
                        THEN Nul ELSE path[i]
      BY <1>1 DEF Cut
<1>   QED BY <1>1, <1>2, <1>4, <1>5 DEF InName

\* So names start where runs of other characters do.
LEMMA StartsAre ==
    ASSUME NEW path \in Seq(Chars)
    PROVE  Starts(Cut(path)) = RunStarts(path, Slash)
<1>1. DOMAIN Cut(path) = 1 .. Len(path) /\ DOMAIN path = 1 .. Len(path)
      BY CutIs
<1>2. ASSUME NEW i \in 1 .. Len(path)
      PROVE  /\ InName(Cut(path)[i]) <=> path[i] # Slash
             /\ i # 1 => (~ InName(Cut(path)[i - 1]) <=> path[i - 1] = Slash)
  <2>1. InName(Cut(path)[i]) <=> path[i] # Slash
        BY CutIs
  <2>2. i # 1 => i - 1 \in 1 .. Len(path)
        OBVIOUS
  <2>   QED BY <2>1, <2>2, CutIs
<1>   QED BY <1>1, <1>2 DEF Starts, RunStarts

\* And the C string there is the run.
LEMMA NameIs ==
    ASSUME NEW path \in Seq(Chars), NEW i \in RunStarts(path, Slash)
    PROVE  NameAt(Cut(path), i) = SubSeq(path, i, RunEnd(path, Slash, i))
<1>   DEFINE s    == Cut(path)
             n    == Len(path)
             e    == RunEnd(path, Slash, i)
             ends == {k \in i .. Len(s) : s[k] = Nul} \cup {Len(s) + 1}
<1>1. i \in 1 .. n
      BY RunStartsIs
<1>2. /\ e \in i .. n /\ \A k \in i .. e : path[k] # Slash
      /\ e = n \/ path[e + 1] = Slash
      BY RunEndIs
<1>3. s \in Seq(Chars \cup {Nul}) /\ Len(s) = n
      BY CutIs
<1>4. ends \in SUBSET Nat
      BY <1>1, <1>3
<1>5. e + 1 \in ends
  <2>1. CASE e = n
        BY <1>3, <2>1
  <2>2. CASE e # n
    <3>1. e + 1 \in 1 .. n /\ e + 1 > 1 /\ (e + 1) - 1 = e /\ e \in i .. e
          BY <1>1, <1>2, <2>2
    <3>2. s[e + 1] = Nul
          BY <1>2, <2>2, <3>1, CutIs
    <3>   QED BY <1>1, <1>2, <1>3, <3>1, <3>2
  <2>   QED BY <2>1, <2>2
<1>6. \A k \in ends : e + 1 <= k
  <2>1. \A k \in i .. e : s[k] # Nul
    <3>1. \A k \in i .. e : k \in 1 .. n
          BY <1>1, <1>2
    <3>   QED BY <1>2, <3>1, CutIs
  <2>   QED BY <1>1, <1>2, <1>3, <2>1
<1>7. Min(ends) = e + 1
  <2>   HIDE DEF ends
  <2>1. Min(ends) \in Nat /\ Min(ends) <= e + 1 /\ e + 1 <= Min(ends)
        BY <1>4, <1>5, <1>6, LeastIs
  <2>2. e \in Nat
        BY <1>1, <1>2
  <2>   QED BY <2>1, <2>2
<1>8. SubSeq(s, i, e) = SubSeq(path, i, e)
  <2>1. \A k \in 1 .. e - i + 1 : s[i + k - 1] = path[i + k - 1]
    <3>1. \A k \in 1 .. e - i + 1 : i + k - 1 \in i .. e /\ i + k - 1 \in 1 .. n
          BY <1>1, <1>2
    <3>   QED BY <1>2, <3>1, CutIs
  <2>2. /\ SubSeq(s, i, e) = [k \in 1 .. e - i + 1 |-> s[i + k - 1]]
        /\ SubSeq(path, i, e) = [k \in 1 .. e - i + 1 |-> path[i + k - 1]]
    <3>   HIDE DEF s, e, n
    <3>1. e \in Nat /\ i \in Nat /\ e - i + 1 \in Nat
          BY <1>1, <1>2
    <3>   QED BY <1>1, <1>2, <1>3, <3>1
  <2>   HIDE DEF s, e
  <2>   QED BY <2>1, <2>2
<1>9. (e + 1) - 1 = e
      BY <1>1, <1>2
<1>   QED BY <1>7, <1>8, <1>9 DEF NameAt

\* parsePath finds what stands between slashes, however these are placed.
LEMMA NamesParsed ==
    ASSUME NEW path \in Seq(Chars)
    PROVE  /\ parsePath(path) = Names(path) /\ Len(Names(path)) \in Nat
           /\ \A n \in 1 .. Len(Names(path)) : Names(path)[n] # NoName
<1>   DEFINE S == RunStarts(path, Slash)
<1>1. S \in SUBSET Nat /\ IsFiniteSet(S) /\ Cardinality(S) \in Nat
      BY RunStartsIs
<1>2. \A n \in 1 .. Cardinality(S) : Nth(S, n) \in S
  <2>   HIDE DEF S
  <2>   QED BY <1>1, NthIs
<1>3. \A n \in 1 .. Cardinality(S) :
         NameAt(Cut(path), Nth(S, n)) = SubSeq(path, Nth(S, n), RunEnd(path, Slash, Nth(S, n)))
      BY <1>2, NameIs
<1>4. parsePath(path) = Names(path)
      BY <1>3, StartsAre DEF parsePath, Names, Runs
<1>5. /\ Len(Names(path)) = Cardinality(S)
      /\ \A n \in 1 .. Cardinality(S) :
            Names(path)[n] = SubSeq(path, Nth(S, n), RunEnd(path, Slash, Nth(S, n)))
  <2>   DEFINE Part(n) == SubSeq(path, Nth(S, n), RunEnd(path, Slash, Nth(S, n)))
               c == Cardinality(S)
  <2>1. Names(path) = [n \in 1 .. c |-> Part(n)]
        BY DEF Names, Runs
  <2>2. c \in Nat
        BY <1>1
  <2>   HIDE DEF Part, c
  <2>3. Len(Names(path)) = c /\ \A n \in 1 .. c : Names(path)[n] = Part(n)
        BY <2>1, <2>2
  <2>   QED BY <2>3 DEF Part, c
<1>6. ASSUME NEW i \in S PROVE SubSeq(path, i, RunEnd(path, Slash, i)) # NoName
  <2>1. PICK e : e = RunEnd(path, Slash, i)
        OBVIOUS
  <2>2. e \in i .. Len(path) /\ i \in 1 .. Len(path)
        BY <2>1, RunEndIs, RunStartsIs
  <2>3. SubSeq(path, i, e)[1] = path[i] /\ path[i] \in Chars
        BY <2>2
  <2>4. NoName[1] \notin Chars
        BY DiscAssumption DEF NoName
  <2>   QED BY <2>1, <2>3, <2>4
<1>   QED BY <1>1, <1>2, <1>4, <1>5, <1>6

-------------------------------------------------------------------------------
(* The file system: the entries of a directory *)

\* The loop's offsets, from the front, each further than the one before.
LEMMA StopsAre ==
    ASSUME Mounted, NEW f \in FilesOf(disc), f.is_dir
    PROVE  /\ Stops(f)[0] = 0
           /\ \A n \in 1 .. f.size : Stops(f)[n] = NextEntry(disc.entry[f.lba], Stops(f)[n - 1])
           /\ \A n \in 0 .. f.size : Stops(f)[n] \in Nat
<1>   DEFINE dir == disc.entry[f.lba]
             z   == f.size
             R   == [n \in 1 .. z |-> [i \in Nat |-> NextEntry(dir, i)]]
             Is(t) == t = [n \in 0 .. z |-> IF n = 0 THEN 0 ELSE NextEntry(dir, t[n - 1])]
<1>1. z \in Nat /\ WellFormed(dir, z)
      BY FilesTyped DEF FileType
<1>2. \A i \in Nat : NextEntry(dir, i) \in Nat
      BY <1>1 DEF NextEntry, WellFormed
<1>   HIDE DEF dir, z
<1>3. R \in [1 .. z -> [Nat -> Nat]]
      BY <1>2
<1>4. \E t : Is(t)
  <2>1. PICK t \in [0 .. z -> Nat] : t[0] = 0 /\ \A n \in 1 .. z : t[n] = R[n][t[n - 1]]
    <3>   HIDE DEF R
    <3>1. Computes(Nat, z, 0, R)
          BY <1>1, <1>3, Recursion
    <3>   QED BY <3>1 DEF Computes
  <2>2. ASSUME NEW n \in 1 .. z
        PROVE  t[n] = NextEntry(dir, t[n - 1])
    <3>1. t[n - 1] \in Nat
          BY <1>1
    <3>   QED BY <2>1, <3>1
  <2>3. t = [n \in 0 .. z |-> t[n]]
        OBVIOUS
  <2>4. \A n \in 0 .. z : n = 0 \/ n \in 1 .. z
        BY <1>1
  <2>5. \A n \in 0 .. z : t[n] = IF n = 0 THEN 0 ELSE NextEntry(dir, t[n - 1])
        BY <2>1, <2>2, <2>4
  <2>   QED BY <2>3, <2>5, Zenon
<1>5. PICK t : Stops(f) = t /\ Is(t)
  <2>   DEFINE u == CHOOSE t : Is(t)
  <2>1. Stops(f) = u
        BY DEF Stops, dir, z
  <2>2. Is(u)
        BY <1>4
  <2>   QED BY <2>1, <2>2
<1>6. t[0] = 0 /\ \A n \in 1 .. z : t[n] = NextEntry(dir, t[n - 1])
  <2>1. \A n \in 0 .. z : t[n] = IF n = 0 THEN 0 ELSE NextEntry(dir, t[n - 1])
        BY <1>5, Zenon
  <2>2. \A n \in 1 .. z : n \in 0 .. z /\ n # 0
        BY <1>1
  <2>3. 0 \in 0 .. z
        BY <1>1
  <2>   QED BY <2>1, <2>2, <2>3
<1>7. \A n \in 0 .. z : t[n] \in Nat
  <2>   DEFINE P == {n \in Nat : t[n] \in Nat}
  <2>1. 0 \in P
        BY <1>6
  <2>2. \A n \in 1 .. z : n - 1 \in P => n \in P
        BY <1>1, <1>2, <1>6
  <2>3. \A n \in 0 .. z : n \in P
    <3>   HIDE DEF P
    <3>   QED BY <1>1, <2>1, <2>2, Upward
  <2>   QED BY <2>3
<1>   QED BY <1>5, <1>6, <1>7 DEF dir, z

\* They pass no entry by, whatever the padding between entries.
LEMMA AllEntries ==
    ASSUME Mounted, NEW f \in FilesOf(disc), f.is_dir
    PROVE  getDirEntries(f) = DOMAIN disc.entry[f.lba]
<1>   DEFINE dir == disc.entry[f.lba]
             z   == f.size
             t   == Stops(f)
<1>1. z \in Nat /\ WellFormed(dir, z)
      BY FilesTyped DEF FileType
<1>2. /\ t[0] = 0 /\ \A n \in 1 .. z : t[n] = NextEntry(dir, t[n - 1])
      /\ \A n \in 0 .. z : t[n] \in Nat
      BY StopsAre
<1>   HIDE DEF dir, z, t
<1>3. ASSUME NEW o \in DOMAIN dir, \A n \in 0 .. z : t[n] # o
      PROVE  FALSE
  <2>   DEFINE P == {n \in Nat : n <= t[n] /\ t[n] < o}
  <2>1. o \in Nat /\ o < z
        BY <1>1 DEF WellFormed
  <2>2. 0 \in P
        BY <1>1, <1>2, <1>3, <2>1
  <2>3. ASSUME NEW n \in 1 .. z, n - 1 \in P PROVE n \in P
    <3>1. PICK i \in Nat : i = t[n - 1] /\ n - 1 <= i /\ i < o
          BY <1>1, <1>2, <2>3
    <3>2. t[n] = NextEntry(dir, i) /\ t[n] # o
          BY <1>1, <1>2, <1>3, <3>1
    <3>3. CASE i \in DOMAIN dir
      <4>1. dir[i].length \in Nat \ {0} /\ i + dir[i].length <= o
            BY <1>1, <3>1, <3>3 DEF WellFormed
      <4>2. t[n] = i + dir[i].length
            BY <3>2, <3>3 DEF NextEntry
      <4>   QED BY <1>1, <2>1, <3>1, <3>2, <4>1, <4>2
    <3>4. CASE i \notin DOMAIN dir
      <4>1. t[n] = i + 1
            BY <3>2, <3>4 DEF NextEntry
      <4>   QED BY <1>1, <2>1, <3>1, <3>2, <4>1
    <3>   QED BY <3>3, <3>4
  <2>4. \A n \in 0 .. z : n \in P
    <3>   HIDE DEF P
    <3>   QED BY <1>1, <2>2, <2>3, Upward
  <2>5. z \in P
        BY <1>1, <2>4
  <2>6. z <= t[z] /\ t[z] < o /\ t[z] \in Nat
        BY <1>1, <1>2, <2>5
  <2>   QED BY <1>1, <2>1, <2>6
<1>4. \A o \in DOMAIN dir : o < z /\ \E n \in 0 .. z : t[n] = o
      BY <1>1, <1>3 DEF WellFormed
<1>5. getDirEntries(f) = {i \in DOMAIN dir : i < z /\ \E n \in 0 .. z : t[n] = i}
      BY DEF getDirEntries, dir, z, t
<1>   QED BY <1>4, <1>5 DEF dir

\* So the child found is one of that name, and a directory only if it is alone.
LEMMA ChildFound ==
    ASSUME Mounted, NEW f \in FilesOf(disc), f.is_dir, NEW name, name # NoName
    PROVE  \/ getChild(f, name) = Invalid /\ Child(f, name) = {}
           \/ /\ getChild(f, name) \in Child(f, name)
              /\ getChild(f, name) \in FilesOf(disc)
              /\ getChild(f, name).is_dir => Child(f, name) = {getChild(f, name)}
<1>   DEFINE dir  == disc.entry[f.lba]
             same == {i \in DOMAIN dir : dir[i].name = name}
<1>1. WellFormed(dir, f.size) /\ \A i \in DOMAIN dir : dir[i].file \in FilesOf(disc)
      BY FilesTyped
<1>2. /\ getChild(f, name) = IF same = {} THEN Invalid ELSE dir[Min(same)].file
      /\ Child(f, name) = {dir[i].file : i \in same}
      BY AllEntries DEF getChild, Child
<1>3. CASE same = {}
      BY <1>2, <1>3
<1>4. CASE same # {}
  <2>1. same \in SUBSET Nat
        BY <1>1 DEF WellFormed
  <2>2. PICK m \in same : m = Min(same)
    <3>   HIDE DEF same
    <3>   QED BY <1>4, <2>1, LeastIs
  <2>3. getChild(f, name) = dir[m].file /\ dir[m].file \in FilesOf(disc)
        BY <1>1, <1>2, <1>4, <2>2
  <2>4. dir[m].file \in Child(f, name)
        BY <1>2
  <2>5. ASSUME dir[m].file.is_dir PROVE same = {m}
    <3>1. dir[m].name # NoName /\ m \in DOMAIN dir /\ \A j \in same : dir[j].name = dir[m].name
          BY <2>2
    <3>2. \A j \in DOMAIN dir : dir[j].name = dir[m].name => j = m
      <4>1. WellFormed(dir, f.size)
            BY <1>1
      <4>   HIDE DEF dir
      <4>   QED BY <2>5, <3>1, <4>1, Zenon DEF WellFormed
    <3>   QED BY <2>2, <3>1, <3>2
  <2>6. dir[m].file.is_dir => Child(f, name) = {dir[m].file}
        BY <1>2, <2>5
  <2>   QED BY <2>3, <2>4, <2>6
<1>   QED BY <1>3, <1>4

-------------------------------------------------------------------------------
(* The file system: where a path leads *)

\* What the directories of a step lead to.
Below(S, name) == UNION {Child(d, name) : d \in {f \in S : f.is_dir}}

\* What directories hold are files of the disc.
LEMMA BelowTyped ==
    ASSUME Mounted, NEW S \in SUBSET FilesOf(disc), NEW name
    PROVE  Below(S, name) \in SUBSET FilesOf(disc)
<1>1. ASSUME NEW d \in FilesOf(disc), d.is_dir
      PROVE  Child(d, name) \subseteq FilesOf(disc)
  <2>1. \A i \in DOMAIN disc.entry[d.lba] : disc.entry[d.lba][i].file \in FilesOf(disc)
        BY <1>1, FilesTyped
  <2>   QED BY <2>1 DEF Child
<1>   QED BY <1>1 DEF Below

\* The files that a path leads to, one name after the other.
LEMMA ReachedIs ==
    ASSUME Mounted, NEW names, Len(names) \in Nat
    PROVE  /\ Reached(names)[0] = {disc.root}
           /\ \A k \in 1 .. Len(names) :
                 Reached(names)[k] = Below(Reached(names)[k - 1], names[k])
           /\ \A k \in 0 .. Len(names) : Reached(names)[k] \in SUBSET FilesOf(disc)
<1>   DEFINE n == Len(names)
             X == SUBSET FilesOf(disc)
             root == {disc.root}
             R == [k \in 1 .. n |-> [S \in X |-> Below(S, names[k])]]
             Is(t) == t = [k \in 0 .. n |->
                              IF k = 0 THEN root ELSE Below(t[k - 1], names[k])]
<1>1. root \in X
      BY FilesTyped
<1>2. R \in [1 .. n -> [X -> X]]
      BY BelowTyped
<1>3. \E t : Is(t)
  <2>1. PICK t \in [0 .. n -> X] : t[0] = root /\ \A k \in 1 .. n : t[k] = R[k][t[k - 1]]
    <3>   HIDE DEF R, root, X
    <3>1. Computes(X, n, root, R)
          BY <1>1, <1>2, Recursion
    <3>   QED BY <3>1 DEF Computes
  <2>2. ASSUME NEW k \in 1 .. n
        PROVE  t[k] = Below(t[k - 1], names[k])
    <3>1. t[k - 1] \in X
          OBVIOUS
    <3>   QED BY <2>1, <3>1
  <2>3. t = [k \in 0 .. n |-> t[k]]
        OBVIOUS
  <2>4. \A k \in 0 .. n : k = 0 \/ k \in 1 .. n
        OBVIOUS
  <2>5. \A k \in 0 .. n : t[k] = IF k = 0 THEN root ELSE Below(t[k - 1], names[k])
        BY <2>1, <2>2, <2>4
  <2>   QED BY <2>3, <2>5, Zenon
<1>4. PICK t : Reached(names) = t /\ Is(t)
  <2>   DEFINE u == CHOOSE t : Is(t)
  <2>1. Reached(names) = u
        BY DEF Reached, Below
  <2>2. Is(u)
        BY <1>3
  <2>   QED BY <2>1, <2>2
<1>5. t[0] = root /\ \A k \in 1 .. n : t[k] = Below(t[k - 1], names[k])
  <2>   HIDE DEF root
  <2>1. \A k \in 0 .. n : t[k] = IF k = 0 THEN root ELSE Below(t[k - 1], names[k])
        BY <1>4, Zenon
  <2>2. \A k \in 1 .. n : k \in 0 .. n /\ k # 0
        OBVIOUS
  <2>3. 0 \in 0 .. n
        OBVIOUS
  <2>   QED BY <2>1, <2>2, <2>3
<1>6. \A k \in 0 .. n : t[k] \in X
  <2>   DEFINE P == {k \in Nat : t[k] \in X}
  <2>1. 0 \in P
        BY <1>1, <1>5
  <2>2. \A k \in 1 .. n : k - 1 \in P => k \in P
        BY <1>5, BelowTyped
  <2>3. \A k \in 0 .. n : k \in P
    <3>   HIDE DEF P
    <3>   QED BY <2>1, <2>2, Upward
  <2>   QED BY <2>3
<1>   QED BY <1>4, <1>5, <1>6

\* One answer after so many names: a file that the directories lead to, the only
\* one if it is a directory, or none where they lead nowhere.
Agree(T, S) ==
    \E g : /\ T = {g}
           /\ \/ g = Invalid /\ S = {}
              \/ g \in S /\ g \in FilesOf(disc) /\ (g.is_dir => S = {g})

\* The next name keeps the two in agreement, when all on the way are directories.
LEMMA AgreeNext ==
    ASSUME Mounted, NEW T, NEW S, Agree(T, S), \A f \in S : f.is_dir,
           NEW name, name # NoName
    PROVE  Agree(Entered(T, name), Below(S, name))
<1>1. PICK g : /\ T = {g}
               /\ \/ g = Invalid /\ S = {}
                  \/ g \in S /\ g \in FilesOf(disc) /\ (g.is_dir => S = {g})
      BY DEF Agree
<1>2. CASE g = Invalid /\ S = {}
  <2>1. Entered(T, name) = {Invalid} /\ Below(S, name) = {}
        BY <1>1, <1>2 DEF Entered, Enter, Below, Invalid
  <2>   QED BY <2>1 DEF Agree
<1>3. CASE g \in S /\ g \in FilesOf(disc) /\ (g.is_dir => S = {g})
  <2>1. g.is_dir /\ S = {g} /\ g.valid
        BY <1>3, FilesTyped DEF FileType
  <2>2. PICK h : h = getChild(g, name)
        OBVIOUS
  <2>3. Entered(T, name) = {h} /\ Below(S, name) = Child(g, name)
        BY <1>1, <2>1, <2>2 DEF Entered, Enter, Below
  <2>4. \/ h = Invalid /\ Child(g, name) = {}
        \/ /\ h \in Child(g, name) /\ h \in FilesOf(disc)
           /\ h.is_dir => Child(g, name) = {h}
        BY <1>3, <2>1, <2>2, ChildFound
  <2>   QED BY <2>3, <2>4, Zenon DEF Agree
<1>   QED BY <1>1, <1>2, <1>3

\* A lookup answers with what the names lead to.
LEMMA LookupAgrees ==
    ASSUME Mounted, NEW path \in Seq(Chars), ~ ThroughFile(Names(path)),
           NEW g \in _getFile(parsePath(path))
    PROVE  LET found == Reached(Names(path))[Len(Names(path))]
           IN  \/ ~ g.valid /\ found = {}
               \/ g.valid /\ g \in found
<1>a. PICK names : names = Names(path)
      OBVIOUS
<1>b. /\ Len(names) \in Nat /\ parsePath(path) = names
      /\ \A k \in 1 .. Len(names) : names[k] # NoName
      BY <1>a, NamesParsed
<1>c. PICK n \in Nat : n = Len(names)
      BY <1>b
<1>1. /\ names = Names(path) /\ n = Len(names)
      /\ \A k \in 1 .. n : names[k] # NoName
      /\ _getFile(parsePath(path)) = _getFile(names)
      BY <1>a, <1>b, <1>c
<1>2. PICK t \in [0 .. n -> SUBSET (FilesOf(disc) \cup {Invalid})] :
              /\ t[0] = {disc.root}
              /\ \A k \in 1 .. n : t[k] = Entered(t[k - 1], names[k])
              /\ _getFile(names) = t[n]
      BY <1>1, LookupIs
<1>3. PICK r : /\ r = Reached(names) /\ r[0] = {disc.root}
               /\ \A k \in 1 .. n : r[k] = Below(r[k - 1], names[k])
      BY <1>1, ReachedIs
<1>4. \A k \in 0 .. n - 1 : \A f \in r[k] : f.is_dir
      BY <1>1, <1>3 DEF ThroughFile
<1>5. Agree(t[n], r[n])
  <2>   DEFINE P == {k \in Nat : Agree(t[k], r[k])}
  <2>1. Agree(t[0], r[0])
    <3>1. disc.root \in FilesOf(disc)
          BY FilesTyped
    <3>   QED BY <1>2, <1>3, <3>1 DEF Agree
  <2>2. ASSUME NEW k \in 1 .. n, k - 1 \in P PROVE k \in P
    <3>1. Agree(t[k - 1], r[k - 1]) /\ k - 1 \in 0 .. n - 1 /\ k \in Nat
          BY <2>2
    <3>2. (\A f \in r[k - 1] : f.is_dir) /\ names[k] # NoName
          BY <1>1, <1>4, <3>1
    <3>3. Agree(Entered(t[k - 1], names[k]), Below(r[k - 1], names[k]))
          BY <3>1, <3>2, AgreeNext
    <3>   QED BY <1>2, <1>3, <3>1, <3>3
  <2>3. 0 \in P
        BY <2>1
  <2>4. \A k \in 0 .. n : k \in P
    <3>   HIDE DEF P
    <3>   QED BY <2>2, <2>3, Upward
  <2>5. n \in P
        BY <2>4
  <2>   QED BY <2>5
<1>6. \/ g = Invalid /\ r[n] = {}
      \/ g \in r[n] /\ g \in FilesOf(disc)
      BY <1>1, <1>2, <1>5 DEF Agree
<1>7. \/ g.valid = FALSE /\ r[n] = {}
      \/ g.valid = TRUE /\ g \in r[n]
      BY <1>6, FilesTyped DEF FileType, Invalid
<1>   QED BY <1>1, <1>3, <1>7

-------------------------------------------------------------------------------
(* The file system: the steps *)

\* A lookup leaves a file of the disc, and the one that is meant.
LEMMA LookupStep ==
    ASSUME FsInv, NEW path \in Paths, getFile(path)
    PROVE  FsInv' /\ LookupResolves' /\ ReadIsSlice'
<1>1. /\ Mounted /\ path \in Seq(Chars) /\ disc' = disc /\ fs' = fs /\ asked' = path
      /\ answer' = NoRead /\ fs = "mounted"
      BY DiscAssumption DEF FsInv, getFile, Mounted
<1>2. file' \in FilesOf(disc) \cup {Invalid}
  <2>1. Len(parsePath(path)) \in Nat
        BY <1>1, NamesParsed
  <2>   QED BY <1>1, <2>1, LookupTyped DEF getFile
<1>3. /\ \A d : FilesOf(d)' = FilesOf(d)
      /\ \A names : Reached(names)' = Reached(names)
      BY <1>1 DEF FilesOf, Reached, Child
<1>4. FsInv' /\ ReadIsSlice'
      BY <1>1, <1>2 DEF FsInv, NoRead, ReadIsSlice
<1>5. LookupResolves'
  <2>   DEFINE names == Names(path)
               found == Reached(names)[Len(names)]
  <2>1. ASSUME ~ ThroughFile(names)
        PROVE  IF file'.valid THEN file' \in found ELSE failed' \/ found = {}
    <3>1. CASE file' \in _getFile(parsePath(path))
          BY <1>1, <2>1, <3>1, LookupAgrees
    <3>2. CASE failed' = TRUE /\ file' = Invalid
          BY <3>2 DEF Invalid
    <3>   QED BY <3>1, <3>2 DEF getFile
  <2>2. ThroughFile(names)' <=> ThroughFile(names)
        BY <1>3 DEF ThroughFile
  <2>3. Names(asked)' = names
        BY <1>1
  <2>   QED BY <1>3, <2>1, <2>2, <2>3 DEF LookupResolves
<1>   QED BY <1>4, <1>5

\* What a lookup has found stays found while its variables do.
LEMMA LookupKept ==
    ASSUME LookupResolves, disc' = disc, file' = file, asked' = asked, failed' = failed
    PROVE  LookupResolves'
<1>1. /\ \A names : Reached(names)' = Reached(names)
      /\ Names(asked)' = Names(asked)
      BY DEF Reached, Child, Names
<1>2. ThroughFile(Names(asked))' <=> ThroughFile(Names(asked))
      BY <1>1 DEF ThroughFile
<1>   QED BY <1>1, <1>2 DEF LookupResolves

\* Mounting finds no file yet, so that it changes no answer.
LEMMA MountStep ==
    ASSUME FsInv, LookupResolves, ReadIsSlice, mount
    PROVE  FsInv' /\ LookupResolves' /\ ReadIsSlice'
<1>1. /\ fs = "boot" /\ disc' = disc /\ file' = file /\ asked' = asked /\ failed' = failed
      /\ answer' = answer /\ (fs' = "mounted" => Accepted(disc.descriptor))
      BY DEF mount
<1>2. FsInv'
  <2>1. file = Invalid /\ ~ answer.ok
        BY <1>1 DEF FsInv
  <2>   QED BY <1>1, <2>1 DEF FsInv, Accepted, FilesOf
<1>3. LookupResolves' /\ ReadIsSlice'
  <2>1. LookupResolves'
        BY <1>1, LookupKept
  <2>2. ReadIsSlice'
        BY <1>1 DEF ReadIsSlice, Position
  <2>   QED BY <2>1, <2>2
<1>   QED BY <1>2, <1>3

\* A read is one of a file of the disc, and leaves what the lookup has found.
LEMMA ReadStep ==
    ASSUME FsInv, LookupResolves, NEW size \in Sizes, NEW offset \in Offsets,
           read(size, offset)
    PROVE  FsInv' /\ LookupResolves' /\ ReadIsSlice'
<1>1. /\ fs = "mounted" /\ file.valid /\ disc' = disc /\ fs' = fs /\ file' = file
      /\ asked' = asked /\ failed' = failed
      BY DEF read
<1>2. Mounted /\ file \in FilesOf(disc) /\ file # Invalid
      BY <1>1 DEF FsInv, Mounted, Invalid
<1>3. size \in Nat /\ offset \in Nat
      BY DiscAssumption
<1>4. FsInv'
      BY <1>1, <1>2 DEF FsInv, Accepted, FilesOf
<1>5. LookupResolves'
      BY <1>1, LookupKept
<1>6. ReadIsSlice'
      BY <1>1, <1>2, <1>3, ReadBytes
<1>   QED BY <1>4, <1>5, <1>6

\* Whatever the discs, paths, sizes and offsets, the three hold together.
LEMMA FsInvariant == FsSpec => [](FsInv /\ LookupResolves /\ ReadIsSlice)
<1>1. FsInit => FsInv /\ LookupResolves /\ ReadIsSlice
      BY DEF FsInit, FsInv, LookupResolves, ReadIsSlice, NoRead
<1>2. FsInv /\ LookupResolves /\ ReadIsSlice /\ [FsNext]_fsVars
         => FsInv' /\ LookupResolves' /\ ReadIsSlice'
  <2>   SUFFICES ASSUME FsInv, LookupResolves, ReadIsSlice, [FsNext]_fsVars
                 PROVE  FsInv' /\ LookupResolves' /\ ReadIsSlice'
        OBVIOUS
  <2>1. CASE mount
        BY <2>1, MountStep
  <2>2. ASSUME NEW path \in Paths, getFile(path)
        PROVE  FsInv' /\ LookupResolves' /\ ReadIsSlice'
        BY <2>2, LookupStep
  <2>3. ASSUME NEW size \in Sizes, NEW offset \in Offsets, read(size, offset)
        PROVE  FsInv' /\ LookupResolves' /\ ReadIsSlice'
        BY <2>3, ReadStep
  <2>4. CASE UNCHANGED fsVars
    <3>1. /\ disc' = disc /\ fs' = fs /\ file' = file /\ asked' = asked
          /\ failed' = failed /\ answer' = answer
          BY <2>4 DEF fsVars
    <3>2. FsInv'
          BY <3>1 DEF FsInv, Accepted, FilesOf
    <3>3. LookupResolves'
          BY <3>1, LookupKept
    <3>4. ReadIsSlice'
          BY <3>1 DEF ReadIsSlice, Position
    <3>   QED BY <3>2, <3>3, <3>4
  <2>   QED BY <2>1, <2>2, <2>3, <2>4 DEF FsNext
<1>   QED BY <1>1, <1>2, PTL DEF FsSpec

(* A read delivers the slice of the file that was asked for, from the first byte
   on, whatever the sizes of the sectors of the disc and the drive, the file, the
   offset and the size: iso9660.cpp, read; the reads that do not are those whose
   sectors do not fit the 8 bits of drive_read. *)
THEOREM ReadsSlices == FsSpec => []ReadIsSlice
<1>   QED BY FsInvariant, PTL

(* A lookup finds the file that the names of the path lead to, and only reports
   it missing where there is none or the drive has failed, for every tree of
   directories and every path: parsePath, getDirEntries, getChild and _getFile
   of iso9660.cpp against directories as relations. *)
THEOREM LookupsResolve == FsSpec => []LookupResolves
<1>   QED BY FsInvariant, PTL
===============================================================================
