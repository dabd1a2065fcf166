---------------------------------- MODULE Drive --------------------------------
(* What the callers of drive_read and the driver of a disk share,
   src/src/kernel/drv/drive.c: numbers of sectors. *)
EXTENDS Integers

CONSTANT Byte  \* values of 8 bits: 256

ASSUME ByteAssumption == Byte \in Nat \ {0, 1}

\* drive_read takes the number of sectors in 8 bits.
Count(n) == n % Byte
===============================================================================
