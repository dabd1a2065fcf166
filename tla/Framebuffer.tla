------------------------------ MODULE Framebuffer ------------------------------
(* Descriptors of fixed-size buffers, src/src/kernel/task/fd.c, as the calls
   seek, tell, read and write reach them through Task.  There is one in the
   system: the display's memory behind "/dev/fb", opened by vga_open. *)
EXTENDS Integers

CONSTANT Word  \* 2^32

ASSUME WordAssumption == Word \in Nat \ {0}

SEEK_SET == 1
SEEK_CUR == 2
SEEK_END == 3

fd_createBuffer(size) == [size |-> size, cursor |-> 0]

fd_tell(f) == f.cursor

Base(f, whence) ==
    CASE whence = SEEK_SET -> 0
      [] whence = SEEK_CUR -> f.cursor
      [] whence = SEEK_END -> f.size

\* Variant of Refused: the last place of the buffer is refused too.
RefusedEarly(f, place) == place + 2 >= f.size

\* The comparison of an int with a u32 is unsigned.
Refused(f, place) == place >= f.size

\* A refused seek leaves the cursor where it was.
fd_seek(f, offset, whence) ==
    LET place == (Base(f, whence) + offset) % Word
    IN  IF whence \notin {SEEK_SET, SEEK_CUR, SEEK_END} \/ Refused(f, place) THEN f
        ELSE [f EXCEPT !.cursor = place]

\* Variant of Amount: what does not fit is copied too.
AmountWhole(f, n) == n

\* How many bytes of n are copied, with fd_read as with fd_write.  The sum wraps:
\* a size close to Word gets past the test.
Amount(f, n) ==
    IF (f.cursor + n) % Word >= f.size THEN f.size - f.cursor ELSE n

fd_read(f, n)  == [f EXCEPT !.cursor = @ + Amount(f, n)]
fd_write(f, n) == [f EXCEPT !.cursor = @ + Amount(f, n)]
===============================================================================
