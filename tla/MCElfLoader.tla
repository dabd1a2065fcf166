------------------------------ MODULE MCElfLoader ------------------------------
\* Programs whose sections share pages in either order, end on a page's end,
\* lie out of order, reach the stack, or reach into the kernel.
EXTENDS ElfLoader

Section(addr, size, write) ==
    [addr |-> addr, size |-> size, alloc |-> TRUE, write |-> write, nobits |-> FALSE]
Bss(addr, size)  == [Section(addr, size, TRUE) EXCEPT !.nobits = TRUE]
Note(addr, size) == [Section(addr, size, FALSE) EXCEPT !.alloc = FALSE]

MCPrograms == {"shared", "unordered", "tostack", "tokernel"}
MCImage ==
    [shared    |-> <<Section(8, 3, FALSE), Section(11, 1, TRUE), Bss(12, 3)>>,
     unordered |-> <<Section(11, 1, TRUE), Section(8, 3, FALSE), Note(0, 2),
                     Section(6, 0, FALSE)>>,
     tostack   |-> <<Section(17, 1, FALSE), Section(9, 1, FALSE)>>,
     tokernel  |-> <<Section(8, 1, TRUE), Section(7, 1, TRUE)>>]
===============================================================================
