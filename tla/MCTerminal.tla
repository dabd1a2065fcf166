------------------------------- MODULE MCTerminal ------------------------------
(* A screen of 3 by 2 with tab stops of 2 and five bytes for a sequence. *)
EXTENDS Terminal

MCChars == {"0", "7", ";", "?", "csi", "[", "A", "B", "C", "D", "E", "F", "G", "H",
            "J", "K", "S", "m", "BEL", "BS", "TAB", "LF", "CR", "ESC", "a"}
===============================================================================
