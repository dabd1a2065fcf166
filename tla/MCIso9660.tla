------------------------------- MODULE MCIso9660 -------------------------------
\* A disc with two directories, one of which has padding between its entries, a
\* program, a file that is not a whole number of sectors, and one without a
\* Rock Ridge name; then discs with a broken path table, another format, and none
\* of the letters but a type and a version that pass.
EXTENDS Iso9660, SequencesExt

Dir(lba, size)  == [valid |-> TRUE, is_dir |-> TRUE, lba |-> lba, size |-> size]
Data(lba, size) == [valid |-> TRUE, is_dir |-> FALSE, lba |-> lba, size |-> size]
Entry(length, name, f) == [length |-> length, name |-> name, file |-> f]

Root == Dir(3, 12)
Bin  == Dir(6, 8)

Descriptor(magic, version) ==
    [magic |-> magic, type |-> 1, version |-> version, sector_size |-> 4]

MCDisc ==
    [descriptor |-> Descriptor(TRUE, 1),
     path_table |-> <<1, 1>>,
     root |-> Root,
     entry |->
       (3 :> (0 :> Entry(1, <<".">>, Root) @@ 1 :> Entry(2, <<".", ".">>, Root)
                @@ 4 :> Entry(3, <<"b">>, Bin) @@ 8 :> Entry(2, <<"a">>, Data(8, 5))
                @@ 10 :> Entry(2, NoName, Data(10, 1))))
       @@ (6 :> (0 :> Entry(2, <<".">>, Bin) @@ 2 :> Entry(2, <<".", ".">>, Root)
                @@ 4 :> Entry(2, <<"a", "b">>, Data(11, 17))
                @@ 6 :> Entry(2, <<"a">>, Data(16, 0))))]

MCDiscs == {MCDisc,
            [MCDisc EXCEPT !.path_table = <<1, 0, 1>>],
            [MCDisc EXCEPT !.descriptor = Descriptor(FALSE, 2)],
            [descriptor |-> Descriptor(FALSE, 1), path_table |-> <<>>,
             root |-> Dir(3, 0), entry |-> 3 :> <<>>]}

MCPaths == BoundedSeq({"/", "a", "b"}, 4)
             \cup {<<"/", ".", "/", "a">>, <<"/", "b", "/", ".", ".", "/", "a">>,
                   <<"b", "/", ".", "/", "a", "b">>, <<"b", "/", "/", "a", "b", "/">>}
===============================================================================
