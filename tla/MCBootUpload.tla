---------------------------- MODULE MCBootUpload ----------------------------
(* TLC instances of BootUpload: pages of two words (one for OneWord), one     *)
(* word per WRITE_INC, so that a page takes two messages.  The images are     *)
(* those of HEX files of bytes 0..15, four addresses to a record: a data      *)
(* record has one word or two, and the flash below the bootloader needs the   *)
(* high half of the addresses.                                                *)
EXTENDS BootUpload

Hex == INSTANCE HexFile WITH
    Byte <- 16, AddressSpace <- 4,
    BOOT_LOADER_ADDRESS <- BootPage * PageSize,
    BOOT_LOADER_PAGE_SIZE <- PageSize

Record(type, address, data) ==
    Hex!Line(type, address, data, Hex!Checksum(type, address, data))
Data(address, data) == Record(Hex!DATA_RECORD, address, data)
High(half)          == Record(Hex!EXTENDED_ADDRESS, 0, <<0, half>>)
End                 == Record(Hex!END_OF_FILE, 0, <<>>)
Damaged             == [Data(0, <<1, 0>>) EXCEPT !.checksum = (@ + 1) % 16]

ImagesOf(file) == {Hex!Words(map) : map \in Hex!MemoryMaps(file, Damaged)}

\* The first word is that of the application's own reset vector, 7, but in a
\* file of one word, which the plugin does not change.
OneWord  == ImagesOf(<<Data(0, <<ResetVector, 0>>), End>>)
OnePage  == ImagesOf(<<Data(2, <<1, 0>>), Data(0, <<7, 0>>), End>>)
TwoPages == ImagesOf(<<High(1), Data(0, <<2, 0, 3, 0>>),
                       High(0), Data(0, <<7, 0, 1, 0>>), End>>)
Repeated == ImagesOf(<<Data(0, <<7, 0, 1, 0>>), High(1), Data(0, <<1, 0, 2, 0>>), End>>)

\* Two images of pages of two words, written out for TLC.
OneOrTwoPages == {<<4, 1>>, <<4, 1, 1, 2>>}
ASSUME ImagesOfFiles == PageSize = 2 => OneOrTwoPages = OnePage \cup Repeated

-----------------------------------------------------------------------------
(* The memory map of a file, against the format: bytes are put where the      *)
(* records say, in the order of the file.                                     *)
Place(memory, record) ==
    IF record.type = Hex!EXTENDED_ADDRESS
    THEN [memory EXCEPT !.base = 4 * record.data[2]]
    ELSE [memory EXCEPT !.bytes = @ \cup
             {<<memory.base + record.address + k - 1, record.data[k]>> : k \in DOMAIN record.data}]

Contents(file) == FoldLeft(Place, [base |-> 0, bytes |-> {}], file).bytes

\* No byte is placed twice, and no record reaches across the beginning of the
\* bootloader.
BootByte == 2 * BootPage * PageSize
WellFormed(file) ==
    LET upTo(n) == Contents(SubSeq(file, 1, n)) IN
    \A n \in DOMAIN file :
        LET placed == upTo(n) \ upTo(n - 1) IN
        /\ file[n].type = Hex!DATA_RECORD => Cardinality(placed) = Hex!NbBytes(file[n])
        /\ \A x, y \in upTo(n) : x[1] = y[1] => x = y
        /\ \A x, y \in placed : x[1] < BootByte <=> y[1] < BootByte

Represents(map, file) ==
    LET below == {x \in Contents(file) : x[1] < BootByte} IN
    /\ Len(map) <= BootByte
    /\ \A x \in below : x[1] < Len(map)
    /\ Len(map) > 2 =>
          /\ Len(map) % (2 * PageSize) = 0
          /\ Hex!Words(map)[1] = BootPage * PageSize
    /\ \A a \in 0..Len(map)-1 :
          \/ <<a, map[a + 1]>> \in below
          \/ map[a + 1] = 0 /\ \A x \in below : x[1] # a
          \/ a < 2 /\ Len(map) > 2

\* Files of up to four records in any order, and what loadHEX makes of them: the
\* one map that represents the file, and none of a file damaged or cut short.
HexFiles ==
    LET records == {High(0), High(1), Data(0, <<1, 2>>), Data(2, <<3, 4>>),
                    Data(0, <<5, 6, 7, 8>>)}
    IN  {Append(lines, End) : lines \in UNION {[1..n -> records] : n \in 0..4}}

ASSUME HexFilesAreMapped ==
    \A file \in HexFiles :
        /\ WellFormed(file) =>
              /\ Hex!MemoryMaps(file, Damaged) # {}
              /\ \A map \in Hex!MemoryMaps(file, Damaged) : Represents(map, file)
        /\ Hex!MemoryMaps(Front(file), Damaged) = {}
        /\ Hex!MemoryMaps(<<Damaged>> \o file, Damaged) = {}

=============================================================================
