------------------------------- MODULE HexFile -------------------------------
(***************************************************************************)
(* The INHX32 files of the bootloader plugin (hexutils.cpp) and the memory *)
(* map it makes of one (generateMemoryMap): pure functions of a file, which *)
(* is the sequence of its records.  The two hexadecimal digits of a byte   *)
(* are read as its value; the code has 256 values of a byte and 65536      *)
(* addresses in a record.                                                  *)
(***************************************************************************)
EXTENDS Integers, SequencesExt

CONSTANTS
    Byte,                   \* values of a byte
    AddressSpace,           \* addresses of a record
    BOOT_LOADER_ADDRESS,    \* in words
    BOOT_LOADER_PAGE_SIZE   \* in words

BOOT_LOADER_WORD_SIZE == 2

DATA_RECORD      == 0
END_OF_FILE      == 1
EXTENDED_ADDRESS == 4

Line(type, address, data, checksum) ==
    [type |-> type, address |-> address, data |-> data, checksum |-> checksum]

NbBytes(line) == Len(line.data)

-----------------------------------------------------------------------------
(* hex32line, hex32doc                                                      *)
\* The two's complement of the sum of all bytes before it.
Checksum(type, address, data) ==
    (-(Len(data) + address \div Byte + address + type + FoldSeq(+, 0, data))) % Byte

verifyChecksum(line) ==
    Checksum(line.type, line.address, line.data) = line.checksum

\* load() reads up to the first end record.  Without one it takes what is left
\* in its buffer for a last line.
load(file, leftover) ==
    LET ends == {i \in DOMAIN file : file[i].type = END_OF_FILE}
    IN  IF ends = {} THEN Append(file, leftover) ELSE SubSeq(file, 1, Min(ends))

validate(lines) == \A i \in DOMAIN lines : verifyChecksum(lines[i])

\* The high half of the addresses at line i.
AddressHigh(lines, i) ==
    LET ext == {j \in 1..i-1 : lines[j].type = EXTENDED_ADDRESS}
    IN  IF ext = {} THEN 0
        ELSE LET data == lines[Max(ext)].data IN data[1] * Byte + data[2]

\* parse() leaves the lines from the first one it does not understand as they
\* are; in the others the address becomes that of a word.
Aborts(line) ==
    \/ ~verifyChecksum(line)
    \/ line.type = EXTENDED_ADDRESS /\ Len(line.data) # 2

FullAddress(lines, i) ==
    (AddressHigh(lines, i) * AddressSpace + lines[i].address) \div BOOT_LOADER_WORD_SIZE

Parsed(lines) ==
    [i \in DOMAIN lines |->
        IF lines[i].type # DATA_RECORD \/ (\E j \in 1..i : Aborts(lines[j]))
        THEN lines[i]
        ELSE [lines[i] EXCEPT !.address = FullAddress(lines, i)]]

\* operator<: data first, by address, then the other types.
Precedes(a, b) ==
    \/ a.type < b.type
    \/ a.type = DATA_RECORD /\ b.type = DATA_RECORD /\ a.address < b.address

\* std::sort leaves the order of lines that are equal to it open.
Sortings(lines) ==
    LET n == Len(lines) IN
    {[i \in 1..n |-> lines[p[i]]] :
        p \in {q \in Permutations(1..n) :
                 \A i, j \in 1..n : i < j => ~Precedes(lines[q[j]], lines[q[i]])}}

parse(lines) == Sortings(Parsed(lines))

-----------------------------------------------------------------------------
(* generateMemoryMap, of the lines in the order they have been sorted in.   *)
First(line) == line.address * BOOT_LOADER_WORD_SIZE
Beyond(line) == First(line) + NbBytes(line)

\* Lines that start at or behind the bootloader are flushed.
Kept(line) ==
    /\ line.type = DATA_RECORD
    /\ First(line) < BOOT_LOADER_ADDRESS * BOOT_LOADER_WORD_SIZE

MapSize(doc) == Max({0} \cup {Beyond(doc[i]) : i \in {k \in DOMAIN doc : Kept(doc[k])}})

\* A byte is that of the last line that has it, or zero.
MapByte(doc, a) ==
    LET writers == {i \in DOMAIN doc :
                      Kept(doc[i]) /\ First(doc[i]) <= a /\ a < Beyond(doc[i])}
    IN  IF writers = {} THEN 0
        ELSE LET line == doc[Max(writers)] IN line.data[a - First(line) + 1]

PageBytes == BOOT_LOADER_WORD_SIZE * BOOT_LOADER_PAGE_SIZE

\* Up to the end of the page, with the jump to the bootloader at the front; a
\* map of a word or none is left alone.
memoryData(doc) ==
    LET size == MapSize(doc)
        full == PageBytes * ((size + PageBytes - 1) \div PageBytes)
    IN  IF size <= 2 THEN [n \in 1..size |-> MapByte(doc, n - 1)]
        ELSE [n \in 1..full |->
                CASE n = 1 -> BOOT_LOADER_ADDRESS % Byte
                  [] n = 2 -> BOOT_LOADER_ADDRESS \div Byte
                  [] OTHER -> IF n <= size THEN MapByte(doc, n - 1) ELSE 0]

\* The maps of the files that loadHEX accepts.
MemoryMaps(file, leftover) ==
    LET lines == load(file, leftover)
    IN  IF validate(lines) THEN {memoryData(doc) : doc \in parse(lines)} ELSE {}

\* The module takes the bytes of a message as little-endian words.
Words(map) ==
    [n \in 1..(Len(map) \div BOOT_LOADER_WORD_SIZE) |-> map[2*n - 1] + Byte * map[2*n]]
=============================================================================
