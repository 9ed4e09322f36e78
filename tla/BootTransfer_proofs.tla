------------------------ MODULE BootTransfer_proofs ------------------------
(***************************************************************************)
(* An upload to a module alone on its bus, over paths that lose messages:  *)
(* what is started after it is a whole application, and until an answer is *)
(* lost the upload is what FirmwareUpdate promises.                        *)
(***************************************************************************)
EXTENDS BootTransfer, BootUpload_proofs

-----------------------------------------------------------------------------
(* The messages of an upload.                                               *)
\* Multiples and their quotients.
LEMMA Division ==
    ASSUME NEW b \in Nat \ {0}
    PROVE  /\ \A a \in Nat : a % b = 0 => a = b * (a \div b)
           /\ \A q \in Nat : (b * q) \div b = q
           /\ \A a \in Nat : a \div b \in Nat
<1>1. \A a \in Nat : a \div b \in Nat /\ a = (b * (a \div b)) + (a % b)
  OBVIOUS
<1>2. ASSUME NEW q \in Nat
      PROVE  (b * q) \div b = q
  OBVIOUS
<1>3. QED
  BY <1>1, <1>2

\* An image is a number of chunks, and of pages below the bootloader.
LEMMA ImageShape ==
    ASSUME image \in Images
    PROVE  /\ image \in Seq(Nat) /\ ChunkWords \in Nat \ {0} /\ PageSize \in Nat \ {0}
           /\ Chunks \in Nat \ {0} /\ ChunkWords * Chunks = Len(image)
           /\ ImagePages \in 1..BootPage /\ ImagePages * PageSize = Len(image)
           /\ image[1] = ResetVector
<1>1. image \in Seq(Nat) /\ Len(image) \in Nat
  BY HostAssumption
<1>2. ChunkWords \in Nat \ {0} /\ PageSize \in Nat \ {0} /\ BootPage \in Nat
  BY HostAssumption, DeviceAssumption
<1>3. /\ PageSize % ChunkWords = 0 /\ Len(image) % PageSize = 0
      /\ ImagePages \in 1..BootPage /\ image[1] = ResetVector
  BY UploadAssumption DEF ImagePages
<1>4. PICK chunks \in Nat : PageSize = ChunkWords * chunks
  BY <1>2, <1>3, Division
<1>5. Len(image) = PageSize * ImagePages
  BY <1>1, <1>2, <1>3, Division DEF ImagePages
<1>6. Len(image) = ChunkWords * (chunks * ImagePages)
  BY <1>2, <1>3, <1>4, <1>5
<1>7. Chunks = chunks * ImagePages
  BY <1>2, <1>3, <1>6, Division DEF Chunks
<1>8. chunks # 0
  BY <1>2, <1>4
<1>9. Chunks \in Nat \ {0}
  BY <1>3, <1>7, <1>8
<1>10. QED
  BY <1>1, <1>2, <1>3, <1>5, <1>6, <1>7, <1>9

\* The parts of the script: its length, and the message at each position.
LEMMA ScriptShape ==
    ASSUME image \in Images
    PROVE  /\ Script \in Seq(Message) /\ Len(Script) = Final
           /\ Script[1] = Emergency(DefaultId)
           /\ Script[2] = SetBaseAddress(DefaultId)
           /\ \A n \in 1..Chunks :
                 Script[n + 2] = Boot("WRITE_INC", DefaultId,
                    SubSeq(image, (n - 1) * ChunkWords + 1, n * ChunkWords))
           /\ Script[Ending] = Boot("SET_STATE", DefaultId, <<BOOT_NORMAL>>)
           /\ Script[Ending + 1] = Boot("WRITE_BOOTCONFIG", DefaultId, <<>>)
           /\ Script[Final] = Boot("RESET", DefaultId, <<>>)
<1> DEFINE first == <<Emergency(DefaultId), SetBaseAddress(DefaultId)>>
           data  == SendDataInc(DefaultId, image)
           end   == <<Boot("SET_STATE", DefaultId, <<BOOT_NORMAL>>),
                      Boot("WRITE_BOOTCONFIG", DefaultId, <<>>),
                      Boot("RESET", DefaultId, <<>>)>>
<1>1. Chunks \in Nat \ {0}
  BY ImageShape
<1>2. DefaultId \in Ids /\ Request \subseteq Message
  BY UploadAssumption DEF Request
<1>3. data \in Seq(Request) /\ Len(data) = Chunks
      /\ \A n \in 1..Chunks : data[n] = Boot("WRITE_INC", DefaultId,
            SubSeq(image, (n - 1) * ChunkWords + 1, n * ChunkWords))
  <2>1. data \in Seq(Request)
    BY <1>2, DataType
  <2>2. Len(data) = Chunks
    BY <1>1 DEF SendDataInc, Chunks
  <2>3. \A n \in 1..Chunks : data[n] = Boot("WRITE_INC", DefaultId,
            SubSeq(image, (n - 1) * ChunkWords + 1, n * ChunkWords))
    BY DEF SendDataInc, Chunks
  <2>4. QED
    BY <2>1, <2>2, <2>3
<1>4. first \in Seq(Request) /\ Len(first) = 2 /\ first[1] = Emergency(DefaultId)
      /\ first[2] = SetBaseAddress(DefaultId)
  BY <1>2, RequestsBuilt
<1>5. end \in Seq(Request) /\ Len(end) = 3
      /\ end[1] = Boot("SET_STATE", DefaultId, <<BOOT_NORMAL>>)
      /\ end[2] = Boot("WRITE_BOOTCONFIG", DefaultId, <<>>)
      /\ end[3] = Boot("RESET", DefaultId, <<>>)
  <2>1. <<BOOT_NORMAL>> \in Seq(Nat) /\ <<>> \in Seq(Nat)
    BY DEF BOOT_NORMAL
  <2>2. \A cmd \in {"SET_STATE", "WRITE_BOOTCONFIG", "RESET", "WRITE_INC"}, d \in Seq(Nat) :
            Boot(cmd, DefaultId, d) \in Request
    BY <1>2, RequestsBuilt
  <2>3. /\ Boot("SET_STATE", DefaultId, <<BOOT_NORMAL>>) \in Request
        /\ Boot("WRITE_BOOTCONFIG", DefaultId, <<>>) \in Request
        /\ Boot("RESET", DefaultId, <<>>) \in Request
    BY <2>1, <2>2
  <2>4. \A x, y, z \in Request : /\ <<x, y, z>> \in Seq(Request) /\ Len(<<x, y, z>>) = 3
                                /\ <<x, y, z>>[1] = x /\ <<x, y, z>>[2] = y /\ <<x, y, z>>[3] = z
    OBVIOUS
  <2>5. QED
    BY <2>3, <2>4
<1>6. Script = first \o data \o end
  BY DEF Script, MessageQueue
<1> HIDE DEF first, data, end
<1>7. /\ first \o data \in Seq(Request) /\ Len(first \o data) = Chunks + 2
      /\ \A i \in 1..Chunks + 2 :
            (first \o data)[i] = IF i <= 2 THEN first[i] ELSE data[i - 2]
  <2>1. /\ first \o data \in Seq(Request) /\ Len(first \o data) = Len(first) + Len(data)
        /\ \A i \in 1..Len(first) + Len(data) :
              (first \o data)[i] = IF i <= Len(first) THEN first[i] ELSE data[i - Len(first)]
    BY <1>3, <1>4, ConcatProperties
  <2>2. Len(first) + Len(data) = Chunks + 2
    BY <1>1, <1>3, <1>4
  <2>3. QED
    BY <1>3, <1>4, <2>1, <2>2
<1>8. /\ Script \in Seq(Request) /\ Len(Script) = Chunks + 5
      /\ \A i \in 1..Chunks + 5 :
            Script[i] = IF i <= Chunks + 2 THEN (first \o data)[i] ELSE end[i - (Chunks + 2)]
  <2> DEFINE front == first \o data
  <2>1. front \in Seq(Request) /\ Len(front) = Chunks + 2
    BY <1>7
  <2>2. Script = front \o end
    BY <1>6
  <2> HIDE DEF front
  <2>3. /\ front \o end \in Seq(Request) /\ Len(front \o end) = Len(front) + Len(end)
        /\ \A i \in 1..Len(front) + Len(end) :
              (front \o end)[i] = IF i <= Len(front) THEN front[i] ELSE end[i - Len(front)]
    BY <1>5, <2>1, ConcatProperties
  <2>4. Script \in Seq(Request) /\ Len(Script) = Chunks + 5
    BY <1>1, <1>5, <2>1, <2>2, <2>3
  <2>5. \A i \in 1..Chunks + 5 :
            Script[i] = IF i <= Chunks + 2 THEN front[i] ELSE end[i - (Chunks + 2)]
    BY <1>1, <1>5, <2>1, <2>2, <2>3
  <2>6. QED
    BY <2>4, <2>5 DEF front
<1>9. Script \in Seq(Message)
  BY <1>2, <1>8
<1>10. Script[1] = Emergency(DefaultId) /\ Script[2] = SetBaseAddress(DefaultId)
  <2>1. 1 \in 1..Chunks + 2 /\ 2 \in 1..Chunks + 2 /\ 1 \in 1..Chunks + 5 /\ 2 \in 1..Chunks + 5
    BY <1>1
  <2>2. QED
    BY <1>4, <1>7, <1>8, <2>1
<1>11. ASSUME NEW n \in 1..Chunks
       PROVE  Script[n + 2] = data[n]
  <2>1. n + 2 \in 1..Chunks + 2 /\ n + 2 \in 1..Chunks + 5 /\ ~(n + 2 <= 2) /\ n + 2 - 2 = n
    BY <1>1
  <2>2. QED
    BY <1>7, <1>8, <2>1, SMTT(20)
<1>12. ASSUME NEW k \in 1..3
       PROVE  Script[Chunks + 2 + k] = end[k]
  <2>1. PICK i \in 1..Chunks + 5 :
            i = Chunks + 2 + k /\ ~(i <= Chunks + 2) /\ i - (Chunks + 2) = k
    BY <1>1
  <2>2. Script[i] = end[i - (Chunks + 2)]
    BY <1>8, <2>1
  <2>3. QED
    BY <2>1, <2>2
<1>13. Ending = Chunks + 2 + 1 /\ Ending + 1 = Chunks + 2 + 2 /\ Final = Chunks + 2 + 3
  BY <1>1 DEF Ending, Final, FirstChunk
<1>14. QED
  BY <1>3, <1>5, <1>8, <1>9, <1>10, <1>11, <1>12, <1>13

\* Where the parts of the script are.
LEMMA Positions ==
    ASSUME image \in Images
    PROVE  /\ Chunks \in Nat \ {0} /\ Ending = Chunks + 3 /\ Final = Ending + 2
           /\ Ending \in Nat /\ Final \in Nat /\ Ending > 3 /\ FirstChunk = 3
  BY ImageShape DEF Ending, Final, FirstChunk

\* What is asked of the module at each position of the script.
CommandAt(i) ==
    IF i = 1 THEN "PROGRAM"
    ELSE IF i = 2 THEN "SET_BASE_ADDR"
    ELSE IF i < Ending THEN "WRITE_INC"
    ELSE IF i = Ending THEN "SET_STATE"
    ELSE IF i = Ending + 1 THEN "WRITE_BOOTCONFIG" ELSE "RESET"

\* The messages of the script by their positions.
LEMMA ScriptMessages ==
    ASSUME image \in Images, NEW i \in 1..Final
    PROVE  /\ Script[i].cmd = CommandAt(i) /\ Script[i].dest = DefaultId
           /\ Script[i].type = IF i = 1 THEN "EMERGENCY" ELSE "BOOTLOADER"
           /\ Script[i].nack = FALSE /\ Script[i] \in Message /\ ~IsAlive(Script[i])
           /\ Script[i].half = <<>>
<1>1. Script[i] \in Message
  BY ScriptShape
<1> DEFINE Shape(m, cmd) ==
              /\ m.cmd = cmd /\ m.dest = DefaultId /\ m.type = "BOOTLOADER" /\ m.nack = FALSE
              /\ m.half = <<>>
<1>a. \A cmd, d : Shape(Boot(cmd, DefaultId, d), cmd)
  BY DEF Boot, Msg
<1>b. /\ Emergency(DefaultId).cmd = "PROGRAM" /\ Emergency(DefaultId).dest = DefaultId
      /\ Emergency(DefaultId).type = "EMERGENCY" /\ Emergency(DefaultId).nack = FALSE
      /\ Emergency(DefaultId).half = <<>>
  BY DEF Emergency, Msg
<1>c. Shape(SetBaseAddress(DefaultId), "SET_BASE_ADDR")
  BY <1>a DEF SetBaseAddress
<1>d. ASSUME i # 1, Shape(Script[i], CommandAt(i)), CommandAt(i) # "ALIVE"
      PROVE  /\ Script[i].cmd = CommandAt(i) /\ Script[i].dest = DefaultId
             /\ Script[i].type = IF i = 1 THEN "EMERGENCY" ELSE "BOOTLOADER"
             /\ Script[i].nack = FALSE /\ Script[i] \in Message /\ ~IsAlive(Script[i])
             /\ Script[i].half = <<>>
  BY <1>1, <1>d DEF IsAlive
<1>2. CASE i = 1 \/ i = 2
  <2>1. i = 1 \/ (i = 2 /\ CommandAt(i) = "SET_BASE_ADDR" /\ i # 1)
    BY <1>2 DEF CommandAt
  <2>2. CASE i = 1
    BY <1>1, <1>b, <2>2, ScriptShape DEF CommandAt, IsAlive
  <2>3. CASE i = 2 /\ CommandAt(i) = "SET_BASE_ADDR" /\ i # 1
    <3>1. Script[i] = SetBaseAddress(DefaultId)
      BY <2>3, ScriptShape
    <3> HIDE DEF Shape
    <3>2. Shape(Script[i], CommandAt(i))
      BY <1>c, <2>3, <3>1
    <3>3. QED
      BY <1>d, <2>3, <3>2
  <2>4. QED
    BY <2>1, <2>2, <2>3
<1>3. CASE i > 2 /\ i < Ending
  <2>1. PICK n \in 1..Chunks : i = n + 2
    <3>1. i - 2 \in 1..Chunks /\ i = (i - 2) + 2
      BY <1>3, Positions
    <3>2. QED
      BY <3>1
  <2>2. Script[i] = Boot("WRITE_INC", DefaultId,
                         SubSeq(image, (n - 1) * ChunkWords + 1, n * ChunkWords))
    BY <2>1, ScriptShape
  <2>3. CommandAt(i) = "WRITE_INC" /\ i # 1
    BY <1>3, Positions DEF CommandAt
  <2> HIDE DEF Shape
  <2>4. Shape(Script[i], CommandAt(i))
    BY <1>a, <2>2, <2>3
  <2>5. QED
    BY <1>d, <2>3, <2>4
<1>4. CASE i >= Ending
  <2>1. i = Ending \/ i = Ending + 1 \/ i = Final
    BY <1>4, Positions
  <2>2. /\ CommandAt(Ending) = "SET_STATE" /\ CommandAt(Ending + 1) = "WRITE_BOOTCONFIG"
        /\ CommandAt(Final) = "RESET" /\ i # 1
    BY <1>4, Positions DEF CommandAt
  <2>3. CommandAt(i) # "ALIVE"
    BY <2>1, <2>2
  <2>4. \E d : Script[i] = Boot(CommandAt(i), DefaultId, d)
    BY <2>1, <2>2, ScriptShape
  <2> HIDE DEF Shape
  <2>5. Shape(Script[i], CommandAt(i))
    BY <1>a, <2>4
  <2>6. QED
    BY <1>d, <2>2, <2>3, <2>5, Zenon
<1>5. i = 1 \/ i = 2 \/ (i > 2 /\ i < Ending) \/ i >= Ending
  BY Positions
<1>6. QED
  BY <1>2, <1>3, <1>4, <1>5, Zenon

\* A chunk has ChunkWords words, those of the image at its place.
LEMMA ChunkData ==
    ASSUME image \in Images, NEW i \in 3..Ending-1
    PROVE  /\ Script[i].data \in Seq(Nat) /\ Len(Script[i].data) = ChunkWords
           /\ \A d \in 0..ChunkWords-1 :
                 /\ ChunkWords * (i - 3) + d + 1 \in 1..Len(image)
                 /\ Script[i].data[d + 1] = image[ChunkWords * (i - 3) + d + 1]
<1>1. PICK n \in 1..Chunks : i = n + 2 /\ n - 1 = i - 3
  <2>1. i - 2 \in 1..Chunks /\ i = (i - 2) + 2 /\ (i - 2) - 1 = i - 3
    BY Positions
  <2>2. QED
    BY <2>1
<1> DEFINE from == (n - 1) * ChunkWords + 1
           to   == n * ChunkWords
<1>2. /\ image \in Seq(Nat) /\ ChunkWords \in Nat \ {0} /\ Chunks \in Nat \ {0}
      /\ ChunkWords * Chunks = Len(image) /\ Len(image) \in Nat
  BY ImageShape
<1>3. Script[i].data = SubSeq(image, from, to)
  <2>1. Script[n + 2] = Boot("WRITE_INC", DefaultId, SubSeq(image, from, to))
    BY ScriptShape
  <2> HIDE DEF from, to
  <2>2. Script[i] = Boot("WRITE_INC", DefaultId, SubSeq(image, from, to))
    BY <1>1, <2>1
  <2>3. Boot("WRITE_INC", DefaultId, SubSeq(image, from, to)).data = SubSeq(image, from, to)
    BY DEF Boot, Msg
  <2>4. QED
    BY <2>2, <2>3
<1>4. /\ from \in Nat \ {0} /\ to \in Nat /\ to = from + ChunkWords - 1
      /\ from = ChunkWords * (i - 3) + 1
  BY <1>1, <1>2
<1>5. to <= Len(image)
  <2>1. ChunkWords * n <= ChunkWords * Chunks
    BY <1>1, <1>2
  <2>2. QED
    BY <1>1, <1>2, <2>1
<1> HIDE DEF from, to
<1>6. /\ SubSeq(image, from, to) \in Seq(Nat) /\ Len(SubSeq(image, from, to)) = to - from + 1
      /\ \A k \in 1..to - from + 1 : SubSeq(image, from, to)[k] = image[from + k - 1]
  <2>1. /\ from \in Int /\ to \in Int /\ from <= to
        /\ \A k \in from..to : image[k] \in Nat
    BY <1>2, <1>4, <1>5
  <2>2. QED
    BY <2>1, SubSeqProperties
<1>7. ASSUME NEW d \in 0..ChunkWords-1
      PROVE  /\ ChunkWords * (i - 3) + d + 1 \in 1..Len(image)
             /\ Script[i].data[d + 1] = image[ChunkWords * (i - 3) + d + 1]
  <2>1. /\ d + 1 \in 1..to - from + 1 /\ from + (d + 1) - 1 = ChunkWords * (i - 3) + d + 1
        /\ from + d \in 1..Len(image) /\ from + d = ChunkWords * (i - 3) + d + 1
    BY <1>2, <1>4, <1>5
  <2>2. SubSeq(image, from, to)[d + 1] = image[from + (d + 1) - 1]
    BY <1>6, <2>1
  <2>3. QED
    BY <1>3, <2>1, <2>2
<1>8. to - from + 1 = ChunkWords
  BY <1>2, <1>4
<1>9. QED
  BY <1>3, <1>6, <1>7, <1>8

\* Stages are numbers; a refusal does not change that of the message refused.
LEMMA Stages ==
    /\ \A m : Stage(m) \in 0..6
    /\ \A m : m.cmd = "WRITE_INC" => Stage(m) = 3
    /\ \A m : m.cmd \in {"PROGRAM", "SET_BASE_ADDR"} => Stage(m) = 2
    /\ \A m : m.cmd = "SET_STATE" => Stage(m) = 4
    /\ \A m : m.cmd = "WRITE_BOOTCONFIG" => Stage(m) = 5
    /\ \A m : m.cmd = "RESET" => Stage(m) = 6
    /\ \A m \in Message : /\ Nack(m).cmd = m.cmd /\ Stage(Nack(m)) = Stage(m)
                          /\ Nack(m).nack = TRUE /\ Nack(m).dest = m.dest
                          /\ Nack(m).data = m.data
    /\ Stage(NoMessage) = 6
<1>1. \A m \in Message : /\ Nack(m).cmd = m.cmd /\ Nack(m).nack = TRUE
                         /\ Nack(m).dest = m.dest /\ Nack(m).data = m.data
  BY DEF Message, Nack
<1>2. NoMessage.cmd = "RESET"
  BY MessageTypes
<1>3. QED
  BY <1>1, <1>2 DEF Stage

\* They never fall along the script.
LEMMA ScriptStages ==
    ASSUME image \in Images
    PROVE  /\ \A i, j \in 1..Final : i <= j => Stage(Script[i]) <= Stage(Script[j])
           /\ \A i \in 1..Final : Stage(Script[i]) =
                 IF i <= 2 THEN 2 ELSE IF i < Ending THEN 3 ELSE 4 + (i - Ending)
<1>1. ASSUME NEW i \in 1..Final
      PROVE  Stage(Script[i]) = IF i <= 2 THEN 2 ELSE IF i < Ending THEN 3 ELSE 4 + (i - Ending)
  <2>1. Script[i].cmd = CommandAt(i)
    BY ScriptMessages
  <2>2. i <= 2 \/ (i > 2 /\ i < Ending) \/ i = Ending \/ i = Ending + 1 \/ i = Ending + 2
    BY Positions
  <2>3. QED
    BY <2>1, <2>2, Stages, Positions DEF CommandAt
<1>2. QED
  BY <1>1, Positions

-----------------------------------------------------------------------------
(* The two paths.                                                           *)
\* r is q without its first n messages, and q with m behind them.
Drop(q, r, n) ==
    /\ n \in 0..Len(q) /\ Len(r) = Len(q) - n
    /\ \A i \in 1..Len(r) : r[i] = q[i + n]
Appended(q, r, m) ==
    /\ Len(r) = Len(q) + 1 /\ r[Len(r)] = m
    /\ \A i \in 1..Len(q) : r[i] = q[i]

\* What the steps do to a path.
LEMMA PathSteps ==
    ASSUME NEW q \in Seq(Message)
    PROVE  /\ Drop(q, q, 0)
           /\ q # <<>> => Drop(q, Tail(q), 1) /\ Head(q) = q[1] /\ Len(q) >= 1
           /\ \A n \in 0..Len(q) : Drop(q, SubSeq(q, n + 1, Len(q)), n)
           /\ \A m \in Message : Appended(q, Append(q, m), m) /\ Append(q, m) \in Seq(Message)
<1>1. Drop(q, q, 0)
  BY DEF Drop
<1>2. q # <<>> => Drop(q, Tail(q), 1) /\ Head(q) = q[1] /\ Len(q) >= 1
  BY DEF Drop
<1>3. ASSUME NEW n \in 0..Len(q)
      PROVE  Drop(q, SubSeq(q, n + 1, Len(q)), n)
  <2>1. /\ Len(SubSeq(q, n + 1, Len(q))) = Len(q) - n
        /\ \A i \in 1..Len(q) - n : SubSeq(q, n + 1, Len(q))[i] = q[n + i]
    OBVIOUS
  <2>2. QED
    BY <2>1 DEF Drop
<1>4. \A m \in Message : Appended(q, Append(q, m), m) /\ Append(q, m) \in Seq(Message)
  BY DEF Appended
<1>5. QED
  BY <1>1, <1>2, <1>3, <1>4

\* A path that loses its first messages keeps its order.
LEMMA Dropped ==
    ASSUME NEW q \in Seq(Message), NEW r \in Seq(Message), NEW n, Drop(q, r, n)
    PROVE  /\ \A i \in 1..Len(r) : i + n \in 1..Len(q) /\ r[i] = q[i + n]
           /\ \A i \in 1..Len(r) : \E j \in 1..Len(q) : r[i] = q[j]
           /\ Sorted(q) => Sorted(r)
           /\ \A p \in Seq(Message) : Before(p, q) => Before(p, r)
           /\ \A p \in Seq(Message) : Before(q, p) => Before(r, p)
           /\ \A stage : AtLeast(q, stage) => AtLeast(r, stage)
<1>1. \A i \in 1..Len(r) : i + n \in 1..Len(q) /\ r[i] = q[i + n]
  BY DEF Drop
<1>2. \A i \in 1..Len(r) : \E j \in 1..Len(q) : r[i] = q[j]
  BY <1>1
<1>3. ASSUME Sorted(q)
      PROVE  Sorted(r)
  <2>1. SUFFICES ASSUME NEW i \in 1..Len(r), NEW j \in 1..Len(r), i < j,
                        ~IsAlive(r[i]), ~IsAlive(r[j])
                 PROVE  Stage(r[i]) <= Stage(r[j])
    BY DEF Sorted
  <2>2. i + n \in 1..Len(q) /\ j + n \in 1..Len(q) /\ i + n < j + n
    BY <1>1, <2>1 DEF Drop
  <2>3. QED
    BY <1>1, <1>3, <2>1, <2>2 DEF Sorted
<1>4. QED
  BY <1>1, <1>2, <1>3 DEF Before, AtLeast

\* So does one that gets a message that belongs behind the others.
LEMMA Extended ==
    ASSUME NEW q \in Seq(Message), NEW r \in Seq(Message), NEW m \in Message,
           Appended(q, r, m)
    PROVE  /\ \A i \in 1..Len(r) : (i \in 1..Len(q) /\ r[i] = q[i]) \/ r[i] = m
           /\ Sorted(q) /\ Before(q, <<m>>) => Sorted(r)
           /\ \A p \in Seq(Message) : Before(p, q) /\ Before(p, <<m>>) => Before(p, r)
           /\ \A p \in Seq(Message) : Before(q, p) /\ Before(<<m>>, p) => Before(r, p)
           /\ \A stage : AtLeast(q, stage) /\ AtLeast(<<m>>, stage) => AtLeast(r, stage)
<1>1. Len(q) \in Nat /\ Len(r) = Len(q) + 1 /\ r[Len(r)] = m
      /\ \A i \in 1..Len(q) : r[i] = q[i]
  BY DEF Appended
<1>2. \A i \in 1..Len(r) : (i \in 1..Len(q) /\ r[i] = q[i]) \/ (i = Len(q) + 1 /\ r[i] = m)
  BY <1>1
<1>3. Len(<<m>>) = 1 /\ <<m>>[1] = m
  OBVIOUS
<1>4. ASSUME Sorted(q), Before(q, <<m>>)
      PROVE  Sorted(r)
  <2>1. SUFFICES ASSUME NEW i \in 1..Len(r), NEW j \in 1..Len(r), i < j,
                        ~IsAlive(r[i]), ~IsAlive(r[j])
                 PROVE  Stage(r[i]) <= Stage(r[j])
    BY DEF Sorted
  <2>2. i \in 1..Len(q) /\ r[i] = q[i]
    BY <1>1, <2>1
  <2>3. CASE j \in 1..Len(q) /\ r[j] = q[j]
    BY <1>4, <2>1, <2>2, <2>3 DEF Sorted
  <2>4. CASE r[j] = m
    BY <1>3, <1>4, <2>1, <2>2, <2>4 DEF Before
  <2>5. QED
    BY <1>2, <2>3, <2>4
<1>5. QED
  BY <1>2, <1>3, <1>4 DEF Before, AtLeast

\* Two messages.
LEMMA TwoMessages ==
    \A x, y \in Message :
        Before(<<x>>, <<y>>) <=> (~IsAlive(x) /\ ~IsAlive(y) => Stage(x) <= Stage(y))
<1>1. \A x : Len(<<x>>) = 1 /\ <<x>>[1] = x /\ 1 \in 1..Len(<<x>>)
  OBVIOUS
<1>2. \A x : \A i \in 1..Len(<<x>>) : i = 1
  OBVIOUS
<1>3. QED
  BY <1>1, <1>2 DEF Before

\* One message and a path.
LEMMA OneMessage ==
    ASSUME NEW m \in Message, NEW q \in Seq(Message)
    PROVE  /\ Before(q, <<m>>) <=>
                 (\A i \in 1..Len(q) : ~IsAlive(q[i]) /\ ~IsAlive(m) => Stage(q[i]) <= Stage(m))
           /\ Before(<<m>>, q) <=>
                 (\A i \in 1..Len(q) : ~IsAlive(m) /\ ~IsAlive(q[i]) => Stage(m) <= Stage(q[i]))
           /\ \A stage : AtLeast(<<m>>, stage) <=> IsAlive(m) \/ Stage(m) >= stage
           /\ <<m>> \in Seq(Message)
<1>1. Len(<<m>>) = 1 /\ <<m>>[1] = m /\ <<m>> \in Seq(Message)
  OBVIOUS
<1>2. \A i \in 1..Len(<<m>>) : i = 1
  BY <1>1
<1>3. 1 \in 1..Len(<<m>>)
  BY <1>1
<1>4. QED
  BY <1>1, <1>2, <1>3 DEF Before, AtLeast

\* The paths carry messages.
Paths == toDev \in Seq(Message) /\ toHost \in Seq(Message) /\ answer \in Message

\* The script is that of the image.
LEMMA SameScript ==
    ASSUME image' = image
    PROVE  /\ Script' = Script /\ Chunks' = Chunks /\ Ending' = Ending /\ Final' = Final
           /\ ImagePages' = ImagePages
<1>1. Script' = Script
  BY DEF Script
<1>2. QED
  BY <1>1 DEF Chunks, Ending, Final, ImagePages, FirstChunk

\* What comes from the script, or is the refusal of a message of it.
LEMMA Echoed ==
    ASSUME image \in Images, NEW h \in 1..Final, NEW m, Echo(m, h)
    PROVE  /\ m \in Message /\ ~IsAlive(m) /\ m.dest = DefaultId
           /\ 2 <= Stage(m) /\ Stage(m) <= Stage(Script[h])
           /\ \E i \in 1..h : m.cmd = CommandAt(i)
           /\ \A k \in 1..Final : h <= k => Echo(m, k)
<1>1. PICK i \in 1..h : m = Script[i] \/ m = Nack(Script[i])
  BY DEF Echo
<1>2. i \in 1..Final /\ i <= h /\ Final \in Nat
  BY Positions
<1>3. /\ Script[i].cmd = CommandAt(i) /\ Script[i].dest = DefaultId /\ Script[i].nack = FALSE
      /\ Script[i] \in Message /\ ~IsAlive(Script[i])
  BY <1>2, ScriptMessages
<1>4. Stage(Script[i]) <= Stage(Script[h]) /\ 2 <= Stage(Script[i])
  BY <1>2, ScriptStages, Positions
<1>5. /\ Nack(Script[i]).cmd = Script[i].cmd /\ Stage(Nack(Script[i])) = Stage(Script[i])
      /\ Nack(Script[i]).dest = Script[i].dest
  BY <1>3, Stages
<1>6. Nack(Script[i]) \in Message
  BY <1>3 DEF Nack, Message
<1>7. ASSUME NEW k \in 1..Final, h <= k
      PROVE  Echo(m, k)
  <2>1. i \in 1..k
    BY <1>2, <1>7
  <2>2. QED
    BY <1>1, <2>1 DEF Echo
<1>8. QED
  BY <1>1, <1>2, <1>3, <1>4, <1>5, <1>6, <1>7 DEF IsAlive

\* A message sent is one of the script, and so is what it is answered with.
LEMMA SentEchoes ==
    ASSUME NEW h, NEW m, Sent(m, h)
    PROVE  Echo(m, h) /\ Echo(Nack(m), h)
  BY DEF Sent, Echo

\* What the requests are, and how far the module is behind the script.
LEMMA RequestIs ==
    ASSUME image \in Images, NEW h \in 1..Final, Paths, Requests(h),
           NEW n \in 1..Len(toDev)
    PROVE  \/ toDev[n] = AliveRequest /\ IsAlive(toDev[n])
           \/ /\ Sent(toDev[n], h) /\ ~IsAlive(toDev[n])
              /\ \E i \in 1..h : toDev[n] = Script[i] /\ toDev[n].cmd = CommandAt(i)
<1>1. toDev[n] = AliveRequest \/ Sent(toDev[n], h)
  BY DEF Requests
<1>2. IsAlive(AliveRequest)
  BY DEF AliveRequest, Msg, IsAlive
<1>3. ASSUME Sent(toDev[n], h)
      PROVE  /\ ~IsAlive(toDev[n])
             /\ \E i \in 1..h : toDev[n] = Script[i] /\ toDev[n].cmd = CommandAt(i)
  <2>1. PICK i \in 1..h : toDev[n] = Script[i]
    BY <1>3 DEF Sent
  <2>2. i \in 1..Final
    BY Positions
  <2>3. Script[i].cmd = CommandAt(i) /\ ~IsAlive(Script[i])
    BY <2>2, ScriptMessages
  <2>4. QED
    BY <2>1, <2>3
<1>4. QED
  BY <1>1, <1>2, <1>3

\* Nothing before the message accepted last is on its way.
LEMMA Behind ==
    ASSUME image \in Images, NEW h \in 3..Final, NEW m, IsAlive(m) \/ Stage(m) >= Stage(Script[h - 1])
    PROVE  /\ m.cmd = "PROGRAM" \/ m.cmd = "SET_BASE_ADDR" => h = 3
           /\ m.cmd = "WRITE_INC" => h <= Ending
           /\ m.cmd = "SET_STATE" => h <= Ending + 1
           /\ m.cmd = "WRITE_BOOTCONFIG" => h <= Final
<1>1. h - 1 \in 1..Final
  BY Positions
<1>2. Stage(Script[h - 1]) =
         IF h - 1 <= 2 THEN 2 ELSE IF h - 1 < Ending THEN 3 ELSE 4 + ((h - 1) - Ending)
  BY <1>1, ScriptStages
<1>3. IsAlive(m) => m.cmd = "ALIVE"
  BY DEF IsAlive
<1>4. CASE m.cmd = "PROGRAM" \/ m.cmd = "SET_BASE_ADDR"
  <2>1. Stage(m) = 2 /\ ~IsAlive(m)
    BY <1>4, Stages DEF IsAlive
  <2>2. QED
    BY <1>2, <1>4, <2>1, Positions
<1>5. CASE m.cmd = "WRITE_INC"
  <2>1. Stage(m) = 3 /\ ~IsAlive(m)
    BY <1>5, Stages DEF IsAlive
  <2>2. QED
    BY <1>2, <1>5, <2>1, Positions
<1>6. CASE m.cmd = "SET_STATE"
  <2>1. Stage(m) = 4 /\ ~IsAlive(m)
    BY <1>6, Stages DEF IsAlive
  <2>2. QED
    BY <1>2, <1>6, <2>1, Positions
<1>7. QED
  BY <1>4, <1>5, <1>6, Positions

\* Requests taken by the module, or lost, leave those behind them.
LEMMA RequestsPassed ==
    ASSUME image' = image, Paths, Paths', NEW h, Requests(h), NEW n, Drop(toDev, toDev', n)
    PROVE  Requests(h)'
<1>1. \A i \in 1..Len(toDev') : \E j \in 1..Len(toDev) : toDev'[i] = toDev[j]
  BY Dropped DEF Paths
<1>2. Sorted(toDev')
  BY Dropped DEF Paths, Requests
<1>3. ASSUME NEW i \in 1..Len(toDev')
      PROVE  toDev'[i] = AliveRequest \/ \E k \in 1..h : toDev'[i] = Script[k]
  BY <1>1 DEF Requests, Sent
<1>4. QED
  BY <1>2, <1>3, SameScript DEF Requests, Sent

\* The plugin sends the message that is next, the manager an alive request.
LEMMA RequestsPushed ==
    ASSUME image \in Images, image' = image, Paths, Paths',
           NEW h \in 1..Final, NEW k \in 1..Final, h <= k, Requests(h),
           NEW m, m = AliveRequest \/ m = Script[k], Appended(toDev, toDev', m)
    PROVE  Requests(k)'
<1>1. m \in Message
  <2>1. toDev'[Len(toDev')] = m /\ Len(toDev') = Len(toDev) + 1
    BY DEF Appended
  <2>2. Len(toDev') \in 1..Len(toDev')
    BY <2>1 DEF Paths
  <2>3. QED
    BY <2>1, <2>2 DEF Paths
<1>2. \A i \in 1..Len(toDev') : (i \in 1..Len(toDev) /\ toDev'[i] = toDev[i]) \/ toDev'[i] = m
  BY <1>1, Extended DEF Paths
<1>3. ASSUME NEW i \in 1..Len(toDev')
      PROVE  toDev'[i] = AliveRequest \/ \E j \in 1..k : toDev'[i] = Script[j]
  <2>1. CASE i \in 1..Len(toDev) /\ toDev'[i] = toDev[i]
    <3>1. toDev[i] = AliveRequest \/ \E j \in 1..h : toDev[i] = Script[j]
      BY <2>1 DEF Requests, Sent
    <3>2. 1..h \subseteq 1..k
      BY Positions
    <3>3. QED
      BY <2>1, <3>1, <3>2
  <2>2. CASE toDev'[i] = m
    <3>1. k \in 1..k
      BY Positions
    <3>2. QED
      BY <2>2, <3>1
  <2>3. QED
    BY <1>2, <2>1, <2>2
<1>4. Before(toDev, <<m>>)
  <2>1. SUFFICES ASSUME NEW i \in 1..Len(toDev), ~IsAlive(toDev[i]), ~IsAlive(m)
                 PROVE  Stage(toDev[i]) <= Stage(m)
    BY <1>1, OneMessage DEF Paths
  <2>2. m = Script[k] /\ toDev[i] # AliveRequest
    BY <2>1 DEF AliveRequest, Msg, IsAlive
  <2>3. PICK j \in 1..h : toDev[i] = Script[j]
    BY <2>2 DEF Requests, Sent
  <2>4. j \in 1..Final /\ j <= k
    BY Positions
  <2>5. QED
    BY <2>2, <2>3, <2>4, ScriptStages
<1>5. Sorted(toDev')
  BY <1>1, <1>4, Extended DEF Paths, Requests
<1>6. QED
  BY <1>3, <1>5, SameScript DEF Requests, Sent

\* The answers, by the script before the step.
AnswersAs(h, sent, answers, pending) ==
    /\ \A i \in 1..Len(answers) : IsAlive(answers[i]) \/ Echo(answers[i], h)
    /\ pending # NoMessage => Echo(pending, h)
    /\ Sorted(answers) /\ Before(answers, <<pending>>) /\ Before(answers, sent)
    /\ pending # NoMessage => Before(<<pending>>, sent)
    /\ LET accepted == Stage(Script[h - 1]) IN
          /\ AtLeast(answers, accepted) /\ AtLeast(<<pending>>, accepted)
          /\ AtLeast(sent, accepted)

\* Answers is AnswersAs of the two paths, before and after a step.
LEMMA AnswersAre ==
    ASSUME NEW h
    PROVE  /\ Answers(h) <=> AnswersAs(h, toDev, toHost, answer)
           /\ image' = image => (Answers(h)' <=> AnswersAs(h, toDev', toHost', answer'))
<1>1. Answers(h) <=> AnswersAs(h, toDev, toHost, answer)
  BY DEF Answers, AnswersAs, Pending
<1>2. ASSUME image' = image
      PROVE  Answers(h)' <=> AnswersAs(h, toDev', toHost', answer')
  <2>1. Script' = Script
    BY <1>2, SameScript
  <2>2. QED
    BY <2>1 DEF Answers, AnswersAs, Pending, Echo
<1>3. QED
  BY <1>1, <1>2

\* Nothing is behind NoMessage, which belongs behind everything.
LEMMA Nothing ==
    /\ NoMessage \in Message /\ ~IsAlive(NoMessage)
    /\ \A q \in Seq(Message) : Before(q, <<NoMessage>>)
    /\ \A stage \in 0..6 : AtLeast(<<NoMessage>>, stage)
<1>1. NoMessage \in Message /\ ~IsAlive(NoMessage)
  BY MessageTypes, RequestTypes DEF AnswerMessage
<1>2. \A m : Stage(m) \in 0..6 /\ Stage(NoMessage) = 6
  BY Stages
<1>3. ASSUME NEW q \in Seq(Message)
      PROVE  Before(q, <<NoMessage>>)
  BY <1>1, <1>2, OneMessage
<1>4. ASSUME NEW stage \in 0..6
      PROVE  AtLeast(<<NoMessage>>, stage)
  <2>1. <<NoMessage>> \in Seq(Message) /\ Stage(NoMessage) >= stage
    BY <1>1, <1>2
  <2>2. QED
    BY <1>1, <2>1, OneMessage
<1>5. QED
  BY <1>1, <1>3, <1>4

\* Requests and answers that are lost, or handled, leave those behind them.
LEMMA AnswersPassed ==
    ASSUME image' = image, Paths, Paths', NEW h, Answers(h),
           NEW n, Drop(toDev, toDev', n), NEW k, Drop(toHost, toHost', k), answer' = answer
    PROVE  Answers(h)'
<1>1. AnswersAs(h, toDev, toHost, answer)
  BY AnswersAre
<1>2. /\ \A i \in 1..Len(toHost') : \E j \in 1..Len(toHost) : toHost'[i] = toHost[j]
      /\ Sorted(toHost')
      /\ \A stage : AtLeast(toHost, stage) => AtLeast(toHost', stage)
      /\ \A stage : AtLeast(toDev, stage) => AtLeast(toDev', stage)
  BY <1>1, Dropped DEF Paths, AnswersAs
<1>3. <<answer>> \in Seq(Message)
  BY DEF Paths
<1>4. Before(toHost', <<answer>>)
  BY <1>1, <1>3, Dropped DEF Paths, AnswersAs
<1>5. answer # NoMessage => Before(<<answer>>, toDev')
  BY <1>1, <1>3, Dropped DEF Paths, AnswersAs
<1>6. Before(toHost, toDev')
  BY <1>1, Dropped DEF Paths, AnswersAs
<1>7. Before(toHost', toDev')
  BY <1>6, Dropped DEF Paths
<1>8. AnswersAs(h, toDev', toHost', answer)
  BY <1>1, <1>2, <1>4, <1>5, <1>7 DEF AnswersAs
<1>9. QED
  BY <1>8, AnswersAre

\* The module takes the first request, and will answer it or refuse it.
LEMMA AnswersTaken ==
    ASSUME image \in Images, image' = image, Paths, Paths', NEW h \in 3..Final,
           Requests(h), Answers(h), toDev # <<>>, ~IsAlive(In), ~Pending,
           Drop(toDev, toDev', 1), toHost' = toHost, answer' \in {In, Nack(In)}
    PROVE  Answers(h)'
<1>1. AnswersAs(h, toDev, toHost, answer) /\ Script[h - 1] = Script[h - 1]
  BY AnswersAre
<1>2. In = toDev[1] /\ 1 \in 1..Len(toDev) /\ In \in Message
  BY PathSteps DEF Paths, In
<1>3. /\ answer'.cmd = In.cmd /\ Stage(answer') = Stage(In) /\ ~IsAlive(answer')
      /\ answer' \in Message
  BY <1>2, Stages DEF IsAlive, Paths
<1>4. Echo(answer', h)
  <2>1. Sent(In, h)
    BY <1>2, RequestIs
  <2>2. QED
    BY <2>1, SentEchoes
<1>5. Before(toHost, <<answer'>>)
  <2>1. SUFFICES ASSUME NEW i \in 1..Len(toHost), ~IsAlive(toHost[i])
                 PROVE  Stage(toHost[i]) <= Stage(answer')
    BY <1>3, OneMessage DEF Paths
  <2>2. QED
    BY <1>1, <1>2, <1>3, <2>1 DEF AnswersAs, Before
<1>6. Before(<<answer'>>, toDev')
  <2>1. SUFFICES ASSUME NEW i \in 1..Len(toDev'), ~IsAlive(toDev'[i])
                 PROVE  Stage(answer') <= Stage(toDev'[i])
    BY <1>3, OneMessage DEF Paths
  <2>2. i + 1 \in 1..Len(toDev) /\ toDev'[i] = toDev[i + 1] /\ 1 < i + 1
    BY Dropped DEF Paths
  <2>3. QED
    BY <1>2, <1>3, <2>1, <2>2 DEF Requests, Sorted
<1>7. AtLeast(<<answer'>>, Stage(Script[h - 1]))
  BY <1>1, <1>2, <1>3, OneMessage DEF AnswersAs, AtLeast
<1>8. Before(toHost, toDev') /\ AtLeast(toDev', Stage(Script[h - 1]))
  BY <1>1, Dropped DEF Paths, AnswersAs
<1>9. AnswersAs(h, toDev', toHost', answer')
  BY <1>1, <1>4, <1>5, <1>6, <1>7, <1>8 DEF AnswersAs
<1>10. QED
  BY <1>9, AnswersAre

\* The answer of the handler in progress goes behind those sent before.
LEMMA AnswersReplied ==
    ASSUME image \in Images, image' = image, Paths, Paths', NEW h \in 3..Final, Answers(h),
           Pending, toDev' = toDev, Appended(toHost, toHost', answer), answer' = NoMessage
    PROVE  Answers(h)'
<1>1. AnswersAs(h, toDev, toHost, answer)
  BY AnswersAre
<1>2. \A i \in 1..Len(toHost') :
         (i \in 1..Len(toHost) /\ toHost'[i] = toHost[i]) \/ toHost'[i] = answer
  BY Extended DEF Paths
<1>3. /\ Sorted(toHost') /\ Before(toHost', toDev)
      /\ AtLeast(toHost', Stage(Script[h - 1]))
  BY <1>1, Extended DEF Paths, Pending, AnswersAs
<1>4. /\ Before(toHost', <<NoMessage>>)
      /\ AtLeast(<<NoMessage>>, Stage(Script[h - 1]))
  BY Nothing, Stages DEF Paths
<1>5. AnswersAs(h, toDev', toHost', answer')
  BY <1>1, <1>2, <1>3, <1>4 DEF AnswersAs, Pending
<1>6. QED
  BY <1>5, AnswersAre

\* Alive requests are answered in between.
LEMMA AnswersAlive ==
    ASSUME image' = image, Paths, Paths', NEW h, Answers(h),
           NEW n, Drop(toDev, toDev', n), NEW m \in Message, IsAlive(m),
           Appended(toHost, toHost', m), answer' = answer
    PROVE  Answers(h)'
<1>1. AnswersAs(h, toDev, toHost, answer)
  BY AnswersAre
<1>2. \A i \in 1..Len(toHost') :
         (i \in 1..Len(toHost) /\ toHost'[i] = toHost[i]) \/ toHost'[i] = m
  BY Extended DEF Paths
<1>3. /\ <<answer>> \in Seq(Message)
      /\ \A q \in Seq(Message) : Before(q, <<m>>) /\ Before(<<m>>, q)
      /\ \A stage : AtLeast(<<m>>, stage)
  BY OneMessage DEF Paths
<1>4. /\ Before(toHost, toDev') /\ AtLeast(toDev', Stage(Script[h - 1]))
      /\ answer # NoMessage => Before(<<answer>>, toDev')
  BY <1>1, <1>3, Dropped DEF Paths, AnswersAs
<1>a. Sorted(toHost') /\ AtLeast(toHost', Stage(Script[h - 1]))
  BY <1>1, <1>3, Extended DEF Paths, AnswersAs
<1>b. Before(toHost', toDev')
  BY <1>3, <1>4, Extended DEF Paths
<1>c. Before(toHost', <<answer>>)
  BY <1>1, <1>3, Extended DEF Paths, AnswersAs
<1>5. /\ Sorted(toHost') /\ Before(toHost', toDev') /\ Before(toHost', <<answer>>)
      /\ AtLeast(toHost', Stage(Script[h - 1]))
  BY <1>a, <1>b, <1>c
<1>6. AnswersAs(h, toDev', toHost', answer')
  BY <1>1, <1>2, <1>4, <1>5 DEF AnswersAs
<1>7. QED
  BY <1>6, AnswersAre

\* What is sent goes behind all that is on its way.
LEMMA AnswersPushed ==
    ASSUME image \in Images, image' = image, Paths, Paths', NEW h \in 3..Final, Answers(h),
           NEW m \in Message, m = AliveRequest \/ m = Script[h], Appended(toDev, toDev', m),
           toHost' = toHost, answer' = answer
    PROVE  Answers(h)'
<1>1. AnswersAs(h, toDev, toHost, answer)
  BY AnswersAre
<1>2. h \in 1..Final /\ h - 1 \in 1..Final /\ h - 1 <= h
  BY Positions
<1>3. IsAlive(m) \/ m = Script[h]
  BY DEF AliveRequest, Msg, IsAlive
<1>4. \A x : Stage(x) \in 0..6
  BY Stages
<1>5. Before(toHost, <<m>>)
  BY <1>1, <1>2, <1>3, OneMessage, Echoed DEF Paths, AnswersAs
<1>6. answer # NoMessage => Before(<<answer>>, <<m>>)
  <2>1. SUFFICES ASSUME answer # NoMessage, ~IsAlive(m)
                 PROVE  Stage(answer) <= Stage(m)
    BY TwoMessages DEF Paths
  <2>2. Echo(answer, h) /\ m = Script[h]
    BY <1>1, <1>3, <2>1 DEF AnswersAs
  <2>3. QED
    BY <1>2, <2>2, Echoed
<1>7. AtLeast(<<m>>, Stage(Script[h - 1]))
  <2>1. Stage(Script[h - 1]) <= Stage(Script[h])
    BY <1>2, ScriptStages
  <2>2. IsAlive(m) \/ Stage(m) >= Stage(Script[h - 1])
    BY <1>3, <1>4, <2>1
  <2>3. <<m>> \in Seq(Message)
    OBVIOUS
  <2>4. QED
    BY <2>2, <2>3, OneMessage
<1>8. /\ Before(toHost, toDev') /\ AtLeast(toDev', Stage(Script[h - 1]))
      /\ answer # NoMessage => Before(<<answer>>, toDev')
  <2>1. <<answer>> \in Seq(Message)
    BY DEF Paths
  <2>2. Before(toHost, toDev')
    BY <1>1, <1>5, Extended DEF Paths, AnswersAs
  <2>3. AtLeast(toDev', Stage(Script[h - 1]))
    BY <1>1, <1>7, Extended DEF Paths, AnswersAs
  <2>4. answer # NoMessage => Before(<<answer>>, toDev')
    BY <1>1, <1>6, <2>1, Extended DEF Paths, AnswersAs
  <2>5. QED
    BY <2>2, <2>3, <2>4
<1>9. AnswersAs(h, toDev', toHost', answer')
  BY <1>1, <1>8 DEF AnswersAs
<1>10. QED
  BY <1>9, AnswersAre

\* The plugin accepts the first answer and sends the next message: everything
\* else on its way is behind both.
LEMMA AnswersAccepted ==
    ASSUME image \in Images, image' = image, Paths, Paths', NEW h \in 3..Final-1,
           Requests(h), Answers(h), toHost # <<>>, Got = Script[h],
           Drop(toHost, toHost', 1), Appended(toDev, toDev', Script[h + 1]), answer' = answer
    PROVE  Answers(h + 1)'
<1>1. AnswersAs(h, toDev, toHost, answer)
  BY AnswersAre
<1>2. /\ h \in 1..Final /\ h + 1 \in 1..Final /\ h <= h + 1 /\ (h + 1) - 1 = h
      /\ \A i \in 1..Len(toHost') : i + 1 \in 1..Len(toHost) /\ 1 < i + 1
  BY Positions, Dropped DEF Paths
<1>3. Got = toHost[1] /\ 1 \in 1..Len(toHost)
  BY PathSteps DEF Paths, Got
<1>4. /\ Script[h] \in Message /\ ~IsAlive(Script[h])
      /\ Script[h + 1] \in Message /\ ~IsAlive(Script[h + 1])
      /\ Stage(Script[h]) <= Stage(Script[h + 1])
      /\ \A m : Stage(m) \in 0..6
  BY <1>2, ScriptMessages, ScriptStages, Stages
<1>5. AtLeast(toHost', Stage(Script[h]))
  <2>1. SUFFICES ASSUME NEW i \in 1..Len(toHost'), ~IsAlive(toHost'[i])
                 PROVE  Stage(toHost'[i]) >= Stage(Script[h])
    BY DEF AtLeast
  <2>2. toHost'[i] = toHost[i + 1]
    BY Dropped DEF Paths
  <2>3. Stage(toHost[1]) <= Stage(toHost[i + 1])
    BY <1>1, <1>2, <1>3, <1>4, <2>1, <2>2 DEF AnswersAs, Sorted
  <2>4. QED
    BY <1>3, <1>4, <2>2, <2>3
<1>6. AtLeast(<<answer>>, Stage(Script[h]))
  <2>1. IsAlive(answer) \/ Stage(toHost[1]) <= Stage(answer)
    BY <1>1, <1>3, <1>4, OneMessage DEF Paths, AnswersAs
  <2>2. QED
    BY <1>3, <1>4, <2>1, OneMessage DEF Paths
<1>7. AtLeast(toDev, Stage(Script[h]))
  BY <1>1, <1>3, <1>4 DEF AnswersAs, AtLeast, Before
<1>8. AtLeast(<<Script[h + 1]>>, Stage(Script[h]))
  BY <1>4, OneMessage
<1>9. AtLeast(toDev', Stage(Script[h]))
  BY <1>4, <1>7, <1>8, Extended DEF Paths
<1>10. \A m : Echo(m, h) => Echo(m, h + 1) /\ Stage(m) <= Stage(Script[h + 1])
  BY <1>2, <1>4, Echoed
<1>11. Before(toHost, <<Script[h + 1]>>)
  BY <1>1, <1>4, <1>10, OneMessage DEF Paths, AnswersAs
<1>12. answer # NoMessage => Before(<<answer>>, <<Script[h + 1]>>)
  <2>1. <<answer>> \in Seq(Message) /\ Len(<<answer>>) = 1 /\ <<answer>>[1] = answer
    BY DEF Paths
  <2>2. \A i \in 1..Len(<<answer>>) : i = 1
    BY <2>1
  <2>3. QED
    BY <1>1, <1>4, <1>10, <2>1, <2>2, OneMessage DEF Paths, AnswersAs
<1>13. /\ Before(toHost, toDev')
       /\ answer # NoMessage => Before(<<answer>>, toDev')
  <2>1. <<answer>> \in Seq(Message)
    BY DEF Paths
  <2>2. QED
    BY <1>1, <1>4, <1>11, <1>12, <2>1, Extended, ZenonT(30) DEF Paths, AnswersAs
<1>14. /\ \A i \in 1..Len(toHost') : \E j \in 1..Len(toHost) : toHost'[i] = toHost[j]
       /\ Sorted(toHost') /\ Before(toHost', toDev') /\ Before(toHost', <<answer>>)
  <2>1. <<answer>> \in Seq(Message)
    BY DEF Paths
  <2>2. QED
    BY <1>1, <1>13, <2>1, Dropped, ZenonT(30) DEF Paths, AnswersAs
<1>15. AnswersAs(h + 1, toDev', toHost', answer')
  BY <1>1, <1>2, <1>5, <1>6, <1>9, <1>10, <1>13, <1>14 DEF AnswersAs
<1>16. QED
  BY <1>15, AnswersAre

-----------------------------------------------------------------------------
(* What the module has received.                                            *)
\* Numbers of the answers on their way.
LEMMA Numbers ==
    ASSUME NEW q \in Seq(Message), NEW number \in [1..Latest(q) -> Nat]
    PROVE  /\ Len(q) \in Nat /\ Latest(q) = Len(q) + 1
           /\ 1 \in 1..Latest(q) /\ Latest(q) \in 1..Latest(q)
           /\ number[1] \in Nat /\ number[Latest(q)] \in Nat
           /\ \A i \in 1..Len(q) : i \in 1..Latest(q) /\ i + 1 \in 1..Latest(q)
           /\ \A m : One(m) \in 0..1 /\ (Good(m) <=> One(m) = 1)
           /\ \A m : IsAlive(m) => ~Good(m)
           /\ ~Good(NoMessage)
<1>1. Len(q) \in Nat /\ Latest(q) = Len(q) + 1
  BY DEF Latest
<1>2. NoMessage.cmd = "RESET"
  BY MessageTypes
<1>3. QED
  BY <1>1, <1>2 DEF One, Good, IsAlive

\* The numbers after a message has gone on its way, or has been handled or lost.
NumbersAfter(more, number, h, q, pending, r, rest, amount) ==
    /\ Numbered(more, h, r, rest, amount)
    /\ Exact(number, q, pending, amount) => Exact(more, r, rest, amount)
    /\ \A store, words : Chunked(number, h, store, words, q, pending) =>
                         Chunked(more, h, store, words, r, rest)

NumbersWithout(less, number, h, k, q, r, pending, amount) ==
    /\ Numbered(less, h, r, pending, amount)
    /\ number[1] = h - FirstChunk => Numbered(less, k, r, pending, amount)
    /\ less[1] = number[1] + One(q[1])
    /\ Exact(number, q, pending, amount) => Exact(less, r, pending, amount)
    /\ \A i \in 1..Len(r) : less[i] = number[i + 1] /\ r[i] = q[i + 1] /\ i + 1 \in 1..Len(q)
    /\ less[Latest(r)] = number[Latest(q)]

\* A message goes on its way to the host, which is an answer to an alive request
\* or that of the handler in progress.
LEMMA NumbersAppended ==
    ASSUME NEW h \in Nat, NEW amount, NEW q \in Seq(Message), NEW r \in Seq(Message),
           NEW m, NEW pending, NEW rest, Appended(q, r, m),
           (IsAlive(m) /\ rest = pending) \/ (m = pending /\ rest = NoMessage),
           NEW number \in [1..Latest(q) -> Nat], Numbered(number, h, q, pending, amount)
    PROVE  \E more \in [1..Latest(r) -> Nat] :
              NumbersAfter(more, number, h, q, pending, r, rest, amount)
<1> DEFINE more == [i \in 1..Latest(q) + 1 |->
                       IF i = Latest(q) + 1 THEN number[Latest(q)] + One(m) ELSE number[i]]
<1>1. /\ Len(q) \in Nat /\ Latest(q) = Len(q) + 1 /\ Len(r) = Len(q) + 1
      /\ Latest(r) = Latest(q) + 1 /\ r[Latest(q)] = m
      /\ \A i \in 1..Len(q) : r[i] = q[i]
  BY DEF Appended, Latest
<1>2. /\ number[1] \in Nat /\ number[Latest(q)] \in Nat
      /\ One(m) \in 0..1 /\ One(rest) \in 0..1 /\ One(m) + One(rest) = One(pending)
      /\ (Good(m) => m = pending) /\ (Good(rest) => rest = pending /\ One(m) = 0)
  BY Numbers
<1>3. more \in [1..Latest(r) -> Nat]
  BY <1>1, <1>2
<1>4. /\ \A i \in 1..Latest(q) : more[i] = number[i]
      /\ more[Latest(r)] = number[Latest(q)] + One(m) /\ more[1] = number[1]
  BY <1>1
<1> HIDE DEF more
<1>5. \A i \in 1..Latest(q) : number[i] \in Nat /\ number[i] <= number[Latest(q)]
  BY <1>1 DEF Numbered
<1>6. more[Latest(r)] + One(rest) = number[Latest(q)] + One(pending)
  BY <1>2, <1>4
<1>7. Numbered(more, h, r, rest, amount)
  <2>1. \A i \in 1..Len(r) : more[i + 1] = more[i] + One(r[i])
    <3>1. ASSUME NEW i \in 1..Len(q)
          PROVE  more[i + 1] = more[i] + One(r[i])
      <4>1. i \in 1..Latest(q) /\ i + 1 \in 1..Latest(q)
        BY <1>1
      <4>2. QED
        BY <1>1, <1>4, <4>1 DEF Numbered
    <3>2. more[Latest(q) + 1] = more[Latest(q)] + One(r[Latest(q)])
      BY <1>1, <1>4
    <3>3. \A i \in 1..Len(r) : i \in 1..Len(q) \/ i = Latest(q)
      BY <1>1
    <3>4. QED
      BY <3>1, <3>2, <3>3
  <2>2. ASSUME NEW i \in 1..Latest(r), NEW j \in 1..Latest(r), i <= j
        PROVE  more[i] <= more[j]
    <3>1. CASE i \in 1..Latest(q) /\ j \in 1..Latest(q)
      BY <1>4, <2>2, <3>1 DEF Numbered
    <3>2. CASE i \in 1..Latest(q) /\ j = Latest(r)
      BY <1>2, <1>4, <1>5, <3>2
    <3>3. CASE i = Latest(r) /\ j = Latest(r)
      BY <1>2, <1>4, <3>3
    <3>4. QED
      BY <1>1, <2>2, <3>1, <3>2, <3>3
  <2>3. more[1] >= h - FirstChunk
    BY <1>4 DEF Numbered
  <2>4. amount >= ChunkWords * (more[Latest(r)] + One(rest))
    BY <1>6 DEF Numbered
  <2>5. QED
    BY <2>1, <2>2, <2>3, <2>4 DEF Numbered
<1>8. Exact(number, q, pending, amount) => Exact(more, r, rest, amount)
  BY <1>6 DEF Exact
<1>9. ASSUME NEW store, NEW words, Chunked(number, h, store, words, q, pending)
      PROVE  Chunked(more, h, store, words, r, rest)
  <2>1. /\ more[1] = h - FirstChunk
        /\ \A pw \in DOMAIN store :
              Position(pw) < ChunkWords * more[1] => store[pw] = Word(words, pw[1], pw[2])
    BY <1>4, <1>9 DEF Chunked
  <2>2. ASSUME NEW i \in 1..Len(r), Good(r[i])
        PROVE  Chunk(store, more[i], r[i])
    <3>1. CASE i \in 1..Len(q)
      <4>1. i \in 1..Latest(q)
        BY <1>1, <3>1
      <4>2. QED
        BY <1>1, <1>4, <1>9, <2>2, <3>1, <4>1 DEF Chunked
    <3>2. CASE i = Latest(q)
      <4>1. r[i] = pending /\ Good(pending) /\ more[i] = number[Latest(q)]
        BY <1>1, <1>2, <1>4, <2>2, <3>2
      <4>2. QED
        BY <1>9, <4>1 DEF Chunked
    <3>3. QED
      BY <1>1, <3>1, <3>2
  <2>3. ASSUME Good(rest)
        PROVE  Chunk(store, more[Latest(r)], rest)
    <3>1. rest = pending /\ Good(pending) /\ more[Latest(r)] = number[Latest(q)]
      BY <1>2, <1>4, <2>3
    <3>2. QED
      BY <1>9, <3>1 DEF Chunked
  <2>4. QED
    BY <2>1, <2>2, <2>3 DEF Chunked
<1>10. QED
  BY <1>3, <1>7, <1>8, <1>9 DEF NumbersAfter

\* The first message to the host is handled or lost.
LEMMA NumbersDropped ==
    ASSUME NEW h \in Nat, NEW k \in Nat, NEW amount, NEW q \in Seq(Message), NEW r \in Seq(Message),
           NEW pending, Drop(q, r, 1), Len(q) >= 1, k <= h + One(q[1]), h <= k,
           NEW number \in [1..Latest(q) -> Nat], Numbered(number, h, q, pending, amount)
    PROVE  \E less \in [1..Latest(r) -> Nat] :
              NumbersWithout(less, number, h, k, q, r, pending, amount)
<1> DEFINE less == [i \in 1..Len(q) |-> number[i + 1]]
<1>1. /\ Len(q) \in Nat /\ Latest(q) = Len(q) + 1 /\ Len(r) = Len(q) - 1
      /\ Latest(r) = Len(q) /\ 1 \in 1..Len(q)
      /\ \A i \in 1..Len(r) : r[i] = q[i + 1] /\ i + 1 \in 1..Len(q)
  BY DEF Drop, Latest
<1>2. \A m : One(m) \in 0..1
  BY Numbers
<1>3. less \in [1..Latest(r) -> Nat]
  BY <1>1
<1>4. \A i \in 1..Latest(r) : less[i] = number[i + 1] /\ i + 1 \in 1..Latest(q)
  BY <1>1
<1> HIDE DEF less
<1>5. less[1] = number[1] + One(q[1]) /\ less[Latest(r)] = number[Latest(q)] /\ number[1] \in Nat
  BY <1>1, <1>4, Numbers DEF Numbered
<1>6. /\ \A i \in 1..Len(r) : less[i + 1] = less[i] + One(r[i])
      /\ \A i, j \in 1..Latest(r) : i <= j => less[i] <= less[j]
  <2>1. ASSUME NEW i \in 1..Len(r)
        PROVE  less[i + 1] = less[i] + One(r[i])
    <3>1. i \in 1..Latest(r) /\ i + 1 \in 1..Latest(r) /\ i + 1 \in 1..Len(q)
      BY <1>1
    <3>2. number[(i + 1) + 1] = number[i + 1] + One(q[i + 1])
      BY <3>1 DEF Numbered
    <3>3. QED
      BY <1>1, <1>4, <3>1, <3>2
  <2>2. ASSUME NEW i \in 1..Latest(r), NEW j \in 1..Latest(r), i <= j
        PROVE  less[i] <= less[j]
    <3>1. i + 1 <= j + 1
      BY <2>2
    <3>2. number[i + 1] <= number[j + 1]
      BY <1>4, <3>1 DEF Numbered
    <3>3. QED
      BY <1>4, <3>2
  <2>3. QED
    BY <2>1, <2>2
<1>7. amount >= ChunkWords * (less[Latest(r)] + One(pending))
  BY <1>5 DEF Numbered
<1>8. Numbered(less, h, r, pending, amount)
  <2>1. less[1] >= h - FirstChunk
    BY <1>2, <1>5 DEF Numbered, FirstChunk
  <2>2. QED
    BY <1>6, <1>7, <2>1 DEF Numbered
<1>9. ASSUME number[1] = h - FirstChunk
      PROVE  Numbered(less, k, r, pending, amount)
  <2>1. less[1] >= k - FirstChunk
    BY <1>2, <1>5, <1>9 DEF FirstChunk
  <2>2. QED
    BY <1>6, <1>7, <2>1 DEF Numbered
<1>10. Exact(number, q, pending, amount) => Exact(less, r, pending, amount)
  BY <1>5 DEF Exact
<1>11. \A i \in 1..Len(r) : less[i] = number[i + 1]
  <2>1. \A i \in 1..Len(r) : i \in 1..Latest(r)
    BY <1>1
  <2>2. QED
    BY <1>4, <2>1
<1>12. QED
  BY <1>1, <1>3, <1>5, <1>8, <1>9, <1>10, <1>11 DEF NumbersWithout

\* The step leaves the words received, and their amount, as they are.
SameStore ==
    /\ Store' = Store /\ Amount' = Amount /\ image' = image
    /\ off' < PageSize \/ base' < BootPage => off < PageSize \/ base < BootPage

\* Steps that change neither memory nor how much of it is filled.
LEMMA StoreKept ==
    ASSUME UNCHANGED <<flash, base, off, page, image>>
    PROVE  SameStore
<1>1. Store' = Store
  BY DEF Store
<1>2. QED
  BY <1>1 DEF SameStore, Amount

\* Received is said of the numbers of the answers on their way.
ReceivedAs(h, number, answers, pending, lost) ==
    /\ Numbered(number, h, answers, pending, Amount)
    /\ ~lost => /\ Chunked(number, h, Store, image, answers, pending)
                /\ off < PageSize \/ base < BootPage => Exact(number, answers, pending, Amount)

\* When the store stays, the numbers are what is left to show.
LEMMA ReceivedIs ==
    ASSUME NEW h, NEW k, Received(h), SameStore,
           \A number \in [1..Latest(toHost) -> Nat] :
              ReceivedAs(h, number, toHost, answer, answersLost) =>
                 \E more \in [1..Latest(toHost') -> Nat] :
                    ReceivedAs(k, more, toHost', answer', answersLost')
    PROVE  Received(k)'
<1>1. PICK number \in [1..Latest(toHost) -> Nat] :
         ReceivedAs(h, number, toHost, answer, answersLost)
  BY DEF Received, ReceivedAs
<1>2. PICK more \in [1..Latest(toHost') -> Nat] :
         ReceivedAs(k, more, toHost', answer', answersLost')
  BY <1>1
<1>3. \A pw \in DOMAIN Store' : Store'[pw] \in Range(image')
  BY DEF Received, SameStore
<1>4. /\ Numbered(more, k, toHost', answer', Amount')
      /\ ~answersLost' =>
            /\ Chunked(more, k, Store', image', toHost', answer')
            /\ off' < PageSize \/ base' < BootPage => Exact(more, toHost', answer', Amount')
  BY <1>2 DEF ReceivedAs, SameStore
<1>5. QED
  BY <1>3, <1>4 DEF Received

\* A step that leaves the store and the answers alone.
LEMMA ReceivedKept ==
    ASSUME NEW h, Received(h), SameStore, UNCHANGED <<toHost, answer, answersLost>>
    PROVE  Received(h)'
  BY ReceivedIs

\* A message goes on its way to the host.
LEMMA ReceivedAppended ==
    ASSUME Paths, Paths', NEW h \in Nat, Received(h), SameStore, answersLost' = answersLost,
           NEW m, Appended(toHost, toHost', m),
           (IsAlive(m) /\ answer' = answer) \/ (m = answer /\ answer' = NoMessage)
    PROVE  Received(h)'
<1>1. SUFFICES ASSUME NEW number \in [1..Latest(toHost) -> Nat],
                      ReceivedAs(h, number, toHost, answer, answersLost)
               PROVE  \E more \in [1..Latest(toHost') -> Nat] :
                         ReceivedAs(h, more, toHost', answer', answersLost')
  BY ReceivedIs
<1>2. \E more \in [1..Latest(toHost') -> Nat] :
         NumbersAfter(more, number, h, toHost, answer, toHost', answer', Amount)
  <2>1. /\ toHost \in Seq(Message) /\ toHost' \in Seq(Message)
        /\ Numbered(number, h, toHost, answer, Amount)
    BY <1>1 DEF Paths, ReceivedAs
  <2>2. QED
    BY <2>1, NumbersAppended, Zenon
<1>3. QED
  BY <1>1, <1>2 DEF ReceivedAs, NumbersAfter

\* An answer is lost, and with it what else there is to say than the amount.
LEMMA ReceivedLost ==
    ASSUME Paths, Paths', NEW h \in Nat, Received(h), SameStore, answersLost',
           Drop(toHost, toHost', 1), toHost # <<>>, answer' = answer
    PROVE  Received(h)'
<1>1. SUFFICES ASSUME NEW number \in [1..Latest(toHost) -> Nat],
                      ReceivedAs(h, number, toHost, answer, answersLost)
               PROVE  \E less \in [1..Latest(toHost') -> Nat] :
                         ReceivedAs(h, less, toHost', answer', answersLost')
  BY ReceivedIs
<1>2. Len(toHost) >= 1 /\ One(toHost[1]) \in 0..1
  BY PathSteps DEF Paths, One
<1>3. \E less \in [1..Latest(toHost') -> Nat] :
         NumbersWithout(less, number, h, h, toHost, toHost', answer, Amount)
  <2>1. h <= h + One(toHost[1]) /\ h <= h
    BY <1>2
  <2>2. /\ toHost \in Seq(Message) /\ toHost' \in Seq(Message)
        /\ Numbered(number, h, toHost, answer, Amount)
    BY <1>1 DEF Paths, ReceivedAs
  <2>3. QED
    BY <1>2, <2>1, <2>2, NumbersDropped, Zenon
<1>4. QED
  BY <1>3 DEF ReceivedAs, NumbersWithout

\* An answer to an alive request is handled.
LEMMA ReceivedPassed ==
    ASSUME Paths, Paths', NEW h \in Nat, Received(h), SameStore, answersLost' = answersLost,
           Drop(toHost, toHost', 1), toHost # <<>>, IsAlive(toHost[1]), answer' = answer
    PROVE  Received(h)'
<1>1. SUFFICES ASSUME NEW number \in [1..Latest(toHost) -> Nat],
                      ReceivedAs(h, number, toHost, answer, answersLost)
               PROVE  \E less \in [1..Latest(toHost') -> Nat] :
                         ReceivedAs(h, less, toHost', answer', answersLost')
  BY ReceivedIs
<1>2. Len(toHost) >= 1 /\ One(toHost[1]) = 0 /\ number[1] \in Nat
  BY PathSteps, Numbers DEF Paths, One
<1>3. PICK less \in [1..Latest(toHost') -> Nat] :
         NumbersWithout(less, number, h, h, toHost, toHost', answer, Amount)
  <2>1. h <= h + One(toHost[1]) /\ h <= h
    BY <1>2
  <2>2. /\ toHost \in Seq(Message) /\ toHost' \in Seq(Message)
        /\ Numbered(number, h, toHost, answer, Amount)
    BY <1>1 DEF Paths, ReceivedAs
  <2>3. QED
    BY <1>2, <2>1, <2>2, NumbersDropped, Zenon
<1>4. less[1] = number[1]
  BY <1>2, <1>3 DEF NumbersWithout
<1>5. ASSUME Chunked(number, h, Store, image, toHost, answer)
      PROVE  Chunked(less, h, Store, image, toHost', answer)
  <2>1. less[1] = h - FirstChunk
    BY <1>4, <1>5 DEF Chunked
  <2>2. \A pw \in DOMAIN Store :
            Position(pw) < ChunkWords * less[1] => Store[pw] = Word(image, pw[1], pw[2])
    BY <1>4, <1>5 DEF Chunked
  <2>3. \A i \in 1..Len(toHost') : Good(toHost'[i]) => Chunk(Store, less[i], toHost'[i])
    BY <1>3, <1>5 DEF Chunked, NumbersWithout
  <2>4. Good(answer) => Chunk(Store, less[Latest(toHost')], answer)
    BY <1>3, <1>5 DEF Chunked, NumbersWithout
  <2>5. QED
    BY <2>1, <2>2, <2>3, <2>4 DEF Chunked
<1>6. QED
  BY <1>1, <1>3, <1>5 DEF ReceivedAs, NumbersWithout

\* The plugin accepts the acknowledgement of a chunk, which then is the next
\* one of the image that the module has for certain.
LEMMA ReceivedAccepted ==
    ASSUME image \in Images, Paths, Paths', NEW h \in 3..Ending-1, Received(h), SameStore,
           answersLost' = answersLost, Drop(toHost, toHost', 1), toHost # <<>>,
           toHost[1] = Script[h], answer' = answer,
           \A pw \in DOMAIN Store : pw \in Nat \X Nat
    PROVE  Received(h + 1)'
<1>1. SUFFICES ASSUME NEW number \in [1..Latest(toHost) -> Nat],
                      ReceivedAs(h, number, toHost, answer, answersLost)
               PROVE  \E less \in [1..Latest(toHost') -> Nat] :
                         ReceivedAs(h + 1, less, toHost', answer', answersLost')
  BY ReceivedIs
<1>2. h \in 1..Final /\ h \in Nat /\ h > 2 /\ h < Ending
  BY Positions
<1>3. Good(Script[h])
  <2>1. Script[h].cmd = CommandAt(h) /\ Script[h].nack = FALSE
    BY <1>2, ScriptMessages
  <2>2. CommandAt(h) = "WRITE_INC"
    BY <1>2 DEF CommandAt
  <2>3. QED
    BY <2>1, <2>2 DEF Good
<1>4. Len(toHost) >= 1 /\ 1 \in 1..Len(toHost) /\ One(toHost[1]) = 1 /\ number[1] \in Nat
  BY <1>3, PathSteps, Numbers DEF Paths, One
<1>5. PICK less \in [1..Latest(toHost') -> Nat] :
         NumbersWithout(less, number, h, h + 1, toHost, toHost', answer, Amount)
  <2>1. h <= h + 1 /\ h + 1 <= h + One(toHost[1]) /\ h + 1 \in Nat
    BY <1>2, <1>4
  <2>2. /\ toHost \in Seq(Message) /\ toHost' \in Seq(Message)
        /\ Numbered(number, h, toHost, answer, Amount)
    BY <1>1 DEF Paths, ReceivedAs
  <2>3. QED
    BY <1>2, <1>4, <2>1, <2>2, NumbersDropped, Zenon
<1>6. Numbered(less, h + 1, toHost', answer, Amount)
  <2>1. less[1] >= (h + 1) - FirstChunk
    BY <1>1, <1>2, <1>4, <1>5 DEF ReceivedAs, Numbered, NumbersWithout, FirstChunk
  <2>2. QED
    BY <1>5, <2>1 DEF Numbered, NumbersWithout
<1>7. ASSUME Chunked(number, h, Store, image, toHost, answer)
      PROVE  Chunked(less, h + 1, Store, image, toHost', answer)
  <2>1. number[1] = h - 3 /\ less[1] = number[1] + 1 /\ less[1] = (h + 1) - FirstChunk
    BY <1>2, <1>4, <1>5, <1>7 DEF Chunked, NumbersWithout, FirstChunk
  <2>2. ASSUME NEW pw \in DOMAIN Store, Position(pw) < ChunkWords * less[1]
        PROVE  Store[pw] = Word(image, pw[1], pw[2])
    <3>1. CASE Position(pw) < ChunkWords * number[1]
      BY <1>7, <3>1 DEF Chunked
    <3>2. CASE ~(Position(pw) < ChunkWords * number[1])
      <4>1. PageSize \in Nat /\ ChunkWords \in Nat
        BY HostAssumption, DeviceAssumption
      <4>2. Position(pw) \in Nat
        BY <4>1 DEF Position
      <4>3. ChunkWords * less[1] = ChunkWords * number[1] + ChunkWords /\ ChunkWords * number[1] \in Nat
        BY <1>4, <2>1, <4>1
      <4>4. PICK d \in 0..ChunkWords-1 : Position(pw) = ChunkWords * number[1] + d
        <5>1. Position(pw) - ChunkWords * number[1] \in 0..ChunkWords-1
          BY <2>2, <3>2, <4>1, <4>2, <4>3
        <5>2. Position(pw) = ChunkWords * number[1] + (Position(pw) - ChunkWords * number[1])
          BY <4>2, <4>3
        <5>3. QED
          BY <5>1, <5>2
      <4>5. Store[pw] = Script[h].data[d + 1]
        BY <1>3, <1>4, <1>7, <4>4 DEF Chunked, Chunk
      <4>6. Script[h].data[d + 1] = image[ChunkWords * (h - 3) + d + 1]
        BY ChunkData
      <4>7. ChunkWords * (h - 3) + d + 1 = pw[1] * PageSize + pw[2] + 1
        BY <2>1, <4>4 DEF Position
      <4>8. QED
        BY <4>5, <4>6, <4>7 DEF Word
    <3>3. QED
      BY <3>1, <3>2
  <2>3. \A i \in 1..Len(toHost') : Good(toHost'[i]) => Chunk(Store, less[i], toHost'[i])
    BY <1>5, <1>7 DEF Chunked, NumbersWithout
  <2>4. Good(answer) => Chunk(Store, less[Latest(toHost')], answer)
    BY <1>5, <1>7 DEF Chunked, NumbersWithout
  <2>5. QED
    BY <2>1, <2>2, <2>3, <2>4 DEF Chunked
<1>8. QED
  BY <1>1, <1>5, <1>6, <1>7 DEF ReceivedAs, NumbersWithout

\* Sizes in pages.
LEMMA Paging ==
    ASSUME NEW size \in Nat \ {0}, NEW a \in Nat, NEW b \in Nat,
           NEW v \in 0..size-1, NEW w \in 0..size-1
    PROVE  /\ a * size <= b * size + v => a <= b
           /\ a * size + v = b * size + w => a = b /\ v = w
           /\ a <= b => a * size <= b * size /\ size * a <= size * b
<1>1. a <= b => a * size <= b * size /\ size * a <= size * b
  OBVIOUS
<1>2. ASSUME NEW x \in Nat, NEW y \in Nat, NEW u \in 0..size-1, x * size <= y * size + u
      PROVE  x <= y
  <2>1. SUFFICES ASSUME y + 1 <= x
                 PROVE  FALSE
    OBVIOUS
  <2>2. (y + 1) * size <= x * size /\ (y + 1) * size = y * size + size
    BY <2>1
  <2>3. x * size \in Nat /\ y * size \in Nat
    OBVIOUS
  <2>4. QED
    BY <1>2, <2>2, <2>3
<1>3. ASSUME a * size + v = b * size + w
      PROVE  a = b /\ v = w
  <2>1. a * size \in Nat /\ b * size \in Nat
    OBVIOUS
  <2>2. a * size <= b * size + w /\ b * size <= a * size + v
    BY <1>3, <2>1
  <2>3. a = b
    BY <1>2, <2>2
  <2>4. QED
    BY <1>3, <2>1, <2>3
<1>4. QED
  BY <1>1, <1>2, <1>3

\* Where the words received are.
LEMMA StoreWords ==
    ASSUME DevTypeOK
    PROVE  /\ \A pw \in DOMAIN Store : /\ pw[1] \in 0..base /\ pw[2] \in 0..PageSize-1
                                       /\ pw \in Nat \X Nat /\ pw = <<pw[1], pw[2]>>
           /\ \A p \in 0..base, w \in 0..PageSize-1 :
                 <<p, w>> \in DOMAIN Store <=> p < base \/ w < off
           /\ \A pw \in DOMAIN Store :
                 Store[pw] = IF pw[1] < base THEN flash[pw[1]][pw[2]] ELSE page[pw[2]]
           /\ base \in Nat /\ off \in 0..PageSize /\ PageSize \in Nat \ {0} /\ ChunkWords \in Nat \ {0}
           /\ Amount \in Nat /\ base * PageSize \in Nat
<1>1. PageSize \in Nat \ {0} /\ base \in Nat /\ off \in 0..PageSize /\ ChunkWords \in Nat \ {0}
  BY DeviceAssumption, HostAssumption DEF DevTypeOK
<1>2. QED
  BY <1>1 DEF Store, Amount

\* The same after a step.
LEMMA StoreWordsAfter ==
    ASSUME DevTypeOK'
    PROVE  /\ \A pw \in DOMAIN Store' : /\ pw[1] \in 0..base' /\ pw[2] \in 0..PageSize-1
                                        /\ pw \in Nat \X Nat /\ pw = <<pw[1], pw[2]>>
           /\ \A p \in 0..base', w \in 0..PageSize-1 :
                 <<p, w>> \in DOMAIN Store' <=> p < base' \/ w < off'
           /\ \A pw \in DOMAIN Store' :
                 Store'[pw] = IF pw[1] < base' THEN flash'[pw[1]][pw[2]] ELSE page'[pw[2]]
           /\ base' \in Nat /\ off' \in 0..PageSize /\ PageSize \in Nat \ {0} /\ ChunkWords \in Nat \ {0}
           /\ Amount' \in Nat /\ base' * PageSize \in Nat
<1>1. PageSize \in Nat \ {0} /\ base' \in Nat /\ off' \in 0..PageSize /\ ChunkWords \in Nat \ {0}
  BY DeviceAssumption, HostAssumption DEF DevTypeOK
<1>2. /\ DOMAIN Store' = {pw \in (0..base') \X (0..PageSize-1) : pw[1] < base' \/ pw[2] < off'}
      /\ \A pw \in DOMAIN Store' :
            Store'[pw] = IF pw[1] < base' THEN flash'[pw[1]][pw[2]] ELSE page'[pw[2]]
  BY DEF Store
<1>3. \A pw \in DOMAIN Store' : /\ pw[1] \in 0..base' /\ pw[2] \in 0..PageSize-1
                                 /\ pw \in Nat \X Nat /\ pw = <<pw[1], pw[2]>>
  BY <1>1, <1>2
<1>4. \A p \in 0..base', w \in 0..PageSize-1 :
          <<p, w>> \in DOMAIN Store' <=> p < base' \/ w < off'
  BY <1>1, <1>2
<1>5. Amount' \in Nat /\ base' * PageSize \in Nat
  <2>1. \A x, y, z \in Nat : x * y \in Nat /\ x * y + z \in Nat
    OBVIOUS
  <2>2. base' \in Nat /\ off' \in Nat /\ PageSize \in Nat
    BY <1>1
  <2>3. QED
    BY <2>1, <2>2 DEF Amount
<1>6. QED
  BY <1>1, <1>2, <1>3, <1>4, <1>5

\* From the beginning of a row its page is programmed.
LEMMA PageProgrammed ==
    ASSUME ProgramPage, skew = 0
    PROVE  flash' = [flash EXCEPT ![base] = page]
<1>1. PICK place \in {skew, skew - (skew % 2)} : ProgramFrom(place)
  BY DEF ProgramPage
<1>2. 0 - (0 % 2) = 0
  OBVIOUS
<1>3. place = 0
  BY <1>1, <1>2
<1>4. QED
  BY <1>1, <1>3 DEF ProgramFrom

\* The page at base is written: erased, then programmed with the full buffer.
LEMMA PageWritten ==
    ASSUME DevTypeOK, DevTypeOK', image' = image, skew = 0
    PROVE  /\ ErasePage => SameStore
           /\ ProgramPage /\ off = PageSize /\ base < BootPage => SameStore
<1>1. flash \in [0..FlashPages-1 -> Page] /\ base \in Nat /\ off \in 0..PageSize
      /\ PageSize \in Nat \ {0} /\ BootPage < FlashPages /\ BootPage \in Nat /\ FlashPages \in Nat
  BY DeviceAssumption DEF DevTypeOK
<1>2. ASSUME ErasePage
      PROVE  SameStore
  <2>1. \A p \in Nat : p < base => flash'[p] = flash[p]
    BY <1>1, <1>2 DEF ErasePage
  <2>2. Store' = Store
    BY <1>1, <1>2, <2>1 DEF ErasePage, Store
  <2>3. QED
    BY <1>2, <2>2 DEF ErasePage, SameStore, Amount
<1>3. ASSUME ProgramPage, off = PageSize, base < BootPage
      PROVE  SameStore
  <2>1. flash'[base] = page /\ \A p \in Nat : p < base => flash'[p] = flash[p]
    BY <1>1, <1>3, PageProgrammed
  <2>2. base' = base + 1 /\ off' = 0
    BY <1>3 DEF ProgramPage
  <2>3. Amount' = Amount
    BY <1>1, <1>3, <2>2 DEF Amount
  <2> DEFINE D  == {pw \in (0..base) \X (0..PageSize-1) : pw[1] < base \/ pw[2] < off}
             Da == {pw \in (0..base') \X (0..PageSize-1) : pw[1] < base' \/ pw[2] < off'}
  <2>4. Da = D
    BY <1>1, <1>3, <2>2
  <2>5. \A pw \in D : (IF pw[1] < base' THEN flash'[pw[1]][pw[2]] ELSE page'[pw[2]])
                    = (IF pw[1] < base THEN flash[pw[1]][pw[2]] ELSE page[pw[2]])
    BY <1>1, <1>3, <2>1, <2>2
  <2>6. Store' = Store
    BY <2>4, <2>5 DEF Store
  <2>7. QED
    BY <1>3, <2>3, <2>6 DEF SameStore
<1>4. QED
  BY <1>2, <1>3

\* Nothing received since the base address.
LEMMA ReceivedNothing ==
    ASSUME Paths', base' = 0, off' = 0, ~Good(answer'),
           \A i \in 1..Len(toHost') : ~Good(toHost'[i])
    PROVE  Received(FirstChunk)'
<1> DEFINE number == [i \in 1..Len(toHost') + 1 |-> 0]
<1>1. number \in [1..Latest(toHost') -> Nat] /\ Len(toHost') \in Nat
  BY DEF Latest, Paths
<1>2. PageSize \in Nat \ {0} /\ ChunkWords \in Nat
  BY DeviceAssumption, HostAssumption
<1>3. DOMAIN Store' = {} /\ Amount' = 0
  BY <1>2 DEF Store, Amount
<1>4. \A i \in 1..Len(toHost') + 1 : number[i] = 0
  OBVIOUS
<1> HIDE DEF number
<1>5. One(answer') = 0 /\ \A i \in 1..Len(toHost') : One(toHost'[i]) = 0
  BY DEF One
<1>6. Latest(toHost') \in 1..Len(toHost') + 1 /\ 1 \in 1..Len(toHost') + 1
      /\ \A i \in 1..Len(toHost') : i \in 1..Len(toHost') + 1 /\ i + 1 \in 1..Len(toHost') + 1
  BY <1>1 DEF Latest
<1>7. number[1] = 0 /\ number[Latest(toHost')] = 0 /\ FirstChunk - FirstChunk = 0
  BY <1>4, <1>6 DEF FirstChunk
<1>8. Exact(number, toHost', answer', Amount')
  BY <1>2, <1>3, <1>5, <1>7 DEF Exact
<1>9. Numbered(number, FirstChunk, toHost', answer', Amount')
  <2>1. Amount' >= ChunkWords * (number[Latest(toHost')] + One(answer'))
    BY <1>2, <1>3, <1>5, <1>7
  <2>2. number[1] >= FirstChunk - FirstChunk
    BY <1>7
  <2>3. \A i \in 1..Len(toHost') : number[i + 1] = number[i] + One(toHost'[i])
    BY <1>4, <1>5, <1>6
  <2>4. \A i, j \in 1..Latest(toHost') : i <= j => number[i] <= number[j]
    BY <1>4 DEF Latest
  <2>5. QED
    BY <2>1, <2>2, <2>3, <2>4 DEF Numbered
<1>10. Chunked(number, FirstChunk, Store', image', toHost', answer')
  BY <1>3, <1>7 DEF Chunked
<1>11. QED
  BY <1>1, <1>3, <1>8, <1>9, <1>10 DEF Received

\* The first word of the first chunk is the one a module would start at.
LEMMA FirstWord ==
    ASSUME image \in Images, NEW m, Echo(m, FirstChunk), Good(m)
    PROVE  m.data[1] = ResetVector
<1>1. PICK i \in 1..FirstChunk : m = Script[i] \/ m = Nack(Script[i])
  BY DEF Echo
<1>2. i \in 1..Final /\ i \in 1..3 /\ FirstChunk = 3
  BY Positions
<1>3. Script[i].cmd = CommandAt(i) /\ Script[i] \in Message
  BY <1>2, ScriptMessages
<1>4. m = Script[i] /\ CommandAt(i) = "WRITE_INC"
  BY <1>1, <1>3, Stages DEF Good
<1>5. i = 3 /\ 3 \in 3..Ending-1
  BY <1>2, <1>4, Positions DEF CommandAt
<1>6. 0 \in 0..ChunkWords-1
  BY ImageShape
<1>7. Script[3].data[0 + 1] = image[ChunkWords * (3 - 3) + 0 + 1]
  BY <1>5, <1>6, ChunkData
<1>8. ChunkWords * (3 - 3) + 0 + 1 = 1 /\ 0 + 1 = 1
  BY ImageShape
<1>9. QED
  BY <1>4, <1>5, <1>7, <1>8, ImageShape

\* What WRITE_INC does to the store when its words fit.
LEMMA ChunkStored ==
    ASSUME Paths, DevTypeOK, DevTypeOK', image' = image, WriteInc, Fits, Len(In.data) = ChunkWords,
           In.half = <<>>, skew = 0
    PROVE  /\ Amount' = Amount + ChunkWords /\ off' = off + ChunkWords /\ off' <= PageSize
           /\ off < PageSize
           /\ \A pw \in DOMAIN Store' :
                 \/ pw \in DOMAIN Store /\ Store'[pw] = Store[pw]
                 \/ pw \in DOMAIN Store /\ pw = <<0, 0>> /\ Store'[pw] = ResetVector
                 \/ \E d \in 0..ChunkWords-1 :
                       /\ pw = <<base, off + d>> /\ off + d < PageSize
                       /\ Store'[pw] = In.data[d + 1] \/ (pw = <<0, 0>> /\ Store'[pw] = ResetVector)
<1>1. /\ base \in Nat /\ off \in 0..PageSize /\ PageSize \in Nat \ {0} /\ ChunkWords \in Nat \ {0}
      /\ page \in [0..PageSize-1 -> Nat]
  BY DeviceAssumption, HostAssumption DEF DevTypeOK, Page
<1>2. off' = off + ChunkWords /\ off' <= PageSize /\ off < PageSize /\ base' = base
  BY <1>1 DEF WriteInc, Fits
<1>3. Amount' = Amount + ChunkWords
  <2>1. \A x \in Nat, y \in Nat : x + (off + ChunkWords) = x + off + ChunkWords
    BY <1>1
  <2>2. base * PageSize \in Nat
    BY StoreWords
  <2>3. QED
    BY <1>2, <2>1, <2>2 DEF Amount
<1>4. \A w \in 0..PageSize-1 :
         \/ page'[w] = (IF w \in off..(off + ChunkWords - 1) THEN In.data[w - off + 1] ELSE page[w])
         \/ w = 0 /\ base = 0 /\ page'[w] = ResetVector
  BY <1>1, ResetVectorType DEF WriteInc, Filled, WithResetVector
<1>5. UNCHANGED flash
  BY DEF WriteInc
<1>6. ASSUME NEW pw \in DOMAIN Store'
      PROVE  \/ pw \in DOMAIN Store /\ Store'[pw] = Store[pw]
             \/ pw \in DOMAIN Store /\ pw = <<0, 0>> /\ Store'[pw] = ResetVector
             \/ \E d \in 0..ChunkWords-1 :
                   /\ pw = <<base, off + d>> /\ off + d < PageSize
                   /\ Store'[pw] = In.data[d + 1] \/ (pw = <<0, 0>> /\ Store'[pw] = ResetVector)
  <2> DEFINE p == pw[1]
             w == pw[2]
  <2>1. /\ p \in 0..base /\ w \in 0..PageSize-1 /\ pw = <<p, w>>
        /\ p < base \/ w < off + ChunkWords
        /\ Store'[pw] = IF p < base THEN flash[p][w] ELSE page'[w]
    <3>1. pw[1] \in 0..base' /\ pw[2] \in 0..PageSize-1 /\ pw = <<pw[1], pw[2]>>
      BY StoreWordsAfter
    <3>2. pw[1] < base' \/ pw[2] < off'
      BY <3>1, StoreWordsAfter
    <3>3. Store'[pw] = IF pw[1] < base' THEN flash'[pw[1]][pw[2]] ELSE page'[pw[2]]
      BY StoreWordsAfter
    <3>4. QED
      BY <1>2, <1>5, <3>1, <3>2, <3>3
  <2> HIDE DEF p, w
  <2>2. p < base \/ w < off => pw \in DOMAIN Store
    BY <2>1, StoreWords
  <2>3. pw \in DOMAIN Store => Store[pw] = IF p < base THEN flash[p][w] ELSE page[w]
    BY StoreWords DEF p, w
  <2>4. CASE p < base
    BY <2>1, <2>2, <2>3, <2>4
  <2>5. CASE p = base /\ w < off
    <3>1. w \notin off..(off + ChunkWords - 1)
      BY <1>1, <2>1, <2>5
    <3>2. page'[w] = page[w] \/ (w = 0 /\ base = 0 /\ page'[w] = ResetVector)
      BY <1>4, <2>1, <3>1
    <3>3. Store'[pw] = page'[w] /\ Store[pw] = page[w] /\ pw \in DOMAIN Store
      BY <1>1, <2>1, <2>2, <2>3, <2>5
    <3>4. QED
      BY <2>1, <2>5, <3>2, <3>3
  <2>6. CASE p = base /\ w >= off
    <3>1. PICK d \in 0..ChunkWords-1 : w = off + d /\ w - off + 1 = d + 1 /\ off + d < PageSize
      <4>1. w - off \in 0..ChunkWords-1 /\ w = off + (w - off)
        BY <1>1, <2>1, <2>6
      <4>2. QED
        BY <1>1, <2>1, <4>1, SMTT(20)
    <3>2. w \in off..(off + ChunkWords - 1)
      BY <1>1, <2>1, <2>6
    <3>3. page'[w] = In.data[d + 1] \/ (w = 0 /\ base = 0 /\ page'[w] = ResetVector)
      BY <1>4, <2>1, <3>1, <3>2
    <3>4. Store'[pw] = page'[w] /\ pw = <<base, off + d>>
      BY <1>1, <2>1, <2>6, <3>1
    <3>5. QED
      BY <2>1, <2>6, <3>1, <3>3, <3>4
  <2>7. QED
    BY <1>1, <2>1, <2>4, <2>5, <2>6
<1>7. QED
  BY <1>2, <1>3, <1>6

\* A chunk taken while chunks are expected.
LEMMA ChunkReceived ==
    ASSUME image \in Images, image' = image, Paths, Paths', DevTypeOK, DevTypeOK',
           NEW h \in 3..Ending-1, Received(h), Answers(h), Sent(In, h), WriteInc, ready,
           answer = NoMessage, skew = 0, off = PageSize => base >= BootPage,
           toHost' = toHost, answersLost' = answersLost
    PROVE  Received(h)'
<1>1. /\ base \in Nat /\ off \in 0..PageSize /\ PageSize \in Nat \ {0} /\ ChunkWords \in Nat \ {0}
      /\ BootPage \in Nat \ {0} /\ ChunkWords <= PageSize
  <2>1. PageSize \in Nat \ {0} /\ ChunkWords \in Nat \ {0} /\ PageSize % ChunkWords = 0
    BY DeviceAssumption, HostAssumption, UploadAssumption
  <2>2. ChunkWords <= PageSize
    BY <2>1
  <2>3. QED
    BY <2>1, <2>2, DeviceAssumption DEF DevTypeOK
<1>2. h \in 1..Final /\ h \in Nat /\ FirstChunk = 3
  BY Positions
<1>3. PICK i \in 3..Ending-1 : In = Script[i] /\ i <= h
  <2>1. PICK i \in 1..h : In = Script[i]
    BY DEF Sent
  <2>2. i \in 1..Final /\ i <= h
    BY <1>2, <2>1, Positions
  <2>3. In.cmd = "WRITE_INC"
    BY DEF WriteInc, Command
  <2>4. CommandAt(i) = "WRITE_INC"
    BY <2>1, <2>2, <2>3, ScriptMessages
  <2>5. i \in 3..Ending-1
    BY <2>2, <2>4, Positions DEF CommandAt
  <2>6. QED
    BY <2>1, <2>2, <2>5
<1>4. /\ Len(In.data) = ChunkWords /\ Good(In) /\ In \in Message /\ In.half = <<>>
      /\ \A d \in 0..ChunkWords-1 : In.data[d + 1] \in Range(image)
  <2>1. /\ Script[i].cmd = CommandAt(i) /\ Script[i].nack = FALSE /\ Script[i] \in Message
        /\ Script[i].half = <<>>
    <3>1. i \in 1..Final
      BY Positions
    <3>2. QED
      BY <3>1, ScriptMessages
  <2>2. CommandAt(i) = "WRITE_INC"
    BY <1>3, Positions DEF CommandAt
  <2>3. image \in Seq(Nat)
    BY ImageShape
  <2>4. \A k \in 1..Len(image) : image[k] \in Range(image)
    BY <2>3 DEF Range
  <2>5. ASSUME NEW d \in 0..ChunkWords-1
        PROVE  In.data[d + 1] \in Range(image)
    BY <1>3, <2>4, ChunkData
  <2>6. QED
    BY <1>3, <2>1, <2>2, <2>5, ChunkData DEF Good
<1>5. /\ answer' = IF Fits /\ (AtBoundary(off') => AtBoundary(off') /\ BelowBootloader /\ ready)
                      THEN In ELSE Nack(In)
      /\ off' = (IF Fits THEN off + Len(In.data) ELSE off) /\ base' = base /\ flash' = flash
  BY DEF WriteInc, Answer
<1>6. ~Good(Nack(In)) /\ (Good(answer') => answer' = In /\ Fits)
  BY <1>4, <1>5, Stages DEF Good
<1>7. CASE ~Fits
  <2>1. ~AtBoundary(off) \/ base # 0
    <3>1. off # 0
      BY <1>1, <1>4, <1>7 DEF Fits
    <3>2. QED
      BY <1>1, <3>1 DEF AtBoundary
  <2>2. page' = page /\ off' = off
    BY <1>5, <1>7, <2>1 DEF WriteInc
  <2>3. SameStore
    BY <1>5, <2>2, StoreKept
  <2>4. ~Good(answer') /\ ~Good(answer)
    <3>1. ~Good(NoMessage)
      BY MessageTypes DEF Good
    <3>2. QED
      BY <1>6, <1>7, <3>1
  <2>5. SUFFICES ASSUME NEW number \in [1..Latest(toHost) -> Nat],
                        ReceivedAs(h, number, toHost, answer, answersLost)
                 PROVE  ReceivedAs(h, number, toHost, answer', answersLost)
    BY <2>3, ReceivedIs
  <2>6. One(answer') = One(answer)
    BY <2>4 DEF One
  <2>7. QED
    BY <2>4, <2>5, <2>6 DEF ReceivedAs, Numbered, Exact, Chunked
<1>8. CASE Fits
  <2>1. /\ Amount' = Amount + ChunkWords /\ off' = off + ChunkWords /\ off' <= PageSize
        /\ off < PageSize /\ Amount \in Nat
    BY <1>4, <1>8, ChunkStored, StoreWords
  <2>2. \A pw \in DOMAIN Store' :
           \/ pw \in DOMAIN Store /\ Store'[pw] = Store[pw]
           \/ pw \in DOMAIN Store /\ pw = <<0, 0>> /\ Store'[pw] = ResetVector
           \/ \E d \in 0..ChunkWords-1 :
                 /\ pw = <<base, off + d>> /\ off + d < PageSize
                 /\ Store'[pw] = In.data[d + 1] \/ (pw = <<0, 0>> /\ Store'[pw] = ResetVector)
    BY <1>4, <1>8, ChunkStored
  <2>3. PICK number \in [1..Latest(toHost) -> Nat] :
           /\ Numbered(number, h, toHost, answer, Amount)
           /\ ~answersLost =>
                 /\ Chunked(number, h, Store, image, toHost, answer)
                 /\ off < PageSize \/ base < BootPage => Exact(number, toHost, answer, Amount)
    BY DEF Received
  <2>4. /\ One(answer) = 0 /\ One(answer') \in 0..1
        /\ number[1] \in Nat /\ number[Latest(toHost)] \in Nat /\ number[1] <= number[Latest(toHost)]
        /\ \A k \in 1..Len(toHost) : k \in 1..Latest(toHost) /\ k + 1 \in 1..Latest(toHost)
        /\ 1 \in 1..Latest(toHost) /\ Latest(toHost) \in 1..Latest(toHost)
    <3>1. 1 <= Latest(toHost)
      BY Numbers DEF Paths
    <3>2. QED
      BY <2>3, <3>1, Numbers DEF Paths, One, Numbered
  <2> DEFINE last == number[Latest(toHost)]
  <2>5. Amount >= ChunkWords * last /\ ChunkWords * last \in Nat
    BY <1>1, <2>3, <2>4 DEF Numbered
  <2>6. ChunkWords * (last + 1) = ChunkWords * last + ChunkWords
    BY <1>1, <2>4
  <2>7. Numbered(number, h, toHost, answer', Amount')
    <3>1. Amount' >= ChunkWords * (last + One(answer'))
      BY <1>1, <2>1, <2>4, <2>5, <2>6
    <3>2. QED
      BY <2>3, <3>1 DEF Numbered
  <2>8. image[1] = ResetVector /\ ResetVector \in Range(image) /\ Word(image, 0, 0) = ResetVector
    <3>1. image \in Seq(Nat) /\ image[1] = ResetVector /\ Len(image) \in Nat \ {0}
      BY ImageShape
    <3>2. 1 \in DOMAIN image /\ 0 * PageSize + 0 + 1 = 1
      BY <1>1, <3>1
    <3>3. QED
      BY <3>1, <3>2 DEF Range, Word
  <2>9. \A pw \in DOMAIN Store' : Store'[pw] \in Range(image')
    BY <1>4, <2>2, <2>8 DEF Received
  <2>10. \A d \in 0..ChunkWords-1 : Position(<<base, off + d>>) = Amount + d
    <3>1. base * PageSize \in Nat
      BY StoreWords
    <3>2. QED
      BY <1>1, <3>1 DEF Position, Amount
  <2>11. Position(<<0, 0>>) = 0
    BY <1>1 DEF Position
  <2>12. ASSUME ~answersLost
         PROVE  /\ Chunked(number, h, Store', image', toHost, answer')
                /\ off' < PageSize \/ base' < BootPage => Exact(number, toHost, answer', Amount')
    <3>1. /\ Chunked(number, h, Store, image, toHost, answer)
          /\ Amount = ChunkWords * last /\ number[1] = h - 3
      BY <1>2, <2>1, <2>3, <2>4, <2>12 DEF Exact, Chunked
    <3>2. ASSUME off' < PageSize \/ base' < BootPage
          PROVE  Exact(number, toHost, answer', Amount')
      <4>1. AtBoundary(off') => BelowBootloader
        BY <1>1, <1>5, <2>1, <3>2 DEF AtBoundary, BelowBootloader
      <4>2. Good(answer')
        BY <1>4, <1>5, <1>8, <4>1
      <4>3. QED
        BY <2>1, <2>6, <3>1, <4>2 DEF Exact, One
    <3>3. ASSUME NEW n \in Nat, NEW pw \in DOMAIN Store', Position(pw) < ChunkWords * n, n <= last
          PROVE  /\ pw \in DOMAIN Store
                 /\ Store'[pw] = Store[pw] \/ (pw = <<0, 0>> /\ Store'[pw] = ResetVector)
      <4>1. ChunkWords * n <= ChunkWords * last /\ ChunkWords * n \in Nat
        <5>1. \A x, y, z \in Nat : x <= y => z * x <= z * y /\ z * x \in Nat
          OBVIOUS
        <5>2. n \in Nat /\ last \in Nat /\ ChunkWords \in Nat
          BY <1>1, <2>4
        <5>3. QED
          BY <3>3, <5>1, <5>2
      <4>2. Position(pw) < Amount
        <5>1. Position(pw) \in Nat
          <6>1. \A x, y, z \in Nat : x * y + z \in Nat
            OBVIOUS
          <6>2. pw[1] \in Nat /\ pw[2] \in Nat /\ PageSize \in Nat
            BY <1>1, StoreWordsAfter
          <6>3. QED
            BY <6>1, <6>2 DEF Position
        <5>2. Amount = ChunkWords * last /\ ChunkWords * last \in Nat
          BY <2>5, <3>1
        <5> HIDE DEF last
        <5>3. QED
          BY <3>3, <4>1, <5>1, <5>2
      <4>3. ASSUME NEW d \in 0..ChunkWords-1, pw = <<base, off + d>>
            PROVE  FALSE
        BY <2>1, <2>10, <4>2, <4>3
      <4>4. QED
        BY <2>2, <4>3
    <3>4. ASSUME NEW pw \in DOMAIN Store', Position(pw) < ChunkWords * number[1]
          PROVE  Store'[pw] = Word(image', pw[1], pw[2])
      <4>1. /\ pw \in DOMAIN Store
            /\ Store'[pw] = Store[pw] \/ (pw = <<0, 0>> /\ Store'[pw] = ResetVector)
        BY <2>4, <3>3, <3>4
      <4>2. Store[pw] = Word(image, pw[1], pw[2])
        BY <3>1, <3>4, <4>1 DEF Chunked
      <4>3. Word(image', pw[1], pw[2]) = Word(image, pw[1], pw[2])
        OBVIOUS
      <4>4. QED
        BY <2>8, <4>1, <4>2, <4>3
    <3>5. ASSUME NEW n \in Nat, n >= number[1], NEW d \in 0..ChunkWords-1, 0 = ChunkWords * n + d
          PROVE  h = FirstChunk /\ d = 0
      <4>1. n = 0 /\ d = 0
        BY <1>1, <3>5
      <4>2. QED
        BY <1>2, <2>4, <3>1, <3>5, <4>1
    <3>6. ASSUME NEW k \in 1..Len(toHost), Good(toHost[k])
          PROVE  Chunk(Store', number[k], toHost[k])
      <4>1. SUFFICES ASSUME NEW pw \in DOMAIN Store', NEW d \in 0..ChunkWords-1,
                            Position(pw) = ChunkWords * number[k] + d
                     PROVE  Store'[pw] = toHost[k].data[d + 1]
        BY DEF Chunk
      <4>2. number[k] \in Nat /\ number[k] + 1 <= last /\ number[k] >= number[1]
        <5>1. number[k + 1] = number[k] + 1
          BY <2>3, <3>6 DEF Numbered, One
        <5>2. /\ k \in 1..Latest(toHost) /\ k + 1 \in 1..Latest(toHost) /\ k + 1 <= Latest(toHost)
              /\ 1 <= k /\ 1 \in 1..Latest(toHost) /\ Latest(toHost) \in 1..Latest(toHost)
          BY <2>4, Numbers DEF Paths
        <5>3. number[k + 1] <= last /\ number[1] <= number[k] /\ number[k] \in Nat
          BY <2>3, <5>2 DEF Numbered
        <5>4. QED
          BY <5>1, <5>3
      <4>3. Position(pw) < ChunkWords * (number[k] + 1)
        BY <1>1, <4>1, <4>2
      <4>4. /\ pw \in DOMAIN Store
            /\ Store'[pw] = Store[pw] \/ (pw = <<0, 0>> /\ Store'[pw] = ResetVector)
        BY <3>3, <4>2, <4>3
      <4>5. Store[pw] = toHost[k].data[d + 1]
        BY <3>1, <3>6, <4>1, <4>4 DEF Chunked, Chunk
      <4>6. CASE pw = <<0, 0>> /\ Store'[pw] = ResetVector
        <5>1. h = FirstChunk /\ d = 0
          BY <2>11, <3>5, <4>1, <4>2, <4>6
        <5>2. Echo(toHost[k], FirstChunk)
          BY <3>6, <5>1, Numbers DEF Answers, Paths
        <5>3. toHost[k].data[0 + 1] = ResetVector
          BY <3>6, <5>2, FirstWord
        <5>4. QED
          BY <4>6, <5>1, <5>3
      <4>7. QED
        BY <4>4, <4>5, <4>6
    <3>7. ASSUME Good(answer')
          PROVE  Chunk(Store', last, answer')
      <4>1. SUFFICES ASSUME NEW pw \in DOMAIN Store', NEW d \in 0..ChunkWords-1,
                            Position(pw) = ChunkWords * last + d
                     PROVE  Store'[pw] = In.data[d + 1]
        BY <1>6, <3>7 DEF Chunk
      <4>2. pw = <<base, off + d>>
        <5>1. pw[1] \in Nat /\ pw[2] \in 0..PageSize-1 /\ pw = <<pw[1], pw[2]>>
          BY StoreWordsAfter
        <5>2. pw[1] * PageSize + pw[2] = base * PageSize + (off + d) /\ off + d \in 0..PageSize-1
          <6>1. base * PageSize \in Nat
            BY StoreWords
          <6>2. QED
            BY <1>1, <2>1, <3>1, <4>1, <6>1 DEF Position, Amount
        <5>3. pw[1] = base /\ pw[2] = off + d
          BY <1>1, <5>1, <5>2, Paging, SMTT(20)
        <5>4. QED
          BY <5>1, <5>3
      <4>3. pw \notin DOMAIN Store
        BY <1>1, <4>2, StoreWords
      <4>4. PICK c \in 0..ChunkWords-1 :
               /\ pw = <<base, off + c>>
               /\ Store'[pw] = In.data[c + 1] \/ (pw = <<0, 0>> /\ Store'[pw] = ResetVector)
        BY <2>2, <4>3
      <4>5. c = d
        BY <1>1, <4>2, <4>4
      <4>6. CASE pw = <<0, 0>> /\ Store'[pw] = ResetVector
        <5>1. h = FirstChunk /\ d = 0
          BY <2>4, <2>11, <3>5, <4>1, <4>6
        <5>2. Echo(In, FirstChunk)
          BY <5>1, SentEchoes
        <5>3. In.data[0 + 1] = ResetVector
          BY <1>4, <5>2, FirstWord
        <5>4. QED
          BY <4>6, <5>1, <5>3
      <4>7. QED
        BY <4>4, <4>5, <4>6
    <3>8. Chunked(number, h, Store', image', toHost, answer')
      BY <1>2, <3>1, <3>4, <3>6, <3>7 DEF Chunked
    <3>9. QED
      BY <3>2, <3>8
  <2>13. QED
    BY <2>7, <2>9, <2>12 DEF Received
<1>9. QED
  BY <1>7, <1>8

\* So many words take so many pages, but for what the buffer holds.
LEMMA EnoughPages ==
    ASSUME NEW size \in Nat \ {0}, NEW a \in Nat, NEW b \in Nat, NEW v \in 0..size,
           NEW extra \in Nat, b * size + v >= a * size + extra, v < size \/ extra >= 1
    PROVE  a <= b
<1> DEFINE A == a * size
           B == b * size
<1>1. A \in Nat /\ B \in Nat /\ B + v >= A + extra
  OBVIOUS
<1>2. PICK u \in 0..size-1 : A <= B + u
  <2> HIDE DEF A, B
  <2>1. CASE v < size
    <3>1. v \in 0..size-1 /\ A <= B + v
      BY <1>1, <2>1
    <3>2. QED
      BY <3>1
  <2>2. CASE v = size /\ extra >= 1
    <3>1. size - 1 \in 0..size-1 /\ A <= B + (size - 1)
      BY <1>1, <2>2
    <3>2. QED
      BY <3>1
  <2>3. QED
    BY <2>1, <2>2
<1>3. a * size <= b * size + u
  BY <1>2
<1>4. QED
  BY <1>3, Paging, Zenon

\* When every chunk has been acknowledged, every page of the image has been
\* programmed.
LEMMA ReceivedAll ==
    ASSUME image \in Images, image' = image, Paths', DevTypeOK', Received(Ending)',
           off' = PageSize => base' >= BootPage \/ Good(answer')
    PROVE  /\ base' >= ImagePages /\ Rewritten(image)'
           /\ ~answersLost' => Holds(image)'
<1>1. PICK number \in [1..Latest(toHost') -> Nat] :
         /\ Numbered(number, Ending, toHost', answer', Amount')
         /\ ~answersLost' => Chunked(number, Ending, Store', image', toHost', answer')
  <2>1. Ending' = Ending
    BY SameScript
  <2>2. QED
    BY <2>1 DEF Received
<1>2. /\ base' \in Nat /\ off' \in 0..PageSize /\ PageSize \in Nat \ {0} /\ ChunkWords \in Nat \ {0}
      /\ ImagePages \in 1..BootPage /\ BootPage \in Nat /\ Chunks \in Nat
      /\ ChunkWords * Chunks = ImagePages * PageSize
  BY StoreWordsAfter, ImageShape, DeviceAssumption
<1>3. number[1] >= Chunks /\ number[Latest(toHost')] >= Chunks
      /\ number[1] \in Nat /\ number[Latest(toHost')] \in Nat /\ One(answer') \in 0..1
  <2>1. number[1] >= Chunks /\ number[1] \in Nat /\ number[Latest(toHost')] \in Nat
        /\ One(answer') \in 0..1 /\ 1 \in 1..Latest(toHost') /\ Latest(toHost') \in 1..Latest(toHost')
    BY <1>1, Positions, Numbers DEF Numbered, Paths
  <2>2. number[1] <= number[Latest(toHost')]
    BY <1>1, <2>1 DEF Numbered
  <2>3. QED
    BY <1>2, <2>1, <2>2
<1> DEFINE last == number[Latest(toHost')]
<1>4. Amount' >= ImagePages * PageSize + ChunkWords * One(answer')
  <2>1. \A x, y, z, c \in Nat : x <= y => c * (y + z) >= c * x + c * z
    OBVIOUS
  <2>2. ChunkWords * (last + One(answer')) >= ChunkWords * Chunks + ChunkWords * One(answer')
    BY <1>2, <1>3, <2>1
  <2>3. \A x, y \in Nat : x * y \in Nat
    OBVIOUS
  <2>4. /\ ChunkWords * (last + One(answer')) \in Nat /\ ChunkWords * One(answer') \in Nat
        /\ ImagePages * PageSize \in Nat
    BY <1>2, <1>3, <2>3
  <2>5. Amount' >= ChunkWords * (last + One(answer')) /\ Amount' \in Nat
    BY <1>1, StoreWordsAfter DEF Numbered
  <2> HIDE DEF last
  <2>6. QED
    BY <1>2, <2>2, <2>4, <2>5
<1>5. base' >= ImagePages
  <2>1. Amount' = base' * PageSize + off'
    BY DEF Amount
  <2>2. ChunkWords * One(answer') \in Nat /\ ImagePages \in Nat
    <3>1. \A x, y \in Nat : x * y \in Nat
      OBVIOUS
    <3>2. QED
      BY <1>2, <1>3, <3>1
  <2>3. Good(answer') => ChunkWords * One(answer') >= 1
    BY <1>2 DEF One
  <2>4. CASE off' < PageSize \/ ChunkWords * One(answer') >= 1
    <3>1. base' * PageSize + off' >= ImagePages * PageSize + ChunkWords * One(answer')
      BY <1>4, <2>1
    <3>2. ImagePages <= base'
      BY <1>2, <2>2, <2>4, <3>1, EnoughPages, Zenon
    <3>3. QED
      BY <1>2, <3>2
  <2>5. QED
    BY <1>2, <2>3, <2>4
<1>6. \A p \in Pages(image), w \in 0..PageSize-1 :
         /\ <<p, w>> \in DOMAIN Store' /\ Store'[<<p, w>>] = flash'[p][w]
  <2>1. SUFFICES ASSUME NEW p \in Pages(image), NEW w \in 0..PageSize-1
                 PROVE  <<p, w>> \in DOMAIN Store' /\ Store'[<<p, w>>] = flash'[p][w]
    OBVIOUS
  <2>2. p \in 0..base' /\ p < base'
    BY <1>2, <1>5 DEF Pages, ImagePages
  <2>3. <<p, w>> \in DOMAIN Store'
    BY <2>2, StoreWordsAfter
  <2>4. QED
    BY <2>2, <2>3, StoreWordsAfter
<1>7. Rewritten(image)'
  <2>1. \A pw \in DOMAIN Store' : Store'[pw] \in Range(image')
    BY DEF Received
  <2>2. QED
    BY <1>6, <2>1 DEF Rewritten, Pages
<1>8. ASSUME ~answersLost'
      PROVE  Holds(image)'
  <2>1. SUFFICES ASSUME NEW p \in Pages(image), NEW w \in 0..PageSize-1
                 PROVE  flash'[p][w] = Word(image', p, w)
    BY DEF Holds, Pages
  <2>2. Position(<<p, w>>) < ChunkWords * number[1]
    <3>1. p \in Nat /\ p + 1 \in Nat /\ p + 1 <= ImagePages
      BY <1>2 DEF Pages, ImagePages
    <3>2. (p + 1) * PageSize <= ImagePages * PageSize
      <4>1. \A x, y, c \in Nat : x <= y => x * c <= y * c
        OBVIOUS
      <4>2. QED
        BY <1>2, <3>1, <4>1
    <3>3. ChunkWords * Chunks <= ChunkWords * number[1]
      <4>1. \A x, y, c \in Nat : x <= y => c * x <= c * y
        OBVIOUS
      <4>2. QED
        BY <1>2, <1>3, <4>1
    <3>4. (p + 1) * PageSize = p * PageSize + PageSize /\ p * PageSize \in Nat
      BY <1>2, <3>1
    <3>5. ImagePages * PageSize \in Nat /\ ChunkWords * number[1] \in Nat
      <4>1. \A x, y \in Nat : x * y \in Nat
        OBVIOUS
      <4>2. QED
        BY <1>2, <1>3, <4>1
    <3>6. QED
      BY <1>2, <3>2, <3>3, <3>4, <3>5 DEF Position
  <2>3. Store'[<<p, w>>] = Word(image', p, w)
    BY <1>1, <1>6, <1>8, <2>2 DEF Chunked
  <2>4. QED
    BY <1>6, <2>3
<1>9. QED
  BY <1>5, <1>7, <1>8

-----------------------------------------------------------------------------
(* What steps leave as it is.                                               *)
\* A state of the upload: an image is being uploaded, or has been, and the
\* message at h of its script is next.
Uploading(h) ==
    /\ Alone /\ Inv /\ Inv'
    /\ ModuleSound /\ SavesImage /\ HostSound
    /\ image \in Images /\ h \in 1..Final /\ Progress(h) /\ FromImage(h)

\* The invariant with that message next, but for what flash was erased for.
Advanced(h) ==
    /\ ModuleSound /\ SavesImage /\ HostSound
    /\ image # NoImage /\ h \in 1..Final /\ Progress(h)

\* The types, and the one module there is.
LEMMA OneModule ==
    ASSUME Alone, Inv
    PROVE  /\ Paths /\ DevTypeOK /\ HostTypeOK /\ ~IsAlive(answer)
           /\ config.id = DefaultId /\ DefaultId \in 1..254 /\ Ids = {DefaultId}
           /\ module \in {DefaultId, NoId} /\ combo \in {DefaultId, NoId} /\ DefaultId # NoId
           /\ \A m \in Range(modules) : m.id = DefaultId
           /\ toHost \in Seq(Report) /\ queue \in Seq(Request)
           /\ answer \in Request /\ image \in Images \cup {NoImage} /\ NoImage \notin Images
<1>1. TypeOK /\ IdsValid /\ QueueEnds
  BY DEF Inv
<1>2. DevTypeOK /\ LinkTypeOK /\ HostTypeOK
  BY <1>1 DEF TypeOK, ModuleTypeOK
<1>3. Paths
  BY <1>2 DEF Paths, LinkTypeOK, DevTypeOK, AnswerMessage
<1>4. Ids = {DefaultId} /\ DefaultId \in 1..254 /\ NoImage \notin Images
  BY HostAssumption DEF Alone
<1>5. /\ ~IsAlive(answer) /\ config.id = DefaultId
      /\ toHost \in Seq(Report) /\ queue \in Seq(Request) /\ answer \in Request
  BY <1>1, <1>4 DEF IdsValid, QueueEnds
<1>6. /\ module \in {DefaultId, NoId} /\ combo \in {DefaultId, NoId} /\ DefaultId # NoId
      /\ image \in Images \cup {NoImage}
  BY <1>2, <1>4 DEF HostTypeOK, NoId
<1>7. \A m \in Range(modules) : m.id = DefaultId
  <2>1. modules \in Seq([id : Ids, state : Nat])
    BY <1>2 DEF HostTypeOK
  <2>2. {m.id : m \in Range(modules)} \subseteq Ids
    BY <2>1, IdsAt DEF Entry
  <2>3. QED
    BY <1>4, <2>2
<1>8. QED
  BY <1>2, <1>3, <1>4, <1>5, <1>6, <1>7

\* A module that a step does not change.
LEMMA SameModule ==
    ASSUME UNCHANGED devVars
    PROVE  /\ stored' = stored => (ModuleSound => ModuleSound')
           /\ Based' = Based /\ Loading' = Loading /\ Pending' = Pending
           /\ (answersLost => answersLost') => (SavesImage => SavesImage')
           /\ flash' = flash /\ answer' = answer /\ base' = base /\ ph' = ph /\ skew' = skew
<1> USE DEF devVars
<1>1. Based' = Based /\ Loading' = Loading /\ Pending' = Pending
  BY DEF Based, Loading, Pending
<1>2. stored' = stored => (Whole' <=> Whole)
  BY DEF Whole, Untouched, Rewritten
<1>3. Saving' = Saving /\ Writing' = Writing
  BY DEF Saving, Writing
<1>4. Programmed' <=> Programmed
  BY DEF Programmed, Holds
<1>5. stored' = stored => (ModuleSound => ModuleSound')
  BY <1>1, <1>2, <1>3 DEF ModuleSound
<1>6. (answersLost => answersLost') => (SavesImage => SavesImage')
  BY <1>3, <1>4 DEF SavesImage
<1>7. QED
  BY <1>1, <1>5, <1>6

\* A host that a step does not change.
LEMMA SameHost ==
    ASSUME UNCHANGED hostVars
    PROVE  /\ HostSound => HostSound'
           /\ \A h : Reached(h) => Reached(h)'
           /\ image' = image /\ active' = active /\ outcome' = outcome
<1> USE DEF hostVars
<1>1. \A h : Reached(h) => Reached(h)'
  BY SameScript DEF Reached
<1>2. QED
  BY <1>1 DEF HostSound

\* The chunks on their way, and the answers, after messages have left.
LEMMA ChunksAfter ==
    ASSUME Paths, Paths', NEW n, Drop(toDev, toDev', n), answer' \in {answer, NoMessage}
    PROVE  ChunksLeft' => ChunksLeft
<1>1. NoMessage.cmd = "RESET"
  BY MessageTypes
<1>2. \A i \in 1..Len(toDev') : \E j \in 1..Len(toDev) : toDev'[i] = toDev[j]
  BY Dropped DEF Paths
<1>3. QED
  BY <1>1, <1>2 DEF ChunksLeft

\* The answers on their way after the first have left.
LEMMA AnsweredAfter ==
    ASSUME Paths, Paths', NEW n, Drop(toHost, toHost', n), NEW cmd
    PROVE  Answered(cmd)' => Answered(cmd)
<1>1. \A i \in 1..Len(toHost') : \E j \in 1..Len(toHost) : toHost'[i] = toHost[j]
  BY Dropped DEF Paths
<1>2. QED
  BY <1>1 DEF Answered

\* The answers on their way after another one has been sent.
LEMMA AnsweredMore ==
    ASSUME Paths, Paths', NEW m \in Message, Appended(toHost, toHost', m), NEW cmd
    PROVE  Answered(cmd)' => Answered(cmd) \/ m.cmd = cmd
<1>1. \A i \in 1..Len(toHost') :
         (i \in 1..Len(toHost) /\ toHost'[i] = toHost[i]) \/ toHost'[i] = m
  BY Extended DEF Paths
<1>2. QED
  BY <1>1 DEF Answered

\* A module ready for what comes next stays so when only messages move.
LEMMA PreparedKept ==
    ASSUME image' = image, UNCHANGED devVars, NEW h, Prepared(h), ChunksLeft' => ChunksLeft,
           Answered("SET_STATE")' => Answered("SET_STATE"),
           Answered("WRITE_BOOTCONFIG")' => Answered("WRITE_BOOTCONFIG")
    PROVE  Prepared(h)'
<1>1. Ending' = Ending /\ Final' = Final /\ Loading' = Loading
  BY SameScript, SameModule
<1>2. QED
  BY <1>1 DEF Prepared, devVars

\* What flash holds of the image stays when its pages do.
LEMMA CompleteKept ==
    ASSUME image' = image, Complete, ImagePages \in Nat,
           \A p \in 0..ImagePages-1 : flash'[p] = flash[p],
           ChunksLeft' => ChunksLeft, base \in Nat, base' = base \/ base' = base + 1,
           answersLost => answersLost'
    PROVE  Complete'
<1>1. Rewritten(image)' /\ (Holds(image) => Holds(image)')
  BY DEF Complete, Rewritten, Holds, Pages, Word, ImagePages
<1>2. ImagePages' = ImagePages
  BY SameScript
<1>3. QED
  BY <1>1, <1>2 DEF Complete

\* What is on its way to the host stays refused, or acknowledges the base
\* address the module has taken.
LEMMA StaleKept ==
    ASSUME Paths, Paths', StaleAnswers, NEW n, Drop(toHost, toHost', n), Based => Based'
    PROVE  StaleAnswers'
<1>1. \A i \in 1..Len(toHost') : i + n \in 1..Len(toHost) /\ toHost'[i] = toHost[i + n]
  BY Dropped DEF Paths
<1>2. n \in Nat /\ Len(toHost') = Len(toHost) - n /\ Len(toHost) \in Nat /\ Len(toHost') \in Nat
  BY DEF Drop, Paths
<1>3. ASSUME NEW i \in 1..Len(toHost'), toHost'[i] = SetBaseAddress(DefaultId)
      PROVE  /\ Based'
             /\ \A j \in i+1..Len(toHost') :
                   IsAlive(toHost'[j]) \/ toHost'[j] = SetBaseAddress(DefaultId)
  <2>1. i + n \in 1..Len(toHost) /\ toHost[i + n] = SetBaseAddress(DefaultId)
    BY <1>1, <1>3
  <2>2. /\ Based
        /\ \A j \in (i + n)+1..Len(toHost) :
              IsAlive(toHost[j]) \/ toHost[j] = SetBaseAddress(DefaultId)
    BY <2>1 DEF StaleAnswers
  <2>3. \A j \in i+1..Len(toHost') : j \in 1..Len(toHost') /\ j + n \in (i + n)+1..Len(toHost)
    BY <1>2
  <2>4. QED
    BY <1>1, <2>2, <2>3
<1>4. QED
  BY <1>3 DEF StaleAnswers

\* The same when a message follows.
LEMMA StaleAppended ==
    ASSUME Paths, Paths', StaleAnswers, Based => Based', NEW m \in Message,
           Appended(toHost, toHost', m), m = SetBaseAddress(DefaultId) => Based',
           Based => IsAlive(m) \/ m = SetBaseAddress(DefaultId)
    PROVE  StaleAnswers'
<1>1. \A i \in 1..Len(toHost') : (i \in 1..Len(toHost) /\ toHost'[i] = toHost[i])
                                 \/ (i = Len(toHost') /\ toHost'[i] = m)
  BY DEF Appended, Paths
<1>2. Len(toHost) \in Nat /\ Len(toHost') = Len(toHost) + 1
  BY DEF Appended, Paths
<1>3. ASSUME NEW i \in 1..Len(toHost'), toHost'[i] = SetBaseAddress(DefaultId)
      PROVE  /\ Based'
             /\ \A j \in i+1..Len(toHost') :
                   IsAlive(toHost'[j]) \/ toHost'[j] = SetBaseAddress(DefaultId)
  <2>1. CASE i \in 1..Len(toHost) /\ toHost'[i] = toHost[i]
    <3>1. /\ Based
          /\ \A j \in i+1..Len(toHost) :
                IsAlive(toHost[j]) \/ toHost[j] = SetBaseAddress(DefaultId)
      BY <1>3, <2>1 DEF StaleAnswers
    <3>2. ASSUME NEW j \in i+1..Len(toHost')
          PROVE  IsAlive(toHost'[j]) \/ toHost'[j] = SetBaseAddress(DefaultId)
      <4>1. j \in 1..Len(toHost') /\ (j \in 1..Len(toHost) => j \in i+1..Len(toHost))
        BY <1>2
      <4>2. QED
        BY <1>1, <3>1, <4>1
    <3>3. QED
      BY <3>1, <3>2
  <2>2. CASE i = Len(toHost') /\ toHost'[i] = m
    <3>1. \A j \in i+1..Len(toHost') : FALSE
      BY <1>2, <2>2
    <3>2. QED
      BY <1>3, <2>2, <3>1
  <2>3. QED
    BY <1>1, <2>1, <2>2
<1>4. QED
  BY <1>3 DEF StaleAnswers

-----------------------------------------------------------------------------
(* Steps that move messages and leave the module as it is.                  *)
\* What the script of an upload looks like, in any state.
ScriptSound ==
    /\ Ending \in Nat /\ Final \in Nat /\ Ending > 3 /\ Final = Ending + 2
    /\ Len(Script) = Final /\ Script[1] = Emergency(DefaultId)

\* The script before a step.
LEMMA ScriptNow == image \in Images => ScriptSound
  BY ScriptShape, Positions DEF ScriptSound

\* The script after it.
LEMMA ScriptThen == (image \in Images)' => ScriptSound'
  BY ScriptNow, PTL

\* The parts of the invariant after a step.
LEMMA Stays ==
    ASSUME image' \in Images, NEW h \in 1..Final', ModuleSound', SavesImage', HostSound',
           Reached(h)', Requests(h)', h < 3 => StaleAnswers',
           h >= 3 => Answers(h)' /\ Prepared(h)',
           h >= 3 /\ h < Ending' => (active' => Received(h)'),
           h >= Ending' => Complete'
    PROVE  Advanced(h)'
<1>1. image' # NoImage
  BY HostAssumption
<1>2. Ending' > 3 /\ Final' \in Nat /\ Ending' \in Nat
  BY ScriptThen DEF ScriptSound
<1>3. Progress(h)'
  BY <1>2 DEF Progress, FirstChunk
<1>4. QED
  BY <1>1, <1>3 DEF Advanced

\* The parts of the invariant before it.
LEMMA Was ==
    ASSUME NEW h, Uploading(h)
    PROVE  /\ Alone /\ Inv /\ Inv' /\ ModuleSound /\ SavesImage /\ HostSound
           /\ image \in Images /\ h \in 1..Final /\ h \in Nat /\ Reached(h) /\ Requests(h)
           /\ h < 3 => StaleAnswers
           /\ h >= 3 => Answers(h) /\ Prepared(h)
           /\ h >= 3 /\ h < Ending => (active => Received(h))
           /\ h >= Ending => Complete /\ stored = image
           /\ FromImage(h) /\ skew = 0
           /\ Ending \in Nat /\ Ending > 3 /\ Final = Ending + 2 /\ ImagePages \in Nat
           /\ Paths /\ Paths' /\ DevTypeOK /\ DevTypeOK' /\ HostTypeOK
<1> USE DEF Uploading
<1>1. Ending \in Nat /\ Ending > 3 /\ Final = Ending + 2 /\ ImagePages \in Nat
  BY ImageShape, Positions
<1>2. Paths /\ DevTypeOK /\ HostTypeOK
  BY OneModule
<1>3. Paths' /\ DevTypeOK'
  <2>1. TypeOK'
    BY DEF Inv
  <2>2. QED
    BY <2>1 DEF TypeOK, ModuleTypeOK, LinkTypeOK, DevTypeOK, Paths, AnswerMessage
<1>4. QED
  BY <1>1, <1>2, <1>3 DEF Progress, FirstChunk, FromImage, ModuleSound

\* The whole invariant after it.
LEMMA Continues ==
    ASSUME NEW h, Advanced(h)', FromImage(h)'
    PROVE  TransferInv'
  BY DEF Advanced, TransferInv

\* What flash was erased for stays what it is when the module does.
LEMMA FromImageKept ==
    ASSUME NEW h, FromImage(h), UNCHANGED devVars, stored' = stored, image' = image,
           active' => active
    PROVE  FromImage(h)'
<1>1. Ending' = Ending /\ base' = base /\ ph' = ph
  BY SameScript DEF devVars
<1>2. QED
  BY <1>1 DEF FromImage, FirstChunk

\* Messages are taken or lost, alive requests answered.
LEMMA Moved ==
    ASSUME NEW h, Uploading(h), UNCHANGED devVars, image' = image, stored' = stored,
           active' => active, NEW n, Drop(toDev, toDev', n),
           \/ \E k : Drop(toHost, toHost', k)
           \/ \E m \in Message : IsAlive(m) /\ Appended(toHost, toHost', m),
           answersLost => answersLost', HostSound', Reached(h)',
           h >= 3 /\ h < Ending => (active' => Received(h)')
    PROVE  TransferInv'
<1>1. /\ Inv /\ Inv' /\ ModuleSound /\ SavesImage /\ HostSound
      /\ image \in Images /\ h \in 1..Final /\ h \in Nat /\ Reached(h) /\ Requests(h)
      /\ h < 3 => StaleAnswers
      /\ h >= 3 => Answers(h) /\ Prepared(h)
      /\ h >= Ending => Complete
      /\ Paths /\ Paths' /\ DevTypeOK /\ DevTypeOK' /\ ImagePages \in Nat
  BY Was
<1>2. Final' = Final /\ Ending' = Ending /\ image' \in Images
  BY <1>1, SameScript
<1>3. ModuleSound' /\ SavesImage' /\ Based' = Based /\ flash' = flash /\ answer' = answer /\ base' = base
  BY <1>1, SameModule
<1>4. Requests(h)'
  BY <1>1, RequestsPassed
<1>5. ChunksLeft' => ChunksLeft
  BY <1>1, <1>3, ChunksAfter
<1>6. /\ h < 3 => StaleAnswers'
      /\ h >= 3 => Answers(h)'
      /\ Answered("SET_STATE")' => Answered("SET_STATE")
      /\ Answered("WRITE_BOOTCONFIG")' => Answered("WRITE_BOOTCONFIG")
  <2>1. CASE \E k : Drop(toHost, toHost', k)
    <3>1. PICK k : Drop(toHost, toHost', k)
      BY <2>1
    <3>2. h < 3 => StaleAnswers'
      BY <1>1, <1>3, <3>1, StaleKept
    <3>3. h >= 3 => Answers(h)'
      BY <1>1, <1>3, <3>1, AnswersPassed
    <3>4. \A cmd : Answered(cmd)' => Answered(cmd)
      BY <1>1, <3>1, AnsweredAfter
    <3>5. QED
      BY <3>2, <3>3, <3>4
  <2>2. CASE \E m \in Message : IsAlive(m) /\ Appended(toHost, toHost', m)
    <3>1. PICK m \in Message : IsAlive(m) /\ Appended(toHost, toHost', m)
      BY <2>2
    <3>2. m # SetBaseAddress(DefaultId) /\ m.cmd = "ALIVE"
      BY <3>1 DEF IsAlive, SetBaseAddress, Boot, Msg
    <3>3. h < 3 => StaleAnswers'
      BY <1>1, <1>3, <3>1, <3>2, StaleAppended
    <3>4. h >= 3 => Answers(h)'
      BY <1>1, <1>3, <3>1, AnswersAlive
    <3>5. \A cmd : Answered(cmd)' => Answered(cmd) \/ m.cmd = cmd
      BY <1>1, <3>1, AnsweredMore
    <3>6. QED
      BY <3>2, <3>3, <3>4, <3>5
  <2>3. QED
    BY <2>1, <2>2
<1>7. h >= 3 => Prepared(h)'
  BY <1>1, <1>5, <1>6, PreparedKept
<1>8. h >= Ending => Complete'
  BY <1>1, <1>3, <1>5, CompleteKept DEF DevTypeOK
<1>9. Advanced(h)'
  BY <1>1, <1>2, <1>3, <1>4, <1>6, <1>7, <1>8, Stays
<1>10. FromImage(h)'
  BY Was, FromImageKept
<1>11. QED
  BY <1>9, <1>10, Continues

\* A request is filtered, ignored or lost: it goes no further.
LEMMA TakeKeeps ==
    ASSUME NEW h, Uploading(h), UNCHANGED <<devVars, hostVars, toHost>>, UNCHANGED <<answersLost, stored>>,
           toDev # <<>>, toDev' = Tail(toDev)
    PROVE  TransferInv'
<1>1. HostSound' /\ Reached(h)' /\ image' = image /\ active' = active /\ Paths /\ Paths' /\ h \in Nat
      /\ (h >= 3 /\ h < Ending => (active => Received(h)))
  BY SameHost, Was
<1>2. Drop(toDev, toDev', 1) /\ Drop(toHost, toHost', 0)
  BY <1>1, PathSteps DEF Paths
<1>3. SameStore
  BY <1>1, StoreKept DEF devVars
<1>4. h >= 3 /\ h < Ending => (active' => Received(h)')
  BY <1>1, <1>3, ReceivedKept DEF devVars
<1>5. QED
  BY <1>1, <1>2, <1>4, Moved

\* An alive request is answered.
LEMMA AliveKeeps ==
    ASSUME NEW h, Uploading(h), UNCHANGED <<devVars, hostVars>>, UNCHANGED <<answersLost, stored>>,
           toDev # <<>>, toDev' = Tail(toDev), NEW m \in Message, IsAlive(m), ToHost(m)
    PROVE  TransferInv'
<1>1. HostSound' /\ Reached(h)' /\ image' = image /\ active' = active /\ Paths /\ Paths' /\ h \in Nat
      /\ (h >= 3 /\ h < Ending => (active => Received(h)))
  BY SameHost, Was
<1>2. Drop(toDev, toDev', 1) /\ Appended(toHost, toHost', m)
  BY <1>1, PathSteps DEF Paths, ToHost
<1>3. SameStore
  BY <1>1, StoreKept DEF devVars
<1>4. h >= 3 /\ h < Ending => (active' => Received(h)')
  BY <1>1, <1>2, <1>3, ReceivedAppended DEF devVars
<1>5. QED
  BY <1>1, <1>2, <1>4, Moved

\* An answer is lost.
LEMMA LossKeeps ==
    ASSUME NEW h, Uploading(h), LoseAnswer, answersLost', UNCHANGED <<devVars, hostVars>>, stored' = stored
    PROVE  TransferInv'
<1>1. HostSound' /\ Reached(h)' /\ image' = image /\ active' = active /\ Paths /\ Paths' /\ h \in Nat
      /\ (h >= 3 /\ h < Ending => (active => Received(h)))
  BY SameHost, Was
<1>2. Drop(toDev, toDev', 0) /\ Drop(toHost, toHost', 1) /\ toHost # <<>>
  BY <1>1, PathSteps DEF Paths, LoseAnswer
<1>3. SameStore
  BY <1>1, StoreKept DEF devVars
<1>4. h >= 3 /\ h < Ending => (active' => Received(h)')
  BY <1>1, <1>2, <1>3, ReceivedLost DEF devVars
<1>5. QED
  BY <1>1, <1>2, <1>4, Moved

-----------------------------------------------------------------------------
(* Steps of the module.                                                     *)
\* A step of the module leaves the plugin where it is.
LEMMA ModuleSteps ==
    ASSUME NEW h, Uploading(h), UNCHANGED <<hostVars, answersLost>>, ModuleSound', SavesImage',
           NEW n, Drop(toDev, toDev', n), h < 3 => StaleAnswers',
           h >= 3 => Answers(h)' /\ Prepared(h)',
           h >= 3 /\ h < Ending => (active => Received(h)'),
           h >= Ending => Complete'
    PROVE  Advanced(h)'
<1>1. HostSound' /\ Reached(h)' /\ image' = image /\ active' = active
  BY SameHost, Was
<1>2. Requests(h)' /\ Final' = Final /\ Ending' = Ending /\ image' \in Images /\ h \in 1..Final
  BY <1>1, Was, RequestsPassed, SameScript
<1>3. QED
  BY <1>1, <1>2, Stays

\* What is in flash is as whole as it was when flash is.
LEMMA SameFlash ==
    ASSUME flash' = flash, stored' = stored
    PROVE  /\ Whole' <=> Whole
           /\ Programmed' <=> Programmed
           /\ image' = image => (Rewritten(image)' <=> Rewritten(image)) /\ (Holds(image)' <=> Holds(image))
  BY DEF Whole, Untouched, Rewritten, Programmed, Holds, Pages, Word

\* A reset, of an application or at the end of an upload, finds the module as
\* sound as it was.
LEMMA RestartSound ==
    ASSUME ModuleSound, DevTypeOK, Restart, stored' = stored
    PROVE  ModuleSound' /\ SavesImage'
<1>1. Whole' <=> Whole
  BY SameFlash DEF Restart
<1>2. FirstConfig.state # BOOT_NORMAL /\ NoMessage.cmd = "RESET" /\ ~Pending'
  BY DEF FirstConfig, BOOT_IDLE, BOOT_NORMAL, NoMessage, Boot, Msg, Pending, Restart
<1>3. off' = 0 /\ skew' = 0 /\ PageSize # 0 /\ mode' = "boot" /\ answer' = NoMessage /\ eeprom' = eeprom
  BY DeviceAssumption DEF Restart
<1>4. \/ ph' = "loop" /\ config' = eeprom
      \/ ph' = "eraseConfig" /\ config'.state # BOOT_NORMAL
  BY <1>2 DEF Restart
<1>5. ~Writing' /\ (Saving' => config'.state # BOOT_NORMAL)
  BY <1>4 DEF Writing, Saving
<1>6. QED
  BY <1>1, <1>2, <1>3, <1>4, <1>5 DEF ModuleSound, SavesImage

\* Requests lose what a reset finds in the controller.
LEMMA RestartPaths ==
    ASSUME ModuleSound, Restart, Paths, Paths', ph \in {"loop", "reset"}
    PROVE  /\ \E n : Drop(toDev, toDev', n)
           /\ Drop(toHost, toHost', 0) /\ toHost' = toHost
           /\ answer = NoMessage /\ answer' = NoMessage
<1>1. PICK n \in 0..Len(toDev) : toDev' = SubSeq(toDev, n + 1, Len(toDev))
  BY DEF Restart
<1>2. Drop(toDev, toDev', n) /\ Drop(toHost, toHost', 0)
  BY <1>1, PathSteps DEF Paths, Restart
<1>3. QED
  BY <1>2 DEF Restart, ModuleSound, Pending

\* An answer that acknowledges the base address is not followed by a reset.
LEMMA RestartStale ==
    ASSUME StaleAnswers, Restart, mode = "app" \/ ph = "reset"
    PROVE  StaleAnswers'
<1>1. ~Based
  BY DEF Based
<1>2. toHost' = toHost
  BY DEF Restart
<1>3. QED
  BY <1>1, <1>2 DEF StaleAnswers

\* The emergency message resets the application; nothing else of the upload is
\* then under way.
LEMMA AppResetKeeps ==
    ASSUME NEW h, Uploading(h), AppReset, UNCHANGED <<hostVars, answersLost>>,
           stored' = stored
    PROVE  Advanced(h)'
<1>1. /\ ModuleSound /\ image \in Images /\ h \in 1..Final /\ h \in Nat /\ Requests(h)
      /\ h < 3 => StaleAnswers
      /\ h >= 3 => Answers(h) /\ Prepared(h)
      /\ Ending \in Nat /\ Ending > 3 /\ Final = Ending + 2 /\ Paths /\ Paths' /\ DevTypeOK
  BY Was
<1>2. Restart /\ mode = "app" /\ toDev # <<>> /\ In.type = "EMERGENCY" /\ ph = "loop"
  BY <1>1 DEF AppReset, ModuleSound
<1>3. h < 3
  <2>1. SUFFICES ASSUME h >= 3 PROVE FALSE
    BY <1>1
  <2>2. 1 \in 1..Len(toDev) /\ In = toDev[1]
    BY <1>1, <1>2, PathSteps DEF Paths, In
  <2>3. PICK i \in 1..h : In = Script[i] /\ In.cmd = CommandAt(i)
    <3>1. AliveRequest.type # "EMERGENCY"
      BY DEF AliveRequest, Msg
    <3>2. QED
      BY <1>1, <1>2, <2>2, <3>1, RequestIs
  <2>4. In.type = IF i = 1 THEN "EMERGENCY" ELSE "BOOTLOADER"
    <3>1. i \in 1..Final
      BY <1>1
    <3>2. Script[i].type = IF i = 1 THEN "EMERGENCY" ELSE "BOOTLOADER"
      BY <1>1, <3>1, ScriptMessages
    <3>3. QED
      BY <2>3, <3>2
  <2>5. In.cmd = "PROGRAM"
    BY <1>2, <2>3, <2>4 DEF CommandAt
  <2>6. IsAlive(In) \/ Stage(In) >= Stage(Script[h - 1])
    BY <1>1, <2>1, <2>2 DEF Answers, AtLeast
  <2>7. h = 3
    <3>1. h \in 3..Final
      BY <1>1, <2>1, Positions
    <3>2. QED
      BY <1>1, <2>5, <2>6, <3>1, Behind
  <2>8. QED
    BY <1>1, <1>2, <2>1, <2>7 DEF Prepared, Loading
<1>4. ModuleSound' /\ SavesImage'
  BY <1>1, <1>2, RestartSound
<1>5. PICK n : Drop(toDev, toDev', n)
  BY <1>1, <1>2, RestartPaths
<1>6. StaleAnswers'
  BY <1>1, <1>2, <1>3, RestartStale
<1>7. ~(h >= 3) /\ ~(h >= Ending)
  BY <1>1, <1>3
<1>8. QED
  BY <1>4, <1>5, <1>6, <1>7, ModuleSteps

\* The reset that ends the upload finds the configuration saved.
LEMMA DoResetKeeps ==
    ASSUME NEW h, Uploading(h), DoReset, UNCHANGED <<hostVars, answersLost>>,
           stored' = stored
    PROVE  Advanced(h)'
<1>1. /\ ModuleSound /\ image \in Images /\ h \in 1..Final /\ h \in Nat /\ Requests(h)
      /\ h < 3 => StaleAnswers
      /\ h >= 3 => Answers(h) /\ Prepared(h)
      /\ h >= Ending => Complete
      /\ Ending \in Nat /\ Ending > 3 /\ Final = Ending + 2 /\ Paths /\ Paths' /\ DevTypeOK
  BY Was
<1>2. Restart /\ ph = "reset"
  BY DEF DoReset
<1>3. ModuleSound' /\ SavesImage'
  BY <1>1, <1>2, RestartSound
<1>4. PICK n : Drop(toDev, toDev', n)
  BY <1>1, <1>2, RestartPaths
<1>5. toHost' = toHost /\ Drop(toHost, toHost', 0) /\ answer = NoMessage /\ answer' = NoMessage
      /\ NoMessage.cmd = "RESET" /\ image' = image
  BY <1>1, <1>2, RestartPaths DEF NoMessage, Boot, Msg, hostVars
<1>6. h < 3 => StaleAnswers'
  BY <1>1, <1>2, RestartStale
<1>7. ASSUME h >= 3
      PROVE  /\ Answers(h)' /\ Prepared(h)' /\ Complete' /\ h = Final
  <2>1. h = Final /\ eeprom.state = BOOT_NORMAL
    BY <1>1, <1>2, <1>5, <1>7 DEF Prepared
  <2>2. Answers(h)'
    BY <1>1, <1>4, <1>5, <1>7, AnswersPassed
  <2>3. eeprom.id = DefaultId /\ eeprom.id # 255
    BY <1>1, <2>1, DeviceAssumption DEF ModuleSound, ErasedConfig, BOOT_NORMAL
  <2>4. config' = eeprom /\ ph' = "loop" /\ eeprom' = eeprom /\ flash' = flash
    BY <1>2, <2>3 DEF Restart
  <2>5. ~ChunksLeft'
    <3>1. h - 1 \in 1..Final /\ ~(h - 1 <= 2) /\ ~(h - 1 < Ending) /\ 4 + ((h - 1) - Ending) = 5
      BY <1>1, <2>1
    <3>2. Stage(Script[h - 1]) = 5
      BY <1>1, <3>1, ScriptStages
    <3>3. AtLeast(toDev', 5)
      <4>1. AtLeast(toDev, 5)
        BY <1>1, <1>7, <3>2 DEF Answers
      <4>2. QED
        BY <1>1, <1>4, <4>1, Dropped DEF Paths
    <3>4. \A m : m.cmd = "WRITE_INC" => ~IsAlive(m) /\ ~(Stage(m) >= 5)
      BY Stages DEF IsAlive
    <3>5. QED
      BY <1>5, <3>3, <3>4 DEF ChunksLeft, AtLeast
  <2>6. Ending' = Ending /\ Final' = Final
    BY <1>5, SameScript
  <2>7. Prepared(h)'
    <3>1. ~(h < Ending')
      BY <1>1, <2>1, <2>6
    <3>2. QED
      BY <2>1, <2>4, <2>5, <2>6, <3>1 DEF Prepared
  <2>8. Complete'
    <3>1. Complete
      BY <1>1, <2>1
    <3>2. Rewritten(image)' /\ (Holds(image) => Holds(image)')
      BY <1>5, <2>4, <3>1, SameFlash DEF Complete
    <3>3. QED
      BY <2>5, <3>1, <3>2 DEF Complete, hostVars
  <2>9. QED
    BY <2>1, <2>2, <2>7, <2>8
<1>8. (h >= Ending => Complete') /\ (h >= 3 /\ h < Ending => (active => Received(h)'))
  BY <1>1, <1>7
<1>9. QED
  BY <1>3, <1>4, <1>6, <1>7, <1>8, ModuleSteps

\* A command is one of the upload's, with nothing on its way that belongs after
\* it, and nothing before it that belongs behind.
LEMMA CommandTaken ==
    ASSUME NEW h, Uploading(h), NEW cmd \in BootCommands, Command(cmd)
    PROVE  /\ toDev # <<>> /\ Drop(toDev, toDev', 1) /\ toHost' = toHost /\ Drop(toHost, toHost', 0)
           /\ mode = "boot" /\ ph = "loop" /\ answer = NoMessage /\ ~Pending
           /\ In.cmd = cmd /\ ~IsAlive(In) /\ In \in Message /\ Sent(In, h) /\ In.nack = FALSE
           /\ \E n \in 1..Len(toDev) : toDev[n] = In
           /\ \E i \in 2..h : In = Script[i] /\ cmd = CommandAt(i)
           /\ AtLeast(toDev', Stage(In))
           /\ h >= 3 => /\ Stage(In) >= Stage(Script[h - 1])
                        /\ \A n \in 1..Len(toHost) : IsAlive(toHost[n]) \/ Stage(toHost[n]) <= Stage(In)
<1>1. /\ ModuleSound /\ image \in Images /\ h \in 1..Final /\ h \in Nat /\ Requests(h)
      /\ h >= 3 => Answers(h)
      /\ Ending \in Nat /\ Ending > 3 /\ Final = Ending + 2 /\ Paths /\ Paths'
  BY Was
<1>2. /\ toDev # <<>> /\ toDev' = Tail(toDev) /\ toHost' = toHost
      /\ mode = "boot" /\ ph = "loop" /\ In.cmd = cmd /\ In.type = "BOOTLOADER"
  BY DEF Command, Receive
<1>3. Drop(toDev, toDev', 1) /\ In = toDev[1] /\ Len(toDev) >= 1 /\ Drop(toHost, toHost', 0)
  BY <1>1, <1>2, PathSteps DEF Paths, In
<1>4. answer = NoMessage /\ ~Pending
  BY <1>1, <1>2 DEF ModuleSound, Pending
<1>5. 1 \in 1..Len(toDev) /\ Len(toDev) \in Nat
  BY <1>1, <1>3 DEF Paths
<1>6. In.cmd # "ALIVE" /\ In.cmd # "PROGRAM" /\ ~IsAlive(In)
  BY <1>2 DEF BootCommands, IsAlive
<1>7. Sent(In, h) /\ \E i \in 1..h : In = Script[i] /\ In.cmd = CommandAt(i)
  BY <1>1, <1>3, <1>5, <1>6, RequestIs
<1>8. PICK i \in 1..h : In = Script[i] /\ In.cmd = CommandAt(i)
  BY <1>7
<1>9. i \in 2..h /\ i \in 1..Final
  BY <1>1, <1>6, <1>8 DEF CommandAt
<1>10. In \in Message /\ In.nack = FALSE
  BY <1>1, <1>8, <1>9, ScriptMessages
<1>11. \A n \in 1..Len(toDev') : n + 1 \in 1..Len(toDev) /\ toDev'[n] = toDev[n + 1]
  BY <1>1, <1>3, Dropped DEF Paths
<1>12. AtLeast(toDev', Stage(In))
  <2>1. ASSUME NEW n \in 1..Len(toDev'), ~IsAlive(toDev'[n])
        PROVE  Stage(toDev'[n]) >= Stage(In)
    <3>1. n + 1 \in 1..Len(toDev) /\ toDev'[n] = toDev[n + 1] /\ 1 < n + 1
      BY <1>11, <1>5
    <3>2. Stage(In) <= Stage(toDev[n + 1])
      BY <1>1, <1>3, <1>5, <1>6, <2>1, <3>1 DEF Requests, Sorted
    <3>3. Stage(In) \in 0..6 /\ Stage(toDev[n + 1]) \in 0..6
      BY Stages
    <3>4. QED
      BY <3>1, <3>2, <3>3
  <2>2. QED
    BY <2>1 DEF AtLeast
<1>13. h >= 3 => /\ Stage(In) >= Stage(Script[h - 1])
                 /\ \A n \in 1..Len(toHost) : IsAlive(toHost[n]) \/ Stage(toHost[n]) <= Stage(In)
  BY <1>1, <1>3, <1>5, <1>6 DEF Answers, AtLeast, Before
<1>14. QED
  BY <1>2, <1>3, <1>4, <1>5, <1>6, <1>7, <1>8, <1>9, <1>10, <1>12, <1>13

\* Where in the upload each command is.
LEMMA CommandPlace ==
    ASSUME NEW h, Uploading(h), NEW cmd \in BootCommands, Command(cmd)
    PROVE  /\ cmd \in {"SET_BASE_ADDR", "WRITE_INC", "SET_STATE", "WRITE_BOOTCONFIG", "RESET"}
           /\ cmd = "SET_BASE_ADDR" => h \in {2, 3} /\ In = SetBaseAddress(DefaultId)
           /\ cmd = "WRITE_INC" => h \in 3..Ending /\ Len(In.data) = ChunkWords /\ In.half = <<>>
           /\ cmd = "SET_STATE" => h \in Ending..Ending+1 /\ In.data = <<BOOT_NORMAL>>
           /\ cmd = "WRITE_BOOTCONFIG" => h \in Ending+1..Final
           /\ cmd = "RESET" => h = Final
<1>1. /\ image \in Images /\ h \in 1..Final /\ h \in Nat
      /\ Ending \in Nat /\ Ending > 3 /\ Final = Ending + 2
  BY Was
<1>2. /\ In.cmd = cmd
      /\ h >= 3 => Stage(In) >= Stage(Script[h - 1])
      /\ \E i \in 2..h : In = Script[i] /\ cmd = CommandAt(i)
  BY CommandTaken
<1>3. PICK i \in 2..h : In = Script[i] /\ cmd = CommandAt(i)
  BY <1>2
<1>4. h >= 3 => h \in 3..Final
  BY <1>1
<1>5. h >= 3 => /\ cmd = "SET_BASE_ADDR" => h = 3
                /\ cmd = "WRITE_INC" => h <= Ending
                /\ cmd = "SET_STATE" => h <= Ending + 1
                /\ cmd = "WRITE_BOOTCONFIG" => h <= Final
  BY <1>1, <1>2, <1>4, Behind
<1>6. i \in 1..Final /\ i \in Nat /\ i >= 2 /\ i <= h
  BY <1>1, <1>3
<1>7. CASE i = 2
  BY <1>1, <1>3, <1>5, <1>6, <1>7, ScriptShape DEF CommandAt
<1>8. CASE i \in 3..Ending-1
  <2>1. cmd = "WRITE_INC" /\ h \in 3..Ending
    BY <1>1, <1>3, <1>5, <1>6, <1>8 DEF CommandAt
  <2>2. Len(In.data) = ChunkWords /\ In.half = <<>>
    BY <1>1, <1>3, <1>6, <1>8, ChunkData, ScriptMessages
  <2>3. QED
    BY <2>1, <2>2
<1>9. CASE i = Ending
  <2>1. cmd = "SET_STATE" /\ h \in Ending..Ending+1
    BY <1>1, <1>3, <1>5, <1>6, <1>9 DEF CommandAt
  <2>2. In.data = <<BOOT_NORMAL>>
    BY <1>1, <1>3, <1>9, ScriptShape DEF Boot, Msg
  <2>3. QED
    BY <2>1, <2>2
<1>10. CASE i > Ending
  BY <1>1, <1>3, <1>5, <1>6, <1>10 DEF CommandAt
<1>11. QED
  BY <1>1, <1>6, <1>7, <1>8, <1>9, <1>10

\* Answers of early stages are of no later command.
LEMMA AnswersBelow ==
    ASSUME NEW stage \in 0..6, NEW q,
           \A n \in 1..Len(q) : IsAlive(q[n]) \/ Stage(q[n]) <= stage
    PROVE  \A n \in 1..Len(q) :
              /\ stage < 3 => ~Good(q[n])
              /\ stage < 4 => q[n].cmd # "SET_STATE"
              /\ stage < 5 => q[n].cmd # "WRITE_BOOTCONFIG"
<1>1. \A m : /\ m.cmd = "SET_STATE" => Stage(m) = 4 /\ ~IsAlive(m)
             /\ m.cmd = "WRITE_BOOTCONFIG" => Stage(m) = 5 /\ ~IsAlive(m)
             /\ Good(m) => Stage(m) = 3 /\ ~IsAlive(m)
  BY Stages DEF IsAlive, Good
<1>2. QED
  BY <1>1

\* Behind a later command there is no chunk.
LEMMA NoChunks ==
    ASSUME NEW stage \in 4..6, AtLeast(toDev', stage), answer'.cmd # "WRITE_INC"
    PROVE  ~ChunksLeft'
<1>1. \A m : m.cmd = "WRITE_INC" => Stage(m) = 3 /\ ~IsAlive(m)
  BY Stages DEF IsAlive
<1>2. QED
  BY <1>1 DEF ChunksLeft, AtLeast

\* The base address: every chunk is still to come.
LEMMA SetBaseAddrKeeps ==
    ASSUME NEW h, Uploading(h), SetBaseAddr, UNCHANGED <<hostVars, answersLost>>,
           stored' = stored
    PROVE  Advanced(h)'
<1>1. /\ ModuleSound /\ image \in Images /\ h \in 1..Final /\ h \in Nat /\ Requests(h)
      /\ h < 3 => StaleAnswers
      /\ h >= 3 => Answers(h)
      /\ Ending \in Nat /\ Ending > 3 /\ Final = Ending + 2 /\ Paths /\ Paths' /\ DevTypeOK
  BY Was
<1>2. Command("SET_BASE_ADDR") /\ "SET_BASE_ADDR" \in BootCommands
  BY DEF SetBaseAddr, BootCommands
<1>3. /\ toDev # <<>> /\ Drop(toDev, toDev', 1) /\ toHost' = toHost /\ Drop(toHost, toHost', 0)
      /\ mode = "boot" /\ ph = "loop" /\ answer = NoMessage /\ ~Pending
      /\ In.cmd = "SET_BASE_ADDR" /\ ~IsAlive(In)
      /\ h >= 3 => \A n \in 1..Len(toHost) : IsAlive(toHost[n]) \/ Stage(toHost[n]) <= Stage(In)
  BY <1>2, CommandTaken
<1>4. h \in {2, 3} /\ In = SetBaseAddress(DefaultId) /\ In.data[1] = 0
  <2>1. h \in {2, 3} /\ In = SetBaseAddress(DefaultId)
    BY <1>2, CommandPlace
  <2>2. QED
    BY <2>1 DEF SetBaseAddress, Boot, Msg
<1>5. /\ config' = Unbootable(config) /\ base' = 0 /\ skew' = 0 /\ off' = 0 /\ ready' = TRUE /\ answer' = In
      /\ ph' = "reply" /\ mode' = mode /\ eeprom' = eeprom /\ flash' = flash /\ page' = page
  <2>1. /\ base' = 0 /\ skew' = 0 /\ answer' = IF base' >= BootPage THEN Nack(In) ELSE In
    BY <1>4, Addresses DEF SetBaseAddr, Answer
  <2>2. answer' = In
    BY <2>1, DeviceAssumption
  <2>3. QED
    BY <2>1, <2>2 DEF SetBaseAddr
<1>6. config'.state # BOOT_NORMAL /\ NoMessage.cmd = "RESET" /\ answer'.cmd = "SET_BASE_ADDR" /\ Pending'
  <2>1. config'.state # BOOT_NORMAL
    BY <1>1, <1>5 DEF Unbootable, BOOT_IDLE, BOOT_NORMAL, DevTypeOK, Config
  <2>2. NoMessage.cmd = "RESET"
    BY DEF NoMessage, Boot, Msg
  <2>3. QED
    BY <1>3, <1>5, <2>1, <2>2 DEF Pending
<1>7. Based' /\ ~Saving' /\ ~Writing' /\ Loading'
  BY <1>3, <1>4, <1>5, <1>6, DeviceAssumption DEF Based, Saving, Writing, Loading
<1>8. ModuleSound' /\ SavesImage'
  <2>1. (Whole' <=> Whole) /\ PageSize # 0
    BY <1>5, SameFlash, DeviceAssumption
  <2>2. QED
    BY <1>1, <1>3, <1>5, <1>6, <1>7, <2>1 DEF ModuleSound, SavesImage
<1>9. h < 3 => StaleAnswers'
  BY <1>1, <1>3, <1>7, StaleKept
<1>10. ASSUME h >= 3
       PROVE  Answers(h)' /\ Prepared(h)' /\ h < Ending /\ Received(h)'
  <2>1. h = FirstChunk /\ h < Ending /\ h \in 3..Final
    BY <1>1, <1>4, <1>10 DEF FirstChunk
  <2>2. image' = image /\ Ending' = Ending /\ Final' = Final
    BY SameScript DEF hostVars
  <2>3. Answers(h)'
    BY <1>1, <1>3, <1>5, <2>1, <2>2, AnswersTaken
  <2>4. \A n \in 1..Len(toHost) : /\ ~Good(toHost[n])
                                  /\ toHost[n].cmd \notin {"SET_STATE", "WRITE_BOOTCONFIG"}
    <3>1. Stage(In) = 2
      BY <1>3, Stages
    <3>2. QED
      BY <1>3, <1>10, <3>1, AnswersBelow
  <2>5. Prepared(h)'
    <3>1. ~Answered("SET_STATE")' /\ ~Answered("WRITE_BOOTCONFIG")'
      BY <1>3, <2>4 DEF Answered
    <3>2. ~(h > Ending) /\ ~(h = Final)
      BY <1>1, <2>1
    <3>3. QED
      BY <1>5, <1>6, <1>7, <2>2, <3>1, <3>2 DEF Prepared
  <2>6. Received(h)'
    <3>1. ~Good(answer') /\ \A n \in 1..Len(toHost') : ~Good(toHost'[n])
      BY <1>3, <1>6, <2>4 DEF Good
    <3>2. QED
      BY <1>1, <1>5, <2>1, <3>1, ReceivedNothing
  <2>7. QED
    BY <2>1, <2>3, <2>5, <2>6
<1>11. h >= Ending => Complete'
  BY <1>1, <1>10
<1>12. QED
  BY <1>3, <1>8, <1>9, <1>10, <1>11, ModuleSteps

\* What WRITE_INC does next: the page is written when the chunk has filled it, and
\* for the first one the module is made unbootable before.
LEMMA WriteIncCases ==
    ASSUME WriteInc, DevTypeOK, In \in Message, Len(In.data) = ChunkWords, In.nack = FALSE,
           In.half = <<>>, skew = 0, In.cmd = "WRITE_INC", ready, off = PageSize => base >= BootPage
    PROVE  /\ \/ /\ ph' = "eraseConfig" /\ config' = Unbootable(config) /\ answer' = In
                 /\ base = 0 /\ off' = PageSize
              \/ /\ ph' = "erasePage" /\ config' = config /\ answer' = In
                 /\ base > 0 /\ base < BootPage /\ off' = PageSize
              \/ /\ ph' = "reply" /\ config' = config /\ answer' \in {In, Nack(In)}
                 /\ off' = PageSize => base >= BootPage
           /\ answer'.cmd = "WRITE_INC" /\ (answer' = In => Good(answer'))
<1>1. /\ off' = IF Fits THEN off + ChunkWords ELSE off
      /\ off \in 0..PageSize /\ base \in Nat /\ PageSize \in Nat \ {0} /\ ChunkWords \in Nat \ {0}
      /\ BootPage \in Nat \ {0}
  BY DeviceAssumption, HostAssumption DEF WriteInc, DevTypeOK
<1>2. ChunkWords <= PageSize
  <2>1. PageSize % ChunkWords = 0
    BY UploadAssumption
  <2>2. \A a \in Nat \ {0}, b \in Nat \ {0} : a % b = 0 => b <= a
    OBVIOUS
  <2>3. QED
    BY <1>1, <2>1, <2>2
<1>3. Fits <=> off + ChunkWords <= PageSize
  BY DEF Fits
<1>4. AtBoundary(off') <=> off' = PageSize
  BY <1>1, <1>2, <1>3 DEF AtBoundary
<1>5. off' = PageSize /\ base < BootPage => Fits
  BY <1>1
<1>6. Nack(In).cmd = In.cmd
  BY Stages
<1> DEFINE first  == AtBoundary(off') /\ base = 0 /\ skew = 0 /\ ready
           writes == AtBoundary(off') /\ BelowBootloader /\ ready
<1>7. /\ config' = IF first THEN Unbootable(config) ELSE config
      /\ answer' = IF Fits /\ (AtBoundary(off') => writes) THEN In ELSE Nack(In)
      /\ ph' = IF first THEN "eraseConfig" ELSE IF writes THEN "erasePage" ELSE "reply"
  <2>1. Spilled = {config}
    BY DEF Spilled, Overruns
  <2>2. QED
    BY <2>1 DEF WriteInc, Answer
<1>8. /\ first <=> off' = PageSize /\ base = 0
      /\ writes <=> off' = PageSize /\ base < BootPage
  BY <1>4 DEF BelowBootloader
<1> HIDE DEF first, writes
<1>9. CASE first
  BY <1>1, <1>4, <1>5, <1>7, <1>8, <1>9 DEF Good
<1>10. CASE ~first /\ writes
  BY <1>1, <1>4, <1>5, <1>7, <1>8, <1>10 DEF Good
<1>11. CASE ~first /\ ~writes
  BY <1>1, <1>6, <1>7, <1>8, <1>11 DEF Good
<1>12. QED
  BY <1>9, <1>10, <1>11

\* A chunk.
LEMMA WriteIncKeeps ==
    ASSUME NEW h, Uploading(h), WriteInc, UNCHANGED <<hostVars, answersLost>>,
           stored' = stored
    PROVE  Advanced(h)'
<1>1. /\ ModuleSound /\ image \in Images /\ h \in 1..Final /\ h \in Nat /\ Requests(h)
      /\ h >= 3 => Answers(h) /\ Prepared(h)
      /\ h >= 3 /\ h < Ending => (active => Received(h))
      /\ h >= Ending => Complete
      /\ Ending \in Nat /\ Ending > 3 /\ Final = Ending + 2 /\ ImagePages \in Nat
      /\ Paths /\ Paths' /\ DevTypeOK /\ DevTypeOK'
      /\ skew = 0
  BY Was
<1>2. Command("WRITE_INC") /\ "WRITE_INC" \in BootCommands
  BY DEF WriteInc, BootCommands
<1>3. /\ toDev # <<>> /\ Drop(toDev, toDev', 1) /\ toHost' = toHost /\ Drop(toHost, toHost', 0)
      /\ mode = "boot" /\ ph = "loop" /\ answer = NoMessage /\ ~Pending
      /\ In.cmd = "WRITE_INC" /\ ~IsAlive(In) /\ In \in Message /\ Sent(In, h) /\ In.nack = FALSE
      /\ \E n \in 1..Len(toDev) : toDev[n] = In
      /\ h >= 3 => \A n \in 1..Len(toHost) : IsAlive(toHost[n]) \/ Stage(toHost[n]) <= Stage(In)
  BY <1>2, CommandTaken
<1>4. h \in 3..Ending /\ h \in 3..Final /\ h >= 3 /\ Len(In.data) = ChunkWords /\ In.half = <<>>
  BY <1>1, <1>2, CommandPlace
<1>5. ChunksLeft /\ Loading
  <2>1. ChunksLeft
    BY <1>3 DEF ChunksLeft
  <2>2. QED
    BY <1>1, <1>4, <2>1 DEF Prepared
<1>6. NoMessage.cmd = "RESET" /\ ~Good(NoMessage)
  BY DEF NoMessage, Boot, Msg, Good
<1>7. off = PageSize => base >= BootPage
  BY <1>1, <1>3, <1>6 DEF ModuleSound
<1>8. ready /\ config.state # BOOT_NORMAL /\ (base > 0 => eeprom.state # BOOT_NORMAL)
  BY <1>5 DEF Loading
<1>9. /\ \/ /\ ph' = "eraseConfig" /\ config' = Unbootable(config) /\ answer' = In
            /\ base = 0 /\ off' = PageSize
         \/ /\ ph' = "erasePage" /\ config' = config /\ answer' = In
            /\ base > 0 /\ base < BootPage /\ off' = PageSize
         \/ /\ ph' = "reply" /\ config' = config /\ answer' \in {In, Nack(In)}
            /\ off' = PageSize => base >= BootPage
      /\ answer'.cmd = "WRITE_INC" /\ (answer' = In => Good(answer'))
  BY <1>1, <1>3, <1>4, <1>7, <1>8, WriteIncCases
<1>10. UNCHANGED <<mode, eeprom, flash, base, skew, ready>>
  BY DEF WriteInc
<1>11. config'.state # BOOT_NORMAL /\ Pending'
  <2>1. Unbootable(config).state # BOOT_NORMAL
    BY <1>1 DEF Unbootable, BOOT_IDLE, BOOT_NORMAL, DevTypeOK, Config
  <2>2. QED
    BY <1>6, <1>8, <1>9, <2>1 DEF Pending
<1>12. ModuleSound' /\ SavesImage'
  <2>1. Whole' <=> Whole
    BY <1>10, SameFlash
  <2>2. /\ skew' = 0 /\ mode' = "boot" /\ (eeprom'.state = BOOT_NORMAL => Whole')
        /\ eeprom' = ErasedConfig \/ eeprom'.id = DefaultId
    BY <1>1, <1>3, <1>10, <2>1 DEF ModuleSound
  <2>3. ph' \notin {"loop", "reset"}
    BY <1>9
  <2>4. Writing' => ph' = "erasePage"
    BY <1>9 DEF Writing
  <2>5. Saving' => ph' = "eraseConfig"
    BY <1>9 DEF Saving
  <2>6. Writing' => /\ config'.state # BOOT_NORMAL /\ eeprom'.state # BOOT_NORMAL
                    /\ Good(answer') /\ base' < BootPage /\ off' = PageSize
    BY <1>8, <1>9, <1>10, <1>11, <2>4
  <2>7. Saving' => config'.state # BOOT_NORMAL /\ Good(answer') /\ base' = 0 /\ off' = PageSize
    BY <1>9, <1>10, <1>11, <2>5
  <2>8. off' = PageSize => base' >= BootPage \/ (Good(answer') /\ (Saving' \/ Writing'))
    BY <1>9, <1>10 DEF Saving, Writing
  <2>9. QED
    BY <1>9, <1>11, <2>2, <2>3, <2>6, <2>7, <2>8 DEF ModuleSound, SavesImage
<1>13. image' = image /\ Ending' = Ending /\ Final' = Final
  BY SameScript DEF hostVars
<1>14. Answers(h)'
  BY <1>1, <1>3, <1>4, <1>9, <1>13, AnswersTaken
<1>15. Prepared(h)'
  <2>1. Loading'
    BY <1>3, <1>8, <1>9, <1>10, <1>11 DEF Loading
  <2>2. ~Answered("SET_STATE")' /\ ~Answered("WRITE_BOOTCONFIG")'
    <3>1. Stage(In) = 3
      BY <1>3, Stages
    <3>2. \A n \in 1..Len(toHost) : toHost[n].cmd \notin {"SET_STATE", "WRITE_BOOTCONFIG"}
      <4>1. \A n \in 1..Len(toHost) : IsAlive(toHost[n]) \/ Stage(toHost[n]) <= 3
        BY <1>3, <1>4, <3>1
      <4>2. QED
        BY <4>1, AnswersBelow
    <3>3. QED
      BY <1>3, <3>2 DEF Answered
  <2>3. ~(h > Ending) /\ ~(h = Final)
    BY <1>1, <1>4
  <2>4. QED
    BY <1>9, <1>13, <2>1, <2>2, <2>3 DEF Prepared
<1>16. h < Ending => (active => Received(h)')
  <2>1. SUFFICES ASSUME h < Ending, active PROVE Received(h)'
    OBVIOUS
  <2>2. h \in 3..Ending-1
    BY <1>1, <1>4, <2>1
  <2>3. Received(h) /\ Answers(h)
    BY <1>1, <1>4, <2>1
  <2>4. QED
    BY <1>1, <1>3, <1>7, <1>8, <1>13, <2>2, <2>3, ChunkReceived
<1>17. h >= Ending => Complete'
  BY <1>1, <1>5, <1>10, <1>13, CompleteKept DEF DevTypeOK
<1>18. QED
  BY <1>1, <1>3, <1>4, <1>12, <1>14, <1>15, <1>16, <1>17, ModuleSteps

\* SET_STATE: the configuration in RAM lets the module boot what it has been sent.
LEMMA SetStateKeeps ==
    ASSUME NEW h, Uploading(h), SetState, UNCHANGED <<hostVars, answersLost>>,
           stored' = stored
    PROVE  Advanced(h)'
<1>1. /\ ModuleSound /\ image \in Images /\ h \in 1..Final /\ h \in Nat /\ Requests(h)
      /\ h >= 3 => Answers(h) /\ Prepared(h)
      /\ h >= Ending => Complete /\ stored = image
      /\ skew = 0 /\ stored' = stored
      /\ Ending \in Nat /\ Ending > 3 /\ Final = Ending + 2 /\ ImagePages \in Nat
      /\ Paths /\ Paths' /\ DevTypeOK
  BY Was
<1>2. Command("SET_STATE") /\ "SET_STATE" \in BootCommands
  BY DEF SetState, Set, BootCommands
<1>3. /\ toDev # <<>> /\ Drop(toDev, toDev', 1) /\ toHost' = toHost /\ Drop(toHost, toHost', 0)
      /\ mode = "boot" /\ ph = "loop" /\ answer = NoMessage /\ ~Pending
      /\ In.cmd = "SET_STATE" /\ ~IsAlive(In) /\ AtLeast(toDev', Stage(In))
      /\ h >= 3 => \A n \in 1..Len(toHost) : IsAlive(toHost[n]) \/ Stage(toHost[n]) <= Stage(In)
  BY <1>2, CommandTaken
<1>4. h \in Ending..Ending+1 /\ h \in 3..Final /\ h >= 3 /\ h >= Ending /\ In.data = <<BOOT_NORMAL>>
  BY <1>1, <1>2, CommandPlace
<1>5. /\ config' = [config EXCEPT !.state = BOOT_NORMAL] /\ answer' = In /\ ph' = "reply"
      /\ UNCHANGED <<mode, eeprom, flash, base, skew, off, page, ready>>
  BY <1>4 DEF SetState, Set, Answer
<1>6. config'.state = BOOT_NORMAL
  BY <1>1, <1>5 DEF DevTypeOK, Config
<1>7. NoMessage.cmd = "RESET" /\ ~Good(NoMessage) /\ Pending' /\ answer'.cmd = "SET_STATE"
  BY <1>3, <1>5 DEF NoMessage, Boot, Msg, Good, Pending
<1>8. image' = image /\ Ending' = Ending /\ Final' = Final
  BY SameScript DEF hostVars
<1>9. ~Saving' /\ ~Writing'
  BY <1>5 DEF Saving, Writing
<1>10. ModuleSound' /\ SavesImage'
  <2>1. Whole'
    <3>1. Whole
      BY <1>1, <1>4, HostAssumption DEF Complete, Whole
    <3>2. QED
      BY <1>1, <1>5, <3>1, SameFlash
  <2>2. off' = PageSize => base' >= BootPage
    BY <1>1, <1>3, <1>5, <1>7 DEF ModuleSound
  <2>3. eeprom' = ErasedConfig \/ eeprom'.id = DefaultId
    BY <1>1, <1>5 DEF ModuleSound
  <2>4. skew' = 0
    BY <1>1, <1>5
  <2>5. QED
    BY <1>3, <1>5, <1>7, <1>9, <2>1, <2>2, <2>3, <2>4 DEF ModuleSound, SavesImage
<1>11. Answers(h)'
  BY <1>1, <1>3, <1>4, <1>5, <1>8, AnswersTaken
<1>12. Stage(In) = 4
  BY <1>3, Stages
<1>13. ~ChunksLeft'
  BY <1>3, <1>7, <1>12, NoChunks
<1>14. Prepared(h)'
  <2>1. ~Answered("WRITE_BOOTCONFIG")'
    <3>1. \A n \in 1..Len(toHost) : IsAlive(toHost[n]) \/ Stage(toHost[n]) <= 4
      BY <1>3, <1>4, <1>12
    <3>2. \A n \in 1..Len(toHost) : toHost[n].cmd # "WRITE_BOOTCONFIG"
      BY <3>1, AnswersBelow
    <3>3. QED
      BY <1>3, <3>2 DEF Answered
  <2>2. ~(h < Ending) /\ ~(h = Final)
    BY <1>1, <1>4
  <2>3. QED
    BY <1>5, <1>6, <1>7, <1>8, <1>13, <2>1, <2>2 DEF Prepared
<1>15. Complete'
  BY <1>1, <1>4, <1>5, <1>8, <1>13, CompleteKept DEF DevTypeOK, hostVars
<1>16. ~(h < 3) /\ ~(h < Ending)
  BY <1>1, <1>4
<1>17. QED
  BY <1>3, <1>10, <1>11, <1>14, <1>15, <1>16, ModuleSteps

\* WRITE_BOOTCONFIG: what is about to be made bootable is complete.
LEMMA WriteBootConfigKeeps ==
    ASSUME NEW h, Uploading(h), WriteBootConfig, UNCHANGED <<hostVars, answersLost>>,
           stored' = stored
    PROVE  Advanced(h)'
<1>1. /\ ModuleSound /\ image \in Images /\ h \in 1..Final /\ h \in Nat /\ Requests(h)
      /\ h >= 3 => Answers(h) /\ Prepared(h)
      /\ h >= Ending => Complete /\ stored = image
      /\ skew = 0 /\ stored' = stored
      /\ Ending \in Nat /\ Ending > 3 /\ Final = Ending + 2 /\ ImagePages \in Nat
      /\ Paths /\ Paths' /\ DevTypeOK
  BY Was
<1>2. Command("WRITE_BOOTCONFIG") /\ "WRITE_BOOTCONFIG" \in BootCommands
  BY DEF WriteBootConfig, BootCommands
<1>3. /\ toDev # <<>> /\ Drop(toDev, toDev', 1) /\ toHost' = toHost /\ Drop(toHost, toHost', 0)
      /\ mode = "boot" /\ ph = "loop" /\ answer = NoMessage /\ ~Pending
      /\ In.cmd = "WRITE_BOOTCONFIG" /\ ~IsAlive(In) /\ AtLeast(toDev', Stage(In))
  BY <1>2, CommandTaken
<1>4. h \in Ending+1..Final /\ h \in 3..Final /\ h >= 3 /\ h >= Ending /\ h > Ending
  BY <1>1, <1>2, CommandPlace
<1>5. /\ answer' = In /\ ph' = "eraseConfig"
      /\ UNCHANGED <<mode, config, eeprom, flash, base, skew, off, page, ready>>
  BY DEF WriteBootConfig, Answer
<1>6. config.state = BOOT_NORMAL /\ Complete
  BY <1>1, <1>4 DEF Prepared
<1>7. NoMessage.cmd = "RESET" /\ ~Good(NoMessage) /\ Pending' /\ answer'.cmd = "WRITE_BOOTCONFIG"
  BY <1>3, <1>5 DEF NoMessage, Boot, Msg, Good, Pending
<1>8. image' = image /\ Ending' = Ending /\ Final' = Final
  BY SameScript DEF hostVars
<1>9. ~Writing'
  BY <1>5 DEF Writing
<1>10. ModuleSound'
  <2>1. Whole'
    <3>1. Whole
      BY <1>1, <1>4, HostAssumption DEF Complete, Whole
    <3>2. QED
      BY <1>1, <1>5, <3>1, SameFlash
  <2>2. off' = PageSize => base' >= BootPage
    BY <1>1, <1>3, <1>5, <1>7 DEF ModuleSound
  <2>3. eeprom' = ErasedConfig \/ eeprom'.id = DefaultId
    BY <1>1, <1>5 DEF ModuleSound
  <2>4. skew' = 0
    BY <1>1, <1>5
  <2>5. QED
    BY <1>3, <1>5, <1>7, <1>9, <2>1, <2>2, <2>3, <2>4 DEF ModuleSound
<1>11. SavesImage'
  <2>1. ~answersLost => Programmed
    BY <1>1, <1>6 DEF Complete, Programmed
  <2>2. QED
    BY <1>5, <2>1, SameFlash DEF SavesImage
<1>12. Answers(h)'
  BY <1>1, <1>3, <1>4, <1>5, <1>8, AnswersTaken
<1>13. ~ChunksLeft'
  <2>1. Stage(In) = 5
    BY <1>3, Stages
  <2>2. QED
    BY <1>3, <1>7, <2>1, NoChunks
<1>14. Prepared(h)'
  <2>1. Answered("WRITE_BOOTCONFIG")' <=> Answered("WRITE_BOOTCONFIG")
    BY <1>3 DEF Answered
  <2>2. ~(h < Ending)
    BY <1>1, <1>4
  <2>3. h = Final \/ Answered("WRITE_BOOTCONFIG") => eeprom.state = BOOT_NORMAL
    BY <1>1, <1>3, <1>4, <1>7 DEF Prepared
  <2>4. QED
    BY <1>5, <1>6, <1>7, <1>8, <1>13, <2>1, <2>2, <2>3 DEF Prepared
<1>15. Complete'
  BY <1>1, <1>5, <1>6, <1>8, <1>13, CompleteKept DEF DevTypeOK, hostVars
<1>16. ~(h < 3) /\ ~(h < Ending)
  BY <1>1, <1>4
<1>17. QED
  BY <1>3, <1>10, <1>11, <1>12, <1>14, <1>15, <1>16, ModuleSteps

\* RESET is answered before the reset.
LEMMA AnswerFirstKeeps ==
    ASSUME NEW h, Uploading(h), Command("RESET"), AnswerFirst, UNCHANGED <<hostVars, answersLost>>,
           stored' = stored
    PROVE  Advanced(h)'
<1>1. /\ ModuleSound /\ image \in Images /\ h \in 1..Final /\ h \in Nat /\ Requests(h)
      /\ h >= 3 => Answers(h) /\ Prepared(h)
      /\ h >= Ending => Complete /\ stored = image
      /\ skew = 0 /\ stored' = stored
      /\ Ending \in Nat /\ Ending > 3 /\ Final = Ending + 2 /\ ImagePages \in Nat
      /\ Paths /\ Paths' /\ DevTypeOK
  BY Was
<1>2. "RESET" \in BootCommands
  BY DEF BootCommands
<1>3. /\ toDev # <<>> /\ Drop(toDev, toDev', 1) /\ toHost' = toHost /\ Drop(toHost, toHost', 0)
      /\ mode = "boot" /\ ph = "loop" /\ answer = NoMessage /\ ~Pending
      /\ In.cmd = "RESET" /\ ~IsAlive(In) /\ Sent(In, h) /\ AtLeast(toDev', Stage(In))
  BY <1>2, CommandTaken
<1>4. h = Final /\ h \in 3..Final /\ h >= 3 /\ h >= Ending /\ h > Ending
  BY <1>1, <1>2, CommandPlace
<1>5. /\ answer' = In /\ ph' = "reply"
      /\ UNCHANGED <<mode, config, eeprom, flash, base, skew, off, page, ready>>
  BY <1>3 DEF AnswerFirst, Answer
<1>6. config.state = BOOT_NORMAL /\ eeprom.state = BOOT_NORMAL /\ Complete
  <2>1. answer.cmd # "WRITE_BOOTCONFIG"
    BY <1>3 DEF NoMessage, Boot, Msg
  <2>2. QED
    BY <1>1, <1>3, <1>4, <2>1 DEF Prepared
<1>7. NoMessage.cmd = "RESET" /\ ~Good(NoMessage) /\ Pending' /\ answer'.cmd = "RESET"
  <2>1. NoMessage.cmd = "RESET" /\ ~Good(NoMessage) /\ NoMessage.dest = 0
    BY DEF NoMessage, Boot, Msg, Good
  <2>2. In.dest = DefaultId /\ DefaultId # 0
    <3>1. Echo(In, h)
      BY <1>3, SentEchoes
    <3>2. DefaultId \in 1..254
      BY OneModule DEF Uploading
    <3>3. In.dest = DefaultId
      BY <1>1, <3>1, Echoed
    <3>4. QED
      BY <3>2, <3>3
  <2>3. QED
    BY <1>3, <1>5, <2>1, <2>2 DEF Pending
<1>8. image' = image /\ Ending' = Ending /\ Final' = Final
  BY SameScript DEF hostVars
<1>9. ~Writing' /\ ~Saving'
  BY <1>5 DEF Writing, Saving
<1>10. ModuleSound' /\ SavesImage'
  <2>1. Whole'
    <3>1. Whole
      BY <1>1, <1>4, HostAssumption DEF Complete, Whole
    <3>2. QED
      BY <1>1, <1>5, <3>1, SameFlash
  <2>2. off' = PageSize => base' >= BootPage
    BY <1>1, <1>3, <1>5, <1>7 DEF ModuleSound
  <2>3. eeprom' = ErasedConfig \/ eeprom'.id = DefaultId
    BY <1>1, <1>5 DEF ModuleSound
  <2>4. skew' = 0
    BY <1>1, <1>5
  <2>5. QED
    BY <1>3, <1>5, <1>7, <1>9, <2>1, <2>2, <2>3, <2>4 DEF ModuleSound, SavesImage
<1>11. Answers(h)'
  BY <1>1, <1>3, <1>4, <1>5, <1>8, AnswersTaken
<1>12. ~ChunksLeft'
  <2>1. Stage(In) = 6
    BY <1>3, Stages
  <2>2. QED
    BY <1>3, <1>7, <2>1, NoChunks
<1>13. Prepared(h)'
  <2>1. ~(h < Ending)
    BY <1>1, <1>4
  <2>2. QED
    BY <1>5, <1>6, <1>7, <1>8, <1>12, <2>1 DEF Prepared
<1>14. Complete'
  BY <1>1, <1>5, <1>6, <1>8, <1>12, CompleteKept DEF DevTypeOK, hostVars
<1>15. ~(h < 3) /\ ~(h < Ending)
  BY <1>1, <1>4
<1>16. QED
  BY <1>3, <1>10, <1>11, <1>13, <1>14, <1>15, ModuleSteps

\* A command, of those an upload has.
LEMMA BootCommandKeeps ==
    ASSUME NEW h, Uploading(h), BootCommand, UNCHANGED <<hostVars, answersLost>>,
           stored' = stored
    PROVE  Advanced(h)'
<1>1. \A cmd \in BootCommands : Command(cmd) =>
         cmd \in {"SET_BASE_ADDR", "WRITE_INC", "SET_STATE", "WRITE_BOOTCONFIG", "RESET"}
  BY CommandPlace
<1>2. ~(SetDelay \/ NotImplemented)
  BY <1>1 DEF SetDelay, Set, NotImplemented, BootCommands
<1>3. \A cmd \in {"GET_BASE_ADDR", "GET_MODULE_ADDR", "GET_STATE", "GET_DELAY"} :
         \A v : ~Get(cmd, v)
  BY <1>1 DEF Get, BootCommands
<1>4. AnswerFirst => Command("RESET")
  BY <1>1 DEF AnswerFirst, BootCommands
<1>5. SetBaseAddr \/ SetState \/ AnswerFirst \/ WriteBootConfig \/ WriteInc
  BY <1>2, <1>3 DEF BootCommand
<1>6. QED
  BY <1>4, <1>5, SetBaseAddrKeeps, SetStateKeeps, AnswerFirstKeeps, WriteBootConfigKeeps,
     WriteIncKeeps

\* The steps of a handler on the memories leave messages alone.
LEMMA Quiet ==
    ASSUME NEW h, Uploading(h), UNCHANGED <<toDev, toHost, answer, hostVars, answersLost>>
    PROVE  /\ Drop(toDev, toDev', 0)
           /\ h >= 3 => Answers(h)'
           /\ (ChunksLeft' <=> ChunksLeft) /\ \A cmd : Answered(cmd)' <=> Answered(cmd)
           /\ Ending' = Ending /\ Final' = Final
           /\ (Pending' <=> Pending) /\ answer' = answer
           /\ SameStore => (h >= 3 /\ h < Ending => (active => Received(h)'))
           /\ (\A p \in 0..ImagePages-1 : flash'[p] = flash[p]) /\ (base' = base \/ base' = base + 1) =>
                 (h >= Ending => Complete')
           /\ (Based => Based') => (h < 3 => StaleAnswers')
<1>1. /\ h \in Nat /\ Paths /\ Paths' /\ DevTypeOK /\ ImagePages \in Nat
      /\ h < 3 => StaleAnswers
      /\ h >= 3 => Answers(h) /\ Prepared(h)
      /\ h >= 3 /\ h < Ending => (active => Received(h))
      /\ h >= Ending => Complete
  BY Was
<1>2. Drop(toDev, toDev', 0) /\ Drop(toHost, toHost', 0)
  BY <1>1, PathSteps DEF Paths
<1>3. image' = image /\ Ending' = Ending /\ Final' = Final
  BY SameScript DEF hostVars
<1>4. h >= 3 => Answers(h)'
  BY <1>1, <1>2, <1>3, AnswersPassed
<1>5. (ChunksLeft' <=> ChunksLeft) /\ (\A cmd : Answered(cmd)' <=> Answered(cmd)) /\ (Pending' <=> Pending)
  BY DEF ChunksLeft, Answered, Pending
<1>6. SameStore => (h >= 3 /\ h < Ending => (active => Received(h)'))
  BY <1>1, ReceivedKept
<1>7. (\A p \in 0..ImagePages-1 : flash'[p] = flash[p]) /\ (base' = base \/ base' = base + 1) =>
         (h >= Ending => Complete')
  BY <1>1, <1>3, <1>5, CompleteKept DEF DevTypeOK
<1>8. (Based => Based') => (h < 3 => StaleAnswers')
  BY <1>1, <1>2, StaleKept
<1>9. QED
  BY <1>2, <1>3, <1>4, <1>5, <1>6, <1>7, <1>8

\* The configuration is being saved, or has been, for the end of the upload.
LEMMA Late ==
    ASSUME NEW h, Uploading(h), h >= 3,
           h = Final \/ Answered("WRITE_BOOTCONFIG") \/ answer.cmd = "WRITE_BOOTCONFIG"
    PROVE  h > Ending /\ config.state = BOOT_NORMAL
<1>1. /\ image \in Images /\ h \in 1..Final /\ h \in Nat /\ Answers(h) /\ Prepared(h)
      /\ Ending \in Nat /\ Ending > 3 /\ Final = Ending + 2
  BY Was
<1>2. ASSUME NEW m, Echo(m, h), m.cmd = "WRITE_BOOTCONFIG"
      PROVE  h > Ending
  <2>1. PICK i \in 1..h : m.cmd = CommandAt(i)
    BY <1>1, <1>2, Echoed
  <2>2. i = Ending + 1
    BY <1>2, <2>1 DEF CommandAt
  <2>3. QED
    BY <1>1, <2>2
<1>3. NoMessage.cmd # "WRITE_BOOTCONFIG"
  BY DEF NoMessage, Boot, Msg
<1>4. h > Ending
  <2>1. CASE h = Final
    BY <1>1, <2>1
  <2>2. CASE Answered("WRITE_BOOTCONFIG")
    <3>1. PICK i \in 1..Len(toHost) : toHost[i].cmd = "WRITE_BOOTCONFIG"
      BY <2>2 DEF Answered
    <3>2. Echo(toHost[i], h)
      BY <1>1, <3>1 DEF Answers, IsAlive
    <3>3. QED
      BY <1>2, <3>1, <3>2
  <2>3. CASE answer.cmd = "WRITE_BOOTCONFIG"
    BY <1>1, <1>2, <1>3, <2>3 DEF Answers, Pending
  <2>4. QED
    BY <2>1, <2>2, <2>3
<1>5. QED
  BY <1>1, <1>4 DEF Prepared

\* The EEPROM row is erased: the module is as sound.
LEMMA EraseConfigSound ==
    ASSUME ModuleSound, SavesImage, EraseConfig, answersLost' = answersLost, stored' = stored
    PROVE  ModuleSound' /\ SavesImage' /\ eeprom'.state # BOOT_NORMAL /\ ~Based /\ Saving
<1>1. /\ ph = "eraseConfig" /\ eeprom' = ErasedConfig /\ ph' = "programConfig"
      /\ UNCHANGED <<mode, config, flash, base, skew, off, page, ready, answer, toDev, toHost>>
  BY DEF EraseConfig, linkVars
<1>2. ~Based /\ Saving /\ Saving' /\ ~Writing' /\ eeprom'.state # BOOT_NORMAL
  BY <1>1 DEF Based, Saving, Writing, ErasedConfig, BOOT_NORMAL
<1>3. (Whole' <=> Whole) /\ (Programmed' <=> Programmed) /\ (Pending' <=> Pending)
  BY <1>1, SameFlash DEF Pending
<1>4. SavesImage'
  BY <1>1, <1>2, <1>3 DEF SavesImage
<1>5. ModuleSound'
  BY <1>1, <1>2, <1>3 DEF ModuleSound
<1>6. QED
  BY <1>2, <1>4, <1>5

\* The EEPROM row is erased.
LEMMA EraseConfigKeeps ==
    ASSUME NEW h, Uploading(h), EraseConfig, UNCHANGED <<hostVars, answersLost>>,
           stored' = stored
    PROVE  Advanced(h)'
<1>1. /\ ModuleSound /\ SavesImage /\ h \in Nat /\ (h >= 3 => Prepared(h))
  BY Was
<1>2. /\ ph = "eraseConfig" /\ eeprom' = ErasedConfig /\ ph' = "programConfig"
      /\ UNCHANGED <<mode, config, flash, base, skew, off, page, ready, answer, toDev, toHost>>
  BY DEF EraseConfig, linkVars
<1>3. /\ Drop(toDev, toDev', 0)
      /\ h >= 3 => Answers(h)'
      /\ (ChunksLeft' <=> ChunksLeft) /\ \A cmd : Answered(cmd)' <=> Answered(cmd)
      /\ Ending' = Ending /\ Final' = Final /\ (Pending' <=> Pending)
      /\ SameStore => (h >= 3 /\ h < Ending => (active => Received(h)'))
      /\ h >= Ending => Complete'
      /\ (Based => Based') => (h < 3 => StaleAnswers')
  BY <1>2, Quiet
<1>4. SameStore
  BY <1>2, StoreKept DEF hostVars
<1>5. ModuleSound' /\ SavesImage' /\ eeprom'.state # BOOT_NORMAL /\ ~Based /\ Saving
  BY <1>1, EraseConfigSound
<1>6. ASSUME h >= 3
      PROVE  Prepared(h)'
  <2>1. Loading => Loading'
    BY <1>2, <1>5 DEF Loading
  <2>2. \/ h = Final
        \/ Answered("WRITE_BOOTCONFIG")
        \/ answer.cmd = "WRITE_BOOTCONFIG"
        => answer.cmd = "WRITE_BOOTCONFIG"
    <3>1. SUFFICES ASSUME h = Final \/ Answered("WRITE_BOOTCONFIG") PROVE answer.cmd = "WRITE_BOOTCONFIG"
      OBVIOUS
    <3>2. config.state = BOOT_NORMAL
      BY <1>6, <3>1, Late
    <3>3. QED
      BY <1>1, <1>5, <3>2 DEF ModuleSound
  <2>3. QED
    BY <1>1, <1>2, <1>3, <1>6, <2>1, <2>2 DEF Prepared
<1>7. QED
  BY <1>3, <1>4, <1>5, <1>6, ModuleSteps

\* The EEPROM row is programmed: the module is as sound, and a full page follows.
LEMMA ProgramConfigSound ==
    ASSUME ModuleSound, SavesImage, ProgramConfig, DevTypeOK, config.id = DefaultId, stored' = stored
    PROVE  /\ ModuleSound' /\ SavesImage' /\ ~Based
           /\ \/ ph' = "loop" /\ answer = NoMessage
              \/ ph' = "erasePage" /\ answer.cmd = "WRITE_INC"
              \/ ph' = "reply" /\ answer # NoMessage /\ answer.cmd # "WRITE_INC"
<1>1. /\ ph = "programConfig" /\ eeprom' = config
      /\ UNCHANGED <<mode, config, flash, base, skew, off, page, ready, answer, toDev, toHost>>
  BY DEF ProgramConfig, linkVars
<1>2. Pending' <=> Pending
  BY <1>1 DEF Pending
<1>3. ~Based /\ Saving
  BY <1>1 DEF Based, Saving
<1>4. NoMessage.cmd = "RESET" /\ (Good(answer) => answer.cmd = "WRITE_INC")
  BY DEF NoMessage, Boot, Msg, Good
<1>5. \/ ph' = "loop" /\ answer = NoMessage
      \/ ph' = "erasePage" /\ answer.cmd = "WRITE_INC"
      \/ ph' = "reply" /\ answer # NoMessage /\ answer.cmd # "WRITE_INC"
  BY <1>4 DEF ProgramConfig, ModuleSound, Pending
<1>6. ~Saving' /\ (Writing' <=> ph' = "erasePage")
  BY <1>5 DEF Saving, Writing
<1>7. Whole' <=> Whole
  BY <1>1, SameFlash
<1>8. ModuleSound' /\ SavesImage'
  <2>1. SavesImage'
    BY <1>6 DEF SavesImage
  <2>2. mode' = "boot" /\ answer.cmd # "SET_BASE_ADDR"
    BY <1>1, <1>3 DEF ModuleSound, DevTypeOK
  <2>3. Writing' => /\ config'.state # BOOT_NORMAL /\ eeprom'.state # BOOT_NORMAL
                    /\ Good(answer') /\ base' < BootPage /\ off' = PageSize
    BY <1>1, <1>3, <1>4, <1>5, <1>6, DeviceAssumption DEF ModuleSound, Pending
  <2>4. off' = PageSize => base' >= BootPage \/ (Good(answer') /\ Writing')
    BY <1>1, <1>4, <1>5, <1>6 DEF ModuleSound
  <2>5. (config'.state = BOOT_NORMAL \/ eeprom'.state = BOOT_NORMAL => Whole') /\ eeprom'.id = DefaultId
    BY <1>1, <1>7 DEF ModuleSound
  <2>6. /\ ph' \in {"loop", "reset"} => ~Pending'
        /\ ph' = "reply" => Pending'
    BY <1>2, <1>5 DEF Pending
  <2>7. Pending' => answer'.cmd \in {"SET_BASE_ADDR", "WRITE_INC", "SET_STATE",
                                     "WRITE_BOOTCONFIG", "RESET"}
    BY <1>1, <1>2 DEF ModuleSound
  <2>8. QED
    BY <1>1, <1>6, <2>1, <2>2, <2>3, <2>4, <2>5, <2>6, <2>7 DEF ModuleSound
<1>9. QED
  BY <1>3, <1>5, <1>8

\* The EEPROM row is programmed.
LEMMA ProgramConfigKeeps ==
    ASSUME NEW h, Uploading(h), ProgramConfig, UNCHANGED <<hostVars, answersLost>>,
           stored' = stored
    PROVE  Advanced(h)'
<1>1. /\ ModuleSound /\ SavesImage /\ h \in Nat /\ (h >= 3 => Prepared(h)) /\ Inv /\ Alone
      /\ config.id = DefaultId /\ DevTypeOK
  BY Was, OneModule
<1>2. /\ ph = "programConfig" /\ eeprom' = config
      /\ UNCHANGED <<mode, config, flash, base, skew, off, page, ready, answer, toDev, toHost>>
  BY DEF ProgramConfig, linkVars
<1>3. /\ Drop(toDev, toDev', 0)
      /\ h >= 3 => Answers(h)'
      /\ (ChunksLeft' <=> ChunksLeft) /\ \A cmd : Answered(cmd)' <=> Answered(cmd)
      /\ Ending' = Ending /\ Final' = Final /\ (Pending' <=> Pending)
      /\ SameStore => (h >= 3 /\ h < Ending => (active => Received(h)'))
      /\ h >= Ending => Complete'
      /\ (Based => Based') => (h < 3 => StaleAnswers')
  BY <1>2, Quiet
<1>4. SameStore
  BY <1>2, StoreKept DEF hostVars
<1>5. /\ ModuleSound' /\ SavesImage' /\ ~Based
      /\ \/ ph' = "loop" /\ answer = NoMessage
         \/ ph' = "erasePage" /\ answer.cmd = "WRITE_INC"
         \/ ph' = "reply" /\ answer # NoMessage /\ answer.cmd # "WRITE_INC"
  BY <1>1, ProgramConfigSound
<1>6. ASSUME h >= 3
      PROVE  Prepared(h)'
  <2>1. Loading => Loading'
    BY <1>2, <1>5 DEF Loading
  <2>2. h = Final \/ Answered("WRITE_BOOTCONFIG") \/ answer.cmd = "WRITE_BOOTCONFIG"
        => config.state = BOOT_NORMAL
    BY <1>6, Late
  <2>3. ph' # "reset"
    BY <1>5
  <2>4. QED
    BY <1>1, <1>2, <1>3, <1>6, <2>1, <2>2, <2>3 DEF Prepared
<1>7. QED
  BY <1>3, <1>4, <1>5, <1>6, ModuleSteps

\* A page is erased or programmed: the module cannot boot, and once every page
\* of the image has been written the address is beyond them.
LEMMA PageKeeps ==
    ASSUME NEW h, Uploading(h), ErasePage \/ ProgramPage, UNCHANGED <<hostVars, answersLost>>
    PROVE  Advanced(h)'
<1>1. /\ ModuleSound /\ SavesImage /\ h \in Nat /\ (h >= 3 => Prepared(h)) /\ DevTypeOK /\ DevTypeOK'
      /\ (h >= Ending => Complete) /\ ImagePages \in Nat
  BY Was
<1>2. /\ ph \in {"erasePage", "programPage"} /\ ph' \in {"programPage", "reply"}
      /\ UNCHANGED <<mode, config, eeprom, skew, page, ready, answer, toDev, toHost>>
      /\ \E p \in {BlankPage, page} : flash' = [flash EXCEPT ![base] = p]
      /\ (base' = base /\ off' = off /\ ph' = "programPage")
         \/ (base' = base + 1 /\ off' = 0 /\ ph' = "reply")
  BY <1>1, PageProgrammed DEF ErasePage, ProgramPage, ModuleSound, linkVars
<1>3. /\ Drop(toDev, toDev', 0)
      /\ h >= 3 => Answers(h)'
      /\ (ChunksLeft' <=> ChunksLeft) /\ \A cmd : Answered(cmd)' <=> Answered(cmd)
      /\ Ending' = Ending /\ Final' = Final /\ (Pending' <=> Pending)
      /\ SameStore => (h >= 3 /\ h < Ending => (active => Received(h)'))
      /\ (\A p \in 0..ImagePages-1 : flash'[p] = flash[p]) /\ (base' = base \/ base' = base + 1) =>
            (h >= Ending => Complete')
      /\ (Based => Based') => (h < 3 => StaleAnswers')
  BY <1>2, Quiet
<1>4. Writing /\ ~Based /\ ~Saving /\ ~Saving'
  BY <1>2 DEF Based, Saving, Writing
<1>5. /\ config.state # BOOT_NORMAL /\ eeprom.state # BOOT_NORMAL
      /\ Good(answer) /\ base < BootPage /\ off = PageSize /\ mode = "boot"
  BY <1>1, <1>2, <1>4 DEF ModuleSound, DevTypeOK
<1>6. answer.cmd = "WRITE_INC" /\ Pending /\ PageSize # 0
  BY <1>5, DeviceAssumption DEF Good, Pending, NoMessage, Boot, Msg
<1>7. SameStore
  BY <1>1, <1>5, PageWritten DEF ModuleSound, hostVars
<1>8. ModuleSound' /\ SavesImage'
  <2>1. SavesImage'
    BY <1>4 DEF SavesImage
  <2>2. eeprom' = ErasedConfig \/ eeprom'.id = DefaultId
    BY <1>1, <1>2 DEF ModuleSound
  <2>3. Writing' <=> ph' = "programPage"
    BY <1>2 DEF Writing
  <2>4. skew' = 0
    BY <1>1, <1>2 DEF ModuleSound
  <2>5. QED
    BY <1>2, <1>3, <1>4, <1>5, <1>6, <2>1, <2>2, <2>3, <2>4 DEF ModuleSound
<1>9. h >= Ending => Complete'
  <2>1. SUFFICES ASSUME h >= Ending PROVE Complete'
    OBVIOUS
  <2>2. base >= ImagePages /\ base \in Nat
    BY <1>1, <1>6, <2>1 DEF Complete, ChunksLeft, DevTypeOK
  <2>3. \A p \in 0..ImagePages-1 : flash'[p] = flash[p]
    BY <1>1, <1>2, <2>2 DEF DevTypeOK
  <2>4. QED
    BY <1>2, <1>3, <2>1, <2>3
<1>10. ASSUME h >= 3
       PROVE  Prepared(h)'
  <2>1. Loading => Loading'
    BY <1>2, <1>5 DEF Loading
  <2>2. ph' # "reset"
    BY <1>2
  <2>3. QED
    BY <1>1, <1>2, <1>3, <1>6, <1>10, <2>1, <2>2 DEF Prepared
<1>11. QED
  BY <1>3, <1>4, <1>7, <1>8, <1>9, <1>10, ModuleSteps

\* The answer is sent.
LEMMA ReplyKeeps ==
    ASSUME NEW h, Uploading(h), Reply, UNCHANGED <<hostVars, answersLost>>,
           stored' = stored
    PROVE  Advanced(h)'
<1>1. /\ ModuleSound /\ image \in Images /\ h \in 1..Final /\ h \in Nat
      /\ h < 3 => StaleAnswers
      /\ h >= 3 => Answers(h) /\ Prepared(h)
      /\ h >= 3 /\ h < Ending => (active => Received(h))
      /\ h >= Ending => Complete
      /\ Ending \in Nat /\ Ending > 3 /\ Final = Ending + 2 /\ ImagePages \in Nat
      /\ Paths /\ Paths' /\ DevTypeOK
  BY Was
<1>2. ph = "reply" /\ Pending /\ answer.cmd # "SET_MODULE_ADDR"
  BY <1>1 DEF Reply, ModuleSound
<1>3. /\ ToHost(answer) /\ answer' = NoMessage /\ ph' = IF answer.cmd = "RESET" THEN "reset" ELSE "loop"
      /\ UNCHANGED <<mode, config, eeprom, flash, base, skew, off, page, ready, toDev>>
  BY <1>2 DEF Reply
<1>4. Drop(toDev, toDev', 0) /\ Appended(toHost, toHost', answer) /\ answer \in Message
  BY <1>1, <1>3, PathSteps DEF Paths, ToHost
<1>5. image' = image /\ Ending' = Ending /\ Final' = Final
  BY SameScript DEF hostVars
<1>6. NoMessage.cmd = "RESET" /\ ~Pending' /\ ~Saving /\ ~Writing /\ ~Saving' /\ ~Writing'
  BY <1>2, <1>3 DEF NoMessage, Boot, Msg, Pending, Saving, Writing
<1>7. ModuleSound' /\ SavesImage'
  <2>1. Whole' <=> Whole
    BY <1>3, SameFlash
  <2>2. ph' \in {"loop", "reset"} /\ mode' = "boot"
    BY <1>1, <1>2, <1>3 DEF ModuleSound, DevTypeOK
  <2>3. /\ config'.state = BOOT_NORMAL \/ eeprom'.state = BOOT_NORMAL => Whole'
        /\ eeprom' = ErasedConfig \/ eeprom'.id = DefaultId
        /\ off' = PageSize => base' >= BootPage
    BY <1>1, <1>3, <1>6, <2>1 DEF ModuleSound
  <2>4. skew' = 0
    BY <1>1, <1>3 DEF ModuleSound
  <2>5. QED
    BY <1>3, <1>6, <2>2, <2>3, <2>4 DEF ModuleSound, SavesImage
<1>8. h < 3 => StaleAnswers'
  <2>1. answer.cmd = "SET_BASE_ADDR" => Based
    BY <1>1 DEF ModuleSound
  <2>2. Based => answer = SetBaseAddress(DefaultId) /\ answer.cmd = "SET_BASE_ADDR" /\ ph' = "loop"
    BY <1>2, <1>3 DEF Based, Pending, SetBaseAddress, Boot, Msg
  <2>3. Based => Based'
    BY <1>3, <2>2 DEF Based
  <2>4. answer = SetBaseAddress(DefaultId) => Based'
    BY <2>1, <2>3 DEF SetBaseAddress, Boot, Msg
  <2>5. QED
    BY <1>1, <1>4, <2>2, <2>3, <2>4, StaleAppended
<1>9. ChunksLeft' => ChunksLeft
  BY <1>1, <1>3, <1>4, ChunksAfter
<1>10. \A cmd : Answered(cmd)' => Answered(cmd) \/ answer.cmd = cmd
  BY <1>1, <1>4, AnsweredMore
<1>11. ASSUME h >= 3
       PROVE  Answers(h)' /\ Prepared(h)'
  <2>1. h \in 3..Final
    BY <1>1, <1>11
  <2>2. Answers(h)'
    BY <1>1, <1>2, <1>3, <1>4, <1>5, <1>11, <2>1, AnswersReplied
  <2>3. ASSUME ph' = "reset"
        PROVE  h = Final /\ ~ChunksLeft'
    <3>1. answer.cmd = "RESET"
      BY <1>3, <2>3
    <3>2. Echo(answer, h)
      BY <1>1, <1>2, <1>11 DEF Answers
    <3>3. PICK i \in 1..h : answer.cmd = CommandAt(i)
      BY <1>1, <3>2, Echoed
    <3>4. i > Ending + 1
      BY <1>1, <3>1, <3>3 DEF CommandAt
    <3>5. h = Final
      BY <1>1, <3>4
    <3>6. AtLeast(toDev', 5)
      <4>1. h - 1 \in 1..Final /\ ~(h - 1 <= 2) /\ ~(h - 1 < Ending) /\ 4 + ((h - 1) - Ending) = 5
        BY <1>1, <3>5
      <4>2. Stage(Script[h - 1]) = 5
        BY <1>1, <4>1, ScriptStages
      <4>3. QED
        BY <1>1, <1>3, <1>11, <4>2 DEF Answers
    <3>7. ~ChunksLeft'
      BY <1>3, <1>6, <3>6, NoChunks
    <3>8. QED
      BY <3>5, <3>7
  <2>4. h < Ending \/ ChunksLeft' => Loading'
    <3>1. SUFFICES ASSUME h < Ending \/ ChunksLeft' PROVE Loading'
      OBVIOUS
    <3>2. ph' # "reset"
      BY <1>1, <2>3, <3>1
    <3>3. Loading
      BY <1>1, <1>9, <1>11, <3>1 DEF Prepared
    <3>4. QED
      BY <1>3, <3>2, <3>3 DEF Loading
  <2>5. h > Ending \/ Answered("SET_STATE")' \/ answer'.cmd = "SET_STATE" => config'.state = BOOT_NORMAL
    BY <1>1, <1>3, <1>6, <1>10, <1>11 DEF Prepared
  <2>6. h = Final \/ Answered("WRITE_BOOTCONFIG")' => eeprom'.state = BOOT_NORMAL
    BY <1>1, <1>2, <1>3, <1>10, <1>11 DEF Prepared
  <2>7. QED
    BY <1>3, <1>5, <1>6, <2>2, <2>3, <2>4, <2>5, <2>6 DEF Prepared
<1>12. h >= 3 /\ h < Ending => (active => Received(h)')
  <2>1. SameStore
    BY <1>3, <1>5, StoreKept
  <2>2. QED
    BY <1>1, <1>3, <1>4, <2>1, ReceivedAppended
<1>13. h >= Ending => Complete'
  BY <1>1, <1>3, <1>5, <1>9, CompleteKept DEF DevTypeOK
<1>14. QED
  BY <1>4, <1>7, <1>8, <1>11, <1>12, <1>13, ModuleSteps

\* The application is started when it is whole; the timer does nothing else.
LEMMA StartSound ==
    ASSUME ModuleSound, StartApp \/ Tick, stored' = stored
    PROVE  /\ ModuleSound' /\ SavesImage'
           /\ (Based => Based') /\ (Loading => Loading')
<1>1. /\ mode = "boot" /\ ph = "loop"
      /\ (mode' = "app" /\ config.state = BOOT_NORMAL) \/ mode' = "boot"
      /\ UNCHANGED <<config, eeprom, flash, base, skew, off, page, ready, ph, answer, toDev, toHost>>
  BY DEF StartApp, Tick, linkVars
<1>2. (Whole' <=> Whole) /\ (Pending' <=> Pending) /\ ~Saving' /\ ~Writing'
  BY <1>1, SameFlash DEF Pending, Saving, Writing
<1>3. (Based => Based') /\ (Loading => Loading')
  BY <1>1 DEF Based, Loading
<1>4. SavesImage'
  BY <1>2 DEF SavesImage
<1>5. ModuleSound'
  <2>1. off' = PageSize => base' >= BootPage
    BY <1>1 DEF ModuleSound, Saving, Writing
  <2>2. QED
    BY <1>1, <1>2, <1>3, <2>1 DEF ModuleSound
<1>6. QED
  BY <1>3, <1>4, <1>5

\* The application is started, or the timer counts.
LEMMA StartKeeps ==
    ASSUME NEW h, Uploading(h), StartApp \/ Tick, UNCHANGED <<hostVars, answersLost>>,
           stored' = stored
    PROVE  Advanced(h)'
<1>1. /\ ModuleSound /\ SavesImage /\ h \in Nat /\ (h >= 3 => Prepared(h))
  BY Was
<1>2. /\ mode = "boot" /\ ph = "loop"
      /\ (mode' = "app" /\ config.state = BOOT_NORMAL) \/ mode' = "boot"
      /\ UNCHANGED <<config, eeprom, flash, base, skew, off, page, ready, ph, answer, toDev, toHost>>
  BY DEF StartApp, Tick, linkVars
<1>3. /\ Drop(toDev, toDev', 0)
      /\ h >= 3 => Answers(h)'
      /\ (ChunksLeft' <=> ChunksLeft) /\ \A cmd : Answered(cmd)' <=> Answered(cmd)
      /\ Ending' = Ending /\ Final' = Final /\ (Pending' <=> Pending)
      /\ SameStore => (h >= 3 /\ h < Ending => (active => Received(h)'))
      /\ h >= Ending => Complete'
      /\ (Based => Based') => (h < 3 => StaleAnswers')
  BY <1>2, Quiet
<1>4. SameStore
  BY <1>2, StoreKept DEF hostVars
<1>5. ModuleSound' /\ SavesImage' /\ (Based => Based') /\ (Loading => Loading')
  BY <1>1, StartSound
<1>6. h >= 3 => Prepared(h)'
  BY <1>1, <1>2, <1>3, <1>5 DEF Prepared
<1>7. QED
  BY <1>3, <1>4, <1>5, <1>6, ModuleSteps

\* No step but the one that erases a page changes what flash was erased for.
LEMMA StoredKept ==
    ASSUME DevNext, Stores, ~ErasePage
    PROVE  stored' = stored
<1>1. ~(ph = "erasePage" /\ ph' = "programPage")
  <2>1. ASSUME Restart PROVE ph' \in {"eraseConfig", "loop"}
    BY <2>1 DEF Restart
  <2>2. ASSUME BootCommand PROVE ph = "loop"
    BY <2>2 DEF BootCommand, SetBaseAddr, SetState, SetDelay, Set, Get, NotImplemented,
                AnswerFirst, WriteBootConfig, WriteInc, Command, Receive
  <2>3. ASSUME Filtered \/ BootAlive \/ AppAlive \/ Ignore
        PROVE  ph' = ph
    BY <2>3 DEF Filtered, BootAlive, AppAlive, Ignore, devVars
  <2>4. ASSUME EraseConfig \/ ProgramConfig \/ ProgramPage \/ Reply \/ StartApp \/ Tick
        PROVE  ph # "erasePage"
    BY <2>4 DEF EraseConfig, ProgramConfig, ProgramPage, Reply, StartApp, Tick
  <2>5. QED
    BY <2>1, <2>2, <2>3, <2>4 DEF DevNext, DevStep, AppReset, DoReset, PowerLoss
<1>2. QED
  BY <1>1 DEF Stores

\* A page is erased for the image of the upload, and the address does not leave
\* the first page, nor is a page programmed, before one is erased.
LEMMA DevFromImage ==
    ASSUME NEW h, Uploading(h), DevNext, Stores, UNCHANGED hostVars
    PROVE  FromImage(h)'
<1>1. FromImage(h) /\ image \in Images /\ DevTypeOK /\ skew = 0
  BY Was DEF Uploading
<1>2. image' = image /\ active' = active /\ Ending' = Ending
  BY SameHost, SameScript
<1>3. CASE ErasePage
  BY <1>2, <1>3 DEF ErasePage, Stores, FromImage
<1>4. CASE ~ErasePage
  <2>1. stored' = stored
    BY <1>4, StoredKept
  <2>2. base' > 0 \/ ph' = "programPage" => base > 0 \/ ph = "programPage"
    <3>1. base \in Nat
      BY <1>1 DEF DevTypeOK
    <3>2. ASSUME Restart PROVE base' = 0 /\ ph' # "programPage"
      BY <3>2 DEF Restart
    <3>3. ASSUME SetBaseAddr PROVE base' = 0 /\ ph' # "programPage"
      <4>1. "SET_BASE_ADDR" \in BootCommands /\ Command("SET_BASE_ADDR")
        BY <3>3 DEF SetBaseAddr, BootCommands
      <4>2. In.data[1] = 0
        <5>1. In = SetBaseAddress(DefaultId)
          BY <4>1, CommandPlace
        <5>2. QED
          BY <5>1 DEF SetBaseAddress, Boot, Msg
      <4>3. QED
        BY <3>3, <4>2, Addresses DEF SetBaseAddr
    <3>4. ASSUME BootCommand, ~SetBaseAddr PROVE base' = base /\ ph' # "programPage"
      BY <3>4 DEF BootCommand, SetState, SetDelay, Set, Get, NotImplemented,
                  AnswerFirst, WriteBootConfig, WriteInc
    <3>5. ASSUME Filtered \/ BootAlive \/ AppAlive \/ Ignore
          PROVE  base' = base /\ ph' = ph
      BY <3>5 DEF Filtered, BootAlive, AppAlive, Ignore, devVars
    <3>6. ASSUME EraseConfig \/ ProgramConfig \/ Reply \/ StartApp \/ Tick
          PROVE  base' = base /\ (ph' = ph \/ ph' # "programPage")
      <4>1. ASSUME ProgramConfig PROVE base' = base /\ ph' # "programPage"
        BY <4>1 DEF ProgramConfig
      <4>2. ASSUME Reply PROVE base' = base /\ ph' # "programPage"
        BY <4>2 DEF Reply, SaveId
      <4>3. ASSUME EraseConfig \/ StartApp \/ Tick
            PROVE  base' = base /\ (ph' = ph \/ ph' # "programPage")
        BY <4>3 DEF EraseConfig, StartApp, Tick
      <4>4. QED
        BY <3>6, <4>1, <4>2, <4>3
    <3>7. ASSUME ProgramPage PROVE ph = "programPage"
      BY <3>7 DEF ProgramPage
    <3>8. QED
      BY <1>4, <3>1, <3>2, <3>3, <3>4, <3>5, <3>6, <3>7
         DEF DevNext, DevStep, AppReset, DoReset, PowerLoss
  <2>3. QED
    BY <1>1, <1>2, <2>1, <2>2 DEF FromImage, FirstChunk
<1>5. QED
  BY <1>3, <1>4

\* Whatever the module does.
LEMMA DevNextKeeps ==
    ASSUME NEW h, Uploading(h), DevNext, Stores, UNCHANGED <<hostVars, answersLost>>
    PROVE  TransferInv'
<1>0. ASSUME Advanced(h)' PROVE TransferInv'
  BY <1>0, DevFromImage, Continues
<1>1. ~PowerLoss
  BY DEF Uploading, Alone, PowerLoss
<1>2. Paths /\ Inv
  BY Was
<1>a. CASE ErasePage
  BY <1>0, <1>a, PageKeeps
<1>b. ASSUME ~ErasePage PROVE stored' = stored
  BY <1>b, StoredKept
<1>3. CASE ~ErasePage /\ (Filtered \/ Ignore)
  BY <1>b, <1>3, TakeKeeps DEF Filtered, Ignore, Receive
<1>4. CASE ~ErasePage /\ (BootAlive \/ AppAlive)
  <2>1. PICK s : /\ ToHost(AliveAnswer(s, config.id)) /\ toDev # <<>> /\ toDev' = Tail(toDev)
                 /\ UNCHANGED devVars /\ s \in Nat /\ config.id \in Nat
    <3>1. DevTypeOK
      BY Was
    <3>2. QED
      BY <1>4, <3>1 DEF BootAlive, AppAlive, Receive, DevTypeOK, Config, BOOT_IDLE
  <2>2. AliveAnswer(s, config.id) \in Message /\ IsAlive(AliveAnswer(s, config.id))
    BY <2>1 DEF AliveAnswer, Msg, Message, IsAlive
  <2>3. QED
    BY <1>b, <1>4, <2>1, <2>2, AliveKeeps
<1>5. CASE ~ErasePage /\ (AppReset \/ DoReset)
  BY <1>0, <1>b, <1>5, AppResetKeeps, DoResetKeeps
<1>6. CASE ~ErasePage /\ BootCommand
  BY <1>0, <1>b, <1>6, BootCommandKeeps
<1>7. CASE ~ErasePage /\ (EraseConfig \/ ProgramConfig \/ ProgramPage \/ Reply)
  BY <1>0, <1>b, <1>7, EraseConfigKeeps, ProgramConfigKeeps, PageKeeps, ReplyKeeps
<1>8. CASE ~ErasePage /\ (StartApp \/ Tick)
  BY <1>0, <1>b, <1>8, StartKeeps
<1>9. QED
  BY <1>1, <1>a, <1>3, <1>4, <1>5, <1>6, <1>7, <1>8 DEF DevNext, DevStep

-----------------------------------------------------------------------------
(* Before the first upload.                                                 *)
\* Nothing has been uploaded, and only alive requests and answers are on the way.
Idle ==
    /\ Alone /\ Inv /\ Inv'
    /\ ModuleSound /\ SavesImage /\ HostSound
    /\ image = NoImage /\ NothingSent

\* Messages that leave the paths, and alive ones that come.
LEMMA IdlePaths ==
    ASSUME Idle, image' = NoImage, outcome' # "done", ModuleSound', SavesImage', HostSound',
           ~Pending', NEW n, Drop(toDev, toDev', n) \/ Appended(toDev, toDev', AliveRequest),
           \/ \E k : Drop(toHost, toHost', k)
           \/ \E m \in Message : IsAlive(m) /\ Appended(toHost, toHost', m)
    PROVE  TransferInv'
<1>1. Paths
  BY OneModule DEF Idle
<1>2. Paths'
  <2>1. TypeOK'
    BY DEF Idle, Inv
  <2>2. QED
    BY <2>1 DEF TypeOK, ModuleTypeOK, LinkTypeOK, DevTypeOK, Paths, AnswerMessage
<1>3. AliveRequest \in Message
  <2>1. <<>> \in Seq(Nat)
    OBVIOUS
  <2>2. QED
    BY <2>1 DEF AliveRequest, Msg, Message, Broadcast
<1>4. \A i \in 1..Len(toDev') : toDev'[i] = AliveRequest
  <2>1. \A i \in 1..Len(toDev) : toDev[i] = AliveRequest
    BY DEF Idle, NothingSent
  <2>2. CASE Drop(toDev, toDev', n)
    <3>1. \A i \in 1..Len(toDev') : \E j \in 1..Len(toDev) : toDev'[i] = toDev[j]
      BY <1>1, <1>2, <2>2, Dropped DEF Paths
    <3>2. QED
      BY <2>1, <3>1
  <2>3. CASE Appended(toDev, toDev', AliveRequest)
    <3>1. \A i \in 1..Len(toDev') :
             (i \in 1..Len(toDev) /\ toDev'[i] = toDev[i]) \/ toDev'[i] = AliveRequest
      BY <1>1, <1>2, <1>3, <2>3, Extended DEF Paths
    <3>2. QED
      BY <2>1, <3>1
  <2>4. QED
    BY <2>2, <2>3
<1>5. \A i \in 1..Len(toHost') : IsAlive(toHost'[i])
  <2>1. \A i \in 1..Len(toHost) : IsAlive(toHost[i])
    BY DEF Idle, NothingSent
  <2>2. CASE \E k : Drop(toHost, toHost', k)
    <3>1. PICK k : Drop(toHost, toHost', k)
      BY <2>2
    <3>2. \A i \in 1..Len(toHost') : \E j \in 1..Len(toHost) : toHost'[i] = toHost[j]
      BY <1>1, <1>2, <3>1, Dropped DEF Paths
    <3>3. QED
      BY <2>1, <3>2
  <2>3. CASE \E m \in Message : IsAlive(m) /\ Appended(toHost, toHost', m)
    <3>1. PICK m \in Message : IsAlive(m) /\ Appended(toHost, toHost', m)
      BY <2>3
    <3>2. \A i \in 1..Len(toHost') :
             (i \in 1..Len(toHost) /\ toHost'[i] = toHost[i]) \/ toHost'[i] = m
      BY <1>1, <1>2, <3>1, Extended DEF Paths
    <3>3. QED
      BY <2>1, <3>1, <3>2
  <2>4. QED
    BY <2>2, <2>3
<1>6. QED
  BY <1>4, <1>5 DEF TransferInv, NothingSent

\* The module does not change but for its messages.
LEMMA IdleSame ==
    ASSUME Idle, UNCHANGED devVars, stored' = stored
    PROVE  ModuleSound' /\ SavesImage' /\ ~Pending'
<1>1. ~Saving' \/ config'.state # BOOT_NORMAL
  BY DEF devVars, Saving, Idle, ModuleSound, NothingSent, NoMessage, Boot, Msg, Pending, Good
<1>2. ModuleSound' /\ ~Pending'
  BY SameModule DEF Idle, NothingSent
<1>3. QED
  BY <1>1, <1>2 DEF SavesImage

\* Steps of the module before the first upload.
LEMMA IdleDev ==
    ASSUME Idle, DevNext, Stores, UNCHANGED <<hostVars, answersLost>>
    PROVE  TransferInv'
<1>1. /\ Paths /\ DevTypeOK /\ config.id = DefaultId
      /\ image' = NoImage /\ outcome' # "done" /\ HostSound' /\ ~Pending
      /\ ModuleSound /\ SavesImage /\ ~PowerLoss
  BY OneModule, SameHost DEF Idle, NothingSent, Alone, PowerLoss
<1>a. ~ErasePage /\ ~ProgramPage
  BY <1>1 DEF ErasePage, ProgramPage, ModuleSound, Writing, Pending, Good, NoMessage, Boot, Msg
<1>b. stored' = stored
  BY <1>a, StoredKept
<1>2. toDev # <<>> => In = AliveRequest /\ In.type = "EVENTS"
  <2>1. toDev # <<>> => In = toDev[1] /\ 1 \in 1..Len(toDev)
    BY <1>1, PathSteps DEF Paths, In
  <2>2. QED
    BY <2>1 DEF Idle, NothingSent, AliveRequest, Msg
<1>3. /\ Drop(toDev, toDev, 0) /\ Drop(toHost, toHost, 0)
      /\ toDev # <<>> => Drop(toDev, Tail(toDev), 1)
      /\ \A m \in Message : Appended(toHost, Append(toHost, m), m)
  BY <1>1, PathSteps DEF Paths
<1>4. CASE Filtered \/ Ignore
  <2>1. toDev # <<>> /\ toDev' = Tail(toDev) /\ UNCHANGED <<devVars, toHost>>
    BY <1>4 DEF Filtered, Ignore, Receive
  <2>2. QED
    BY <1>1, <1>3, <1>b, <2>1, IdleSame, IdlePaths
<1>5. CASE BootAlive \/ AppAlive
  <2>1. PICK s : /\ ToHost(AliveAnswer(s, config.id)) /\ toDev # <<>> /\ toDev' = Tail(toDev)
                 /\ UNCHANGED devVars /\ s \in Nat /\ config.id \in Nat
    BY <1>1, <1>5 DEF BootAlive, AppAlive, Receive, DevTypeOK, Config, BOOT_IDLE
  <2>2. AliveAnswer(s, config.id) \in Message /\ IsAlive(AliveAnswer(s, config.id))
    BY <2>1 DEF AliveAnswer, Msg, Message, IsAlive
  <2>3. Drop(toDev, toDev', 1) /\ Appended(toHost, toHost', AliveAnswer(s, config.id))
    BY <1>3, <2>1, <2>2 DEF ToHost
  <2>4. QED
    BY <1>1, <1>b, <2>1, <2>2, <2>3, IdleSame, IdlePaths
<1>6. CASE AppReset \/ BootCommand \/ Reply \/ ErasePage \/ ProgramPage
  <2>1. ~AppReset
    BY <1>2 DEF AppReset
  <2>2. \A cmd : ~Command(cmd)
    BY <1>2 DEF Command, Receive
  <2>3. ~BootCommand
    BY <2>2 DEF BootCommand, SetBaseAddr, SetState, SetDelay, Set, Get, NotImplemented,
                AnswerFirst, WriteBootConfig, WriteInc
  <2>4. ~Reply
    BY <1>1 DEF Reply, ModuleSound
  <2>5. QED
    BY <1>6, <1>a, <2>1, <2>3, <2>4
<1>7. CASE DoReset
  <2>1. Restart /\ ph = "reset"
    BY <1>7 DEF DoReset
  <2>2. PICK n \in 0..Len(toDev) : toDev' = SubSeq(toDev, n + 1, Len(toDev))
    BY <2>1 DEF Restart
  <2>3. Drop(toDev, toDev', n) /\ toHost' = toHost /\ ~Pending'
    BY <1>1, <2>1, <2>2, PathSteps DEF Paths, Restart, Pending
  <2>4. QED
    BY <1>1, <1>3, <1>b, <2>1, <2>3, RestartSound, IdlePaths
<1>8. CASE EraseConfig \/ ProgramConfig \/ StartApp \/ Tick
  <2>1. ModuleSound' /\ SavesImage'
    BY <1>1, <1>8, <1>b, EraseConfigSound, ProgramConfigSound, StartSound
  <2>2. toDev' = toDev /\ toHost' = toHost /\ ~Pending'
    BY <1>1, <1>8 DEF EraseConfig, ProgramConfig, StartApp, Tick, linkVars, Pending
  <2>3. QED
    BY <1>1, <1>3, <2>1, <2>2, IdlePaths
<1>9. QED
  BY <1>1, <1>4, <1>5, <1>6, <1>7, <1>8 DEF DevNext, DevStep

\* Messages lost before it.
LEMMA IdleLoss ==
    ASSUME Idle, LoseRequest \/ LoseAnswer, UNCHANGED <<devVars, hostVars>>, stored' = stored
    PROVE  TransferInv'
<1>1. Paths /\ image' = NoImage /\ outcome' # "done" /\ HostSound'
  BY OneModule, SameHost DEF Idle, NothingSent
<1>2. /\ Drop(toDev, toDev', 0) \/ Drop(toDev, toDev', 1)
      /\ Drop(toHost, toHost', 0) \/ Drop(toHost, toHost', 1)
  BY <1>1, PathSteps DEF Paths, LoseRequest, LoseAnswer
<1>3. QED
  BY <1>1, <1>2, IdleSame, IdlePaths

-----------------------------------------------------------------------------
(* Steps of the plugin.                                                     *)
\* Only the module itself is discovered, and nothing is asked of the user.
LEMMA HostAlone ==
    ASSUME Alone, Inv, HostSound
    PROVE  /\ Others = {} /\ NewIds = {} /\ Ids = {DefaultId} /\ ~dialog
           /\ active => DefaultId \in Known
           /\ Known \subseteq {DefaultId}
           /\ toHost \in Seq(Report) /\ Links /\ Plugin
<1>1. Others = {} /\ NewIds = {} /\ Ids = {DefaultId}
  BY UploadAssumption DEF Alone
<1>2. active => DefaultId \in Known
  BY OneModule DEF HostSound, Inv, NoDanglingModule
<1>3. Known \subseteq {DefaultId}
  BY OneModule DEF Known
<1>4. Links /\ Plugin
  BY DEF Inv, IdsValid, TypeOK, Links, Plugin
<1>5. QED
  BY <1>1, <1>2, <1>3, <1>4 DEF HostSound, Links

\* What the queue holds, and what is left when its first message is done with.
LEMMA QueueIs ==
    ASSUME NEW h, Uploading(h), active
    PROVE  /\ queue \in Seq(Message) /\ queue # <<>> /\ Len(queue) = Final + 1 - h
           /\ Head(queue) = Script[h] /\ Script[h] \in Message
           /\ h # Final => /\ Len(queue) # 1 /\ Len(Tail(queue)) = Final + 1 - (h + 1)
                           /\ \A i \in 1..Len(Tail(queue)) : Tail(queue)[i] = Script[(h + 1) + i - 1]
                           /\ Head(Tail(queue)) = Script[h + 1] /\ Script[h + 1] \in Message
           /\ Len(queue) = 1 => h = Final
<1>1. /\ image \in Images /\ h \in 1..Final /\ h \in Nat /\ Reached(h)
      /\ Ending \in Nat /\ Ending > 3 /\ Final = Ending + 2 /\ HostTypeOK
  BY Was
<1>2. queue \in Seq(Message) /\ Len(queue) = Final + 1 - h
      /\ \A i \in 1..Len(queue) : queue[i] = Script[h + i - 1]
  BY <1>1 DEF Reached, HostTypeOK
<1>3. Len(queue) \in Nat /\ Len(queue) >= 1 /\ 1 \in 1..Len(queue) /\ h + 1 - 1 = h
  BY <1>1, <1>2
<1>4. queue # <<>> /\ Head(queue) = Script[h]
  BY <1>2, <1>3, PathSteps DEF Drop
<1>5. \A k \in 1..Final : Script[k] \in Message
  BY <1>1, ScriptMessages
<1>6. ASSUME h # Final
      PROVE  /\ Len(queue) # 1 /\ Len(Tail(queue)) = Final + 1 - (h + 1)
             /\ \A i \in 1..Len(Tail(queue)) : Tail(queue)[i] = Script[(h + 1) + i - 1]
             /\ Head(Tail(queue)) = Script[h + 1] /\ Script[h + 1] \in Message
  <2>1. Drop(queue, Tail(queue), 1) /\ Tail(queue) \in Seq(Message)
    BY <1>2, <1>4, PathSteps
  <2>2. Len(Tail(queue)) = Final + 1 - (h + 1) /\ Len(Tail(queue)) >= 1 /\ Len(queue) # 1
    BY <1>1, <1>2, <1>3, <1>6, <2>1 DEF Drop
  <2>3. \A i \in 1..Len(Tail(queue)) : i + 1 \in 1..Len(queue) /\ Tail(queue)[i] = queue[i + 1]
    BY <1>3, <2>1 DEF Drop
  <2>4. \A i \in 1..Len(Tail(queue)) : h + (i + 1) - 1 = (h + 1) + i - 1
    BY <1>1
  <2>5. \A i \in 1..Len(Tail(queue)) : Tail(queue)[i] = Script[(h + 1) + i - 1]
    BY <1>2, <2>3, <2>4
  <2>6. Head(Tail(queue)) = Script[h + 1]
    <3>1. Tail(queue) # <<>> /\ 1 \in 1..Len(Tail(queue)) /\ (h + 1) + 1 - 1 = h + 1
      BY <1>1, <2>1, <2>2
    <3>2. Head(Tail(queue)) = Tail(queue)[1]
      BY <2>1, <3>1, PathSteps
    <3>3. QED
      BY <2>5, <3>1, <3>2
  <2>7. h + 1 \in 1..Final
    BY <1>1, <1>6
  <2>8. QED
    BY <1>5, <2>2, <2>5, <2>6, <2>7
<1>7. Len(queue) = 1 => h = Final
  <2>1. \A l, f \in Nat : l = f + 1 - h /\ l = 1 => h = f
    BY <1>1
  <2>2. Final \in Nat /\ Len(queue) = Final + 1 - h
    BY <1>1, <1>2
  <2>3. QED
    BY <1>3, <2>1, <2>2
<1>8. QED
  BY <1>1, <1>2, <1>4, <1>5, <1>6, <1>7

\* An upload is started: nothing is on the way.
LEMMA UploadStarts ==
    ASSUME Alone, Inv, Inv', ModuleSound, SavesImage, HostSound,
           Upload, LinkDrained, UNCHANGED <<devVars, answersLost>>, stored' = stored
    PROVE  TransferInv'
<1>1. /\ image' \in Images /\ queue' = MessageQueue(combo, image') /\ Push(Head(queue'))
      /\ buttons /\ combo \in Known /\ module' = combo /\ active' = TRUE /\ observing' = TRUE
      /\ buttons' = FALSE /\ outcome' = "none" /\ uploads' = uploads + 1
      /\ UNCHANGED <<combo, dialog, modules, toHost>>
  BY DEF Upload
<1>2. toDev = <<>> /\ toHost = <<>>
  <2>1. uploads \in Nat
    BY HostAssumption, OneModule DEF HostTypeOK
  <2>2. QED
    BY <1>1, <2>1 DEF LinkDrained, linkVars
<1>3. combo = DefaultId /\ ~dialog
  BY <1>1, HostAlone
<1>4. ScriptSound' /\ queue' = Script' /\ image' # NoImage
  BY <1>1, <1>3, ScriptThen, HostAssumption DEF Script
<1>5. Ending' \in Nat /\ Ending' > 3 /\ Final' = Ending' + 2 /\ Len(Script') = Final'
      /\ Script'[1] = Emergency(DefaultId)
  BY <1>4 DEF ScriptSound
<1>6. ModuleSound' /\ SavesImage'
  BY SameModule
<1>7. HostSound'
  BY <1>1, <1>3, <1>4 DEF HostSound
<1>8. Reached(1)'
  <2>1. \A i \in 1..Len(queue') : 1 + i - 1 = i
    OBVIOUS
  <2>2. Len(queue') = Final' + 1 - 1
    BY <1>4, <1>5
  <2>3. \A i \in 1..Len(queue') : queue'[i] = Script'[1 + i - 1]
    BY <1>4, <2>1
  <2>4. QED
    BY <1>1, <2>2, <2>3 DEF Reached
<1>9. toDev' = <<Script'[1]>>
  <2>1. Head(queue') = Script'[1]
    <3>1. queue' \in Seq(Message)
      BY DEF Inv, TypeOK, HostTypeOK
    <3>2. queue' # <<>>
      BY <1>4, <1>5
    <3>3. QED
      BY <1>4, <3>1, <3>2, PathSteps
  <2>2. QED
    BY <1>1, <1>2, <2>1 DEF Push
<1>10. Requests(1)'
  <2>1. Len(toDev') = 1 /\ \A i \in 1..Len(toDev') : i = 1 /\ toDev'[i] = Script'[1]
    BY <1>9
  <2>2. Sorted(toDev)'
    BY <2>1 DEF Sorted
  <2>3. \A i \in 1..Len(toDev') : \E j \in 1..1 : toDev'[i] = Script'[j]
    BY <2>1
  <2>4. QED
    BY <2>2, <2>3 DEF Requests, Sent
<1>11. StaleAnswers'
  BY <1>1, <1>2 DEF StaleAnswers
<1>12. 1 \in 1..Final' /\ 1 < 3 /\ ~(1 >= 3) /\ ~(1 >= Ending')
  <2>1. \A e, f \in Nat : e > 3 /\ f = e + 2 => 1 \in 1..f /\ ~(1 >= e)
    OBVIOUS
  <2>2. Ending' \in Nat /\ Final' \in Nat /\ Ending' > 3 /\ Final' = Ending' + 2
    BY <1>4 DEF ScriptSound
  <2>3. 1 \in 1..Final' /\ ~(1 >= Ending')
    BY <2>1, <2>2, Zenon
  <2>4. QED
    BY <2>3
<1>13. Advanced(1)'
  BY <1>1, <1>6, <1>7, <1>8, <1>10, <1>11, <1>12, Stays
<1>14. FromImage(1)'
  BY <1>12 DEF FromImage, FirstChunk
<1>15. QED
  BY <1>13, <1>14, Continues

\* The upload ends; it is done only when the last message has been acknowledged.
LEMMA StopEnds ==
    ASSUME NEW h, Uploading(h), NEW result, StopWith(result), result = "done" => h = Final,
           UNCHANGED <<devVars, answersLost, toDev>>, stored' = stored, NEW k, Drop(toHost, toHost', k)
    PROVE  TransferInv'
<1>1. Reached(h) /\ HostSound /\ Paths
  BY Was
<1>2. /\ active' = FALSE /\ buttons' = TRUE /\ dialog' = dialog /\ image' = image
      /\ outcome' = IF buttons THEN outcome ELSE result
  BY DEF StopWith, Stop
<1>3. HostSound'
  BY <1>1, <1>2 DEF HostSound
<1>4. Final' = Final
  BY <1>2, SameScript
<1>5. Reached(h)'
  BY <1>1, <1>2, <1>4 DEF Reached
<1>6. Drop(toDev, toDev', 0)
  BY <1>1, PathSteps DEF Paths
<1>7. QED
  BY <1>2, <1>3, <1>5, <1>6, Moved

\* The module is ready for what it is sent again, or next.
LEMMA PreparedPushed ==
    ASSUME image' = image, UNCHANGED <<devVars, toHost>>, NEW h, Prepared(h),
           h < Ending \/ (ChunksLeft' => ChunksLeft)
    PROVE  Prepared(h)'
<1>1. Ending' = Ending /\ Final' = Final /\ Loading' = Loading
  BY SameScript, SameModule
<1>2. \A cmd : Answered(cmd)' <=> Answered(cmd)
  BY DEF Answered
<1>3. QED
  BY <1>1, <1>2 DEF Prepared, devVars

\* Behind the chunks none is sent.
LEMMA ChunksPushed ==
    ASSUME Paths, answer' = answer, NEW m, Appended(toDev, toDev', m), m.cmd # "WRITE_INC"
    PROVE  ChunksLeft' => ChunksLeft
<1>1. \A i \in 1..Len(toDev') : (i \in 1..Len(toDev) /\ toDev'[i] = toDev[i]) \/ toDev'[i] = m
  BY DEF Appended, Paths
<1>2. QED
  BY <1>1 DEF ChunksLeft

\* The message that is next, or an alive request, goes on its way.
LEMMA Pushed ==
    ASSUME NEW h, Uploading(h), NEW k \in 1..Final, h <= k, k < 3 \/ k = h,
           UNCHANGED <<devVars, toHost, answersLost>>, stored' = stored, image' = image,
           active' = active,
           NEW m, m = AliveRequest \/ m = Script[k], Appended(toDev, toDev', m),
           HostSound', Reached(k)'
    PROVE  TransferInv'
<1>1. /\ Inv /\ Inv' /\ ModuleSound /\ SavesImage /\ HostSound
      /\ image \in Images /\ h \in 1..Final /\ h \in Nat /\ Reached(h) /\ Requests(h)
      /\ h < 3 => StaleAnswers
      /\ h >= 3 => Answers(h) /\ Prepared(h)
      /\ h >= 3 /\ h < Ending => (active => Received(h))
      /\ h >= Ending => Complete
      /\ Ending \in Nat /\ Ending > 3 /\ Final = Ending + 2
      /\ Paths /\ Paths' /\ DevTypeOK /\ DevTypeOK' /\ ImagePages \in Nat
  BY Was
<1>2. Final' = Final /\ Ending' = Ending /\ image' \in Images
  BY <1>1, SameScript
<1>3. ModuleSound' /\ SavesImage' /\ Based' = Based /\ flash' = flash /\ answer' = answer /\ base' = base
  BY <1>1, SameModule
<1>4. Requests(k)'
  BY <1>1, RequestsPushed
<1>5. m \in Message /\ (h >= Ending => m.cmd # "WRITE_INC")
  <2>1. AliveRequest \in Message /\ AliveRequest.cmd # "WRITE_INC"
    <3>1. <<>> \in Seq(Nat)
      OBVIOUS
    <3>2. QED
      BY <3>1 DEF AliveRequest, Msg, Message, Broadcast
  <2>2. Script[k] \in Message /\ Script[k].cmd = CommandAt(k)
    BY <1>1, ScriptMessages
  <2>3. h >= Ending => CommandAt(k) # "WRITE_INC"
    BY <1>1 DEF CommandAt
  <2>4. QED
    BY <2>1, <2>2, <2>3
<1>6. k < 3 => StaleAnswers'
  <2>1. Drop(toHost, toHost', 0)
    BY <1>1, PathSteps DEF Paths
  <2>2. k < 3 => h < 3
    BY <1>1
  <2>3. QED
    BY <1>1, <1>3, <2>1, <2>2, StaleKept
<1>7. ASSUME k >= 3
      PROVE  k = h /\ h >= 3 /\ Answers(k)'
  <2>1. k = h /\ h >= 3 /\ h \in 3..Final
    BY <1>1, <1>7
  <2>2. Answers(h)'
    BY <1>1, <1>3, <1>5, <2>1, AnswersPushed
  <2>3. QED
    BY <2>1, <2>2
<1>8. h < Ending \/ (ChunksLeft' => ChunksLeft)
  BY <1>1, <1>3, <1>5, ChunksPushed
<1>9. k >= 3 => Prepared(k)'
  BY <1>1, <1>7, <1>8, PreparedPushed
<1>10. k >= 3 /\ k < Ending' => (active' => Received(k)')
  <2>1. SUFFICES ASSUME k >= 3, k < Ending, active PROVE Received(k)'
    BY <1>2
  <2>2. Received(h) /\ k = h
    BY <1>1, <1>7, <2>1
  <2>3. SameStore
    BY StoreKept DEF devVars
  <2>4. QED
    BY <1>3, <2>2, <2>3, ReceivedKept
<1>11. k >= Ending' => Complete'
  <2>1. SUFFICES ASSUME k >= Ending PROVE Complete'
    BY <1>2
  <2>2. k >= 3
    BY <1>1, <2>1
  <2>3. h >= Ending /\ (ChunksLeft' => ChunksLeft)
    BY <1>1, <1>7, <1>8, <2>1, <2>2
  <2>4. QED
    BY <1>1, <1>3, <2>3, CompleteKept DEF DevTypeOK
<1>12. Advanced(k)'
  BY <1>2, <1>3, <1>4, <1>6, <1>7, <1>9, <1>10, <1>11, Stays
<1>13. FromImage(k)'
  <2>1. CASE k = h
    BY <2>1, Was, FromImageKept
  <2>2. CASE k < 3
    BY <1>1, <1>2, <2>2 DEF FromImage, FirstChunk
  <2>3. QED
    BY <2>1, <2>2
<1>14. QED
  BY <1>12, <1>13, Continues

\* The message that is next is sent again; the one after the emergency when the
\* module is in its bootloader.
LEMMA ResendKeeps ==
    ASSUME NEW h, Uploading(h), active, Resend, UNCHANGED <<devVars, answersLost>>, stored' = stored
    PROVE  TransferInv'
<1>1. /\ image \in Images /\ h \in 1..Final /\ h \in Nat /\ Reached(h) /\ HostSound /\ Paths
      /\ Ending \in Nat /\ Ending > 3 /\ Final = Ending + 2
  BY Was
<1>2. /\ queue \in Seq(Message) /\ Len(queue) = Final + 1 - h
      /\ Head(queue) = Script[h] /\ Script[h] \in Message
      /\ \A i \in 1..Len(queue) : queue[i] = Script[h + i - 1]
      /\ h # Final => /\ Len(Tail(queue)) = Final + 1 - (h + 1)
                      /\ \A i \in 1..Len(Tail(queue)) : Tail(queue)[i] = Script[(h + 1) + i - 1]
                      /\ Head(Tail(queue)) = Script[h + 1] /\ Script[h + 1] \in Message
  BY <1>1, QueueIs DEF Reached
<1>3. /\ queue' = ToResend /\ Push(Head(queue'))
      /\ UNCHANGED <<active, observing, module, combo, buttons, dialog, outcome, image, toHost>>
  BY DEF Resend
<1>4. Script[h].type = IF h = 1 THEN "EMERGENCY" ELSE "BOOTLOADER"
  BY <1>1, ScriptMessages
<1>5. HostSound' /\ Final' = Final /\ Script' = Script
  BY <1>1, <1>3, SameScript DEF HostSound
<1>6. outcome' # "done"
  BY <1>1, <1>3 DEF HostSound
<1>7. CASE h = 1
  <2>1. queue' = Tail(queue)
    BY <1>2, <1>3, <1>4, <1>7 DEF ToResend
  <2>2. 1 # Final /\ 2 \in 1..Final /\ h <= 2 /\ h + 1 = 2
    BY <1>1, <1>7
  <2>3. Appended(toDev, toDev', Script[2])
    BY <1>1, <1>2, <1>3, <1>7, <2>1, <2>2, PathSteps DEF Paths, Push
  <2>4. Reached(2)'
    BY <1>2, <1>5, <1>6, <1>7, <2>1, <2>2 DEF Reached
  <2>5. QED
    BY <1>3, <1>5, <2>2, <2>3, <2>4, Pushed
<1>8. CASE h # 1
  <2>1. queue' = queue
    BY <1>2, <1>3, <1>4, <1>8 DEF ToResend
  <2>2. Appended(toDev, toDev', Script[h])
    BY <1>1, <1>2, <1>3, <2>1, PathSteps DEF Paths, Push
  <2>3. Reached(h)'
    BY <1>2, <1>3, <1>5, <1>6, <2>1 DEF Reached
  <2>4. h <= h
    BY <1>1
  <2>5. QED
    BY <1>1, <1>3, <1>5, <2>2, <2>3, <2>4, Pushed
<1>9. QED
  BY <1>7, <1>8

\* The manager asks who is alive.
LEMMA PollKeeps ==
    ASSUME NEW h, Uploading(h), Push(AliveRequest), UNCHANGED <<hostVars, devVars, toHost, answersLost>>,
           stored' = stored
    PROVE  TransferInv'
<1>1. h \in 1..Final /\ h \in Nat /\ Paths /\ h <= h
  BY Was
<1>2. HostSound' /\ Reached(h)' /\ image' = image /\ active' = active
  BY SameHost, Was
<1>3. AliveRequest \in Message
  <2>1. <<>> \in Seq(Nat)
    OBVIOUS
  <2>2. QED
    BY <2>1 DEF AliveRequest, Msg, Message, Broadcast
<1>4. Appended(toDev, toDev', AliveRequest)
  BY <1>1, <1>3, PathSteps DEF Paths, Push
<1>5. QED
  BY <1>1, <1>2, <1>4, Pushed

\* Accepting an answer moves the plugin on by one message.
LEMMA AcceptedHost ==
    ASSUME NEW h, Uploading(h), active, Len(queue) # 1, Accepted
    PROVE  /\ HostSound' /\ Reached(h + 1)' /\ h \in 1..Final-1
           /\ Appended(toDev, toDev', Script[h + 1]) /\ image' = image
<1>1. /\ image \in Images /\ h \in 1..Final /\ h \in Nat /\ Reached(h) /\ HostSound /\ Paths
      /\ Ending \in Nat /\ Ending > 3 /\ Final = Ending + 2
  BY Was
<1>2. /\ queue' = Tail(queue) /\ Push(Head(queue'))
      /\ UNCHANGED <<active, observing, module, combo, buttons, dialog, outcome, image>>
  BY DEF Accepted
<1>3. Len(queue) = Final + 1 - h
  BY QueueIs
<1>4. h # Final /\ h \in 1..Final-1
  <2>1. \A f \in Nat : h = f => f + 1 - h = 1
    BY <1>1
  <2>2. h # Final
    BY <1>1, <1>3, <2>1
  <2>3. QED
    BY <1>1, <2>2
<1>5. /\ Len(Tail(queue)) = Final + 1 - (h + 1)
      /\ \A i \in 1..Len(Tail(queue)) : Tail(queue)[i] = Script[(h + 1) + i - 1]
      /\ Head(Tail(queue)) = Script[h + 1] /\ Script[h + 1] \in Message
  BY <1>4, QueueIs
<1>6. HostSound' /\ Final' = Final /\ Script' = Script /\ outcome' # "done"
  BY <1>1, <1>2, SameScript DEF HostSound
<1>7. Reached(h + 1)'
  BY <1>2, <1>5, <1>6 DEF Reached
<1>8. Appended(toDev, toDev', Script[h + 1])
  BY <1>1, <1>2, <1>5, PathSteps DEF Paths, Push
<1>9. QED
  BY <1>2, <1>4, <1>6, <1>7, <1>8

\* The base address is acknowledged: the module has taken it, and the first
\* chunk follows.
LEMMA BaseAccepted ==
    ASSUME Uploading(2), active, Len(queue) # 1, Accepted, toHost # <<>>, toHost' = Tail(toHost),
           Got = Script[2], UNCHANGED <<devVars, answersLost>>, stored' = stored
    PROVE  TransferInv'
<1>1. /\ Inv /\ Inv' /\ ModuleSound /\ SavesImage /\ HostSound
      /\ image \in Images /\ Requests(2) /\ StaleAnswers
      /\ Ending \in Nat /\ Ending > 3 /\ Final = Ending + 2 /\ Paths /\ Paths'
  <2>1. 2 < 3
    OBVIOUS
  <2>2. QED
    BY <2>1, Was
<1>2. /\ HostSound' /\ Reached(3)'
      /\ Appended(toDev, toDev', Script[3]) /\ image' = image
  <2>1. 2 + 1 = 3
    OBVIOUS
  <2>2. QED
    BY <2>1, AcceptedHost
<1>3. Final' = Final /\ Ending' = Ending /\ Script' = Script /\ image' \in Images
  BY <1>1, <1>2, SameScript
<1>4. ModuleSound' /\ SavesImage'
  BY <1>1, SameModule
<1>5. Requests(3)'
  <2>1. 2 \in 1..Final /\ 3 \in 1..Final /\ 2 <= 3
    BY <1>1
  <2>2. QED
    BY <1>1, <1>2, <2>1, RequestsPushed
<1>6. Script[2] = SetBaseAddress(DefaultId) /\ Stage(Script[2]) = 2 /\ Script[2].cmd = "SET_BASE_ADDR"
      /\ Stage(Script[3]) = 3
  <2>1. Script[2] = SetBaseAddress(DefaultId)
    BY <1>1, ScriptShape
  <2>2. Script[2].cmd = "SET_BASE_ADDR"
    BY <2>1 DEF SetBaseAddress, Boot, Msg
  <2>3. Script[3].cmd = "WRITE_INC"
    <3>1. 3 \in 1..Final /\ ~(3 = 1) /\ ~(3 = 2) /\ 3 < Ending
      BY <1>1
    <3>2. QED
      BY <1>1, <3>1, ScriptMessages DEF CommandAt
  <2>4. QED
    BY <2>1, <2>2, <2>3, Stages
<1>7. Drop(toHost, toHost', 1) /\ toHost[1] = Script[2] /\ Len(toHost) >= 1
  BY <1>1, PathSteps DEF Paths, Got
<1>8. Based /\ \A i \in 1..Len(toHost') : IsAlive(toHost'[i]) \/ toHost'[i] = Script[2]
  <2>1. 1 \in 1..Len(toHost) /\ Len(toHost) \in Nat
    BY <1>1, <1>7 DEF Paths
  <2>2. Based /\ \A j \in 1+1..Len(toHost) : IsAlive(toHost[j]) \/ toHost[j] = Script[2]
    BY <1>1, <1>6, <1>7, <2>1 DEF StaleAnswers
  <2>3. \A i \in 1..Len(toHost') : i + 1 \in 1+1..Len(toHost) /\ toHost'[i] = toHost[i + 1]
    BY <1>7, <2>1 DEF Drop
  <2>4. QED
    BY <2>2, <2>3
<1>9. answer' = answer /\ Based' /\ answer \in {NoMessage, Script[2]}
  BY <1>6, <1>8, SameModule DEF Based
<1>10. \A i \in 1..Len(toDev') : IsAlive(toDev'[i]) \/ Stage(toDev'[i]) >= 2
  <2>1. \A i \in 1..Len(toDev') : toDev'[i] = AliveRequest \/ Sent(toDev'[i], 3)
    BY <1>3, <1>5 DEF Requests, Sent
  <2>2. \A i \in 1..3 : Stage(Script[i]) >= 2
    BY <1>1, ScriptStages
  <2>3. QED
    BY <2>1, <2>2 DEF Sent, IsAlive, AliveRequest, Msg
<1>11. \A i \in 1..Len(toHost') : ~IsAlive(toHost'[i]) => Stage(toHost'[i]) = 2
  BY <1>6, <1>8
<1>12. IsAlive(answer) \/ (Stage(answer) >= 2 /\ (answer # NoMessage => Stage(answer) = 2))
  BY <1>6, <1>9, Stages
<1>13. Answers(3)'
  <2>1. \A i \in 1..Len(toHost') : IsAlive(toHost'[i]) \/ Echo(toHost'[i], 3)
    <3>1. Echo(Script[2], 3)
      BY DEF Echo
    <3>2. QED
      BY <1>8, <3>1
  <2>2. answer # NoMessage => Echo(answer, 3)
    BY <1>9 DEF Echo
  <2>3. Stage(Script[3 - 1]) = 2
    BY <1>6
  <2>4. Sorted(toHost') /\ Before(toHost', toDev') /\ AtLeast(toHost', 2) /\ AtLeast(toDev', 2)
    BY <1>10, <1>11 DEF Sorted, Before, AtLeast
  <2>5. Before(toHost', <<answer>>) /\ AtLeast(<<answer>>, 2)
        /\ (answer # NoMessage => Before(<<answer>>, toDev'))
    <3>1. answer \in Message /\ toHost' \in Seq(Message) /\ toDev' \in Seq(Message)
      BY <1>1 DEF Paths
    <3>2. QED
      BY <1>10, <1>11, <1>12, <3>1, OneMessage
  <2>6. AnswersAs(3, toDev', toHost', answer)
    BY <2>1, <2>2, <2>3, <2>4, <2>5 DEF AnswersAs
  <2>7. QED
    BY <1>2, <1>9, <2>6, AnswersAre
<1>14. Prepared(3)'
  <2>1. Loading'
    BY <1>9 DEF Based, Loading
  <2>2. ~Answered("SET_STATE")' /\ ~Answered("WRITE_BOOTCONFIG")'
    BY <1>6, <1>8 DEF Answered, IsAlive
  <2>3. answer'.cmd \notin {"SET_STATE", "WRITE_BOOTCONFIG"} /\ ph' # "reset"
    BY <1>6, <1>9 DEF NoMessage, Boot, Msg, Based
  <2>4. ~(3 > Ending) /\ ~(3 = Final)
    BY <1>1
  <2>5. QED
    BY <1>3, <2>1, <2>2, <2>3, <2>4 DEF Prepared
<1>15. Received(3)'
  <2>1. base' = 0 /\ off' = 0
    BY <1>9 DEF Based
  <2>2. ~Good(answer') /\ \A i \in 1..Len(toHost') : ~Good(toHost'[i])
    BY <1>6, <1>8, <1>9 DEF Good, IsAlive, NoMessage, Boot, Msg
  <2>3. QED
    BY <1>1, <2>1, <2>2, ReceivedNothing DEF FirstChunk
<1>16. 3 \in 1..Final' /\ ~(3 < 3) /\ ~(3 >= Ending')
  BY <1>1, <1>3
<1>17. Advanced(3)'
  BY <1>2, <1>3, <1>4, <1>5, <1>13, <1>14, <1>15, <1>16, Stays
<1>18. FromImage(3)'
  BY <1>9, <1>16 DEF FromImage, Based
<1>19. QED
  BY <1>17, <1>18, Continues

\* Any later answer: the module has done what it acknowledges.
LEMMA NextAccepted ==
    ASSUME NEW h, Uploading(h), h >= 3, active, Len(queue) # 1, Accepted,
           toHost # <<>>, toHost' = Tail(toHost), Got = Script[h], UNCHANGED <<devVars, answersLost>>, stored' = stored
    PROVE  TransferInv'
<1>1. /\ Inv /\ Inv' /\ ModuleSound /\ SavesImage /\ HostSound
      /\ image \in Images /\ h \in 1..Final /\ h \in Nat /\ Requests(h)
      /\ Answers(h) /\ Prepared(h)
      /\ h < Ending => Received(h)
      /\ h >= Ending => Complete
      /\ Ending \in Nat /\ Ending > 3 /\ Final = Ending + 2
      /\ Paths /\ Paths' /\ DevTypeOK /\ DevTypeOK' /\ ImagePages \in Nat
  BY Was
<1>2. /\ HostSound' /\ Reached(h + 1)' /\ h \in 1..Final-1
      /\ Appended(toDev, toDev', Script[h + 1]) /\ image' = image
  BY AcceptedHost
<1>3. Final' = Final /\ Ending' = Ending /\ Script' = Script /\ image' \in Images
  BY <1>1, <1>2, SameScript
<1>4. ModuleSound' /\ SavesImage' /\ flash' = flash /\ answer' = answer /\ base' = base
  BY <1>1, SameModule
<1>5. h + 1 \in 1..Final /\ h + 1 \in Nat /\ h <= h + 1 /\ h \in 3..Final-1 /\ h \in 1..Final
  BY <1>1, <1>2
<1>6. Requests(h + 1)'
  BY <1>1, <1>2, <1>5, RequestsPushed
<1>7. Drop(toHost, toHost', 1) /\ toHost[1] = Script[h] /\ Len(toHost) >= 1 /\ 1 \in 1..Len(toHost)
  <2>1. Drop(toHost, toHost', 1) /\ toHost[1] = Script[h] /\ Len(toHost) >= 1
    BY <1>1, PathSteps DEF Paths, Got
  <2>2. QED
    BY <1>1, <2>1 DEF Paths
<1>8. Answers(h + 1)'
  BY <1>1, <1>2, <1>4, <1>5, <1>7, AnswersAccepted
<1>9. Script[h].cmd = CommandAt(h) /\ Script[h + 1].cmd = CommandAt(h + 1)
  BY <1>1, <1>5, ScriptMessages
<1>10. h + 1 >= Ending => (ChunksLeft' => ChunksLeft)
  <2>1. h + 1 >= Ending => Script[h + 1].cmd # "WRITE_INC"
    BY <1>1, <1>5, <1>9 DEF CommandAt
  <2>2. QED
    BY <1>1, <1>2, <1>4, <2>1, ChunksPushed
<1>11. Prepared(h + 1)'
  <2>1. Loading' <=> Loading
    BY SameModule
  <2>2. h + 1 < Ending \/ ChunksLeft' => Loading
    <3>1. h + 1 < Ending => h < Ending
      BY <1>1
    <3>2. CASE h + 1 < Ending
      BY <1>1, <3>1, <3>2 DEF Prepared
    <3>3. CASE ~(h + 1 < Ending)
      <4>1. h + 1 >= Ending
        BY <1>1, <3>3
      <4>2. ChunksLeft' => ChunksLeft
        BY <1>10, <4>1
      <4>3. QED
        BY <1>1, <3>3, <4>2 DEF Prepared
    <3>4. QED
      BY <3>2, <3>3
  <2>3. /\ Answered("SET_STATE")' => Answered("SET_STATE")
        /\ Answered("WRITE_BOOTCONFIG")' => Answered("WRITE_BOOTCONFIG")
    BY <1>1, <1>7, AnsweredAfter
  <2>4. h = Ending => Answered("SET_STATE")
    <3>1. SUFFICES ASSUME h = Ending PROVE Answered("SET_STATE")
      OBVIOUS
    <3>2. CommandAt(h) = "SET_STATE"
      BY <1>1, <3>1 DEF CommandAt
    <3>3. QED
      BY <1>7, <1>9, <3>2 DEF Answered
  <2>5. h + 1 = Final => Answered("WRITE_BOOTCONFIG")
    <3>1. SUFFICES ASSUME h + 1 = Final PROVE Answered("WRITE_BOOTCONFIG")
      OBVIOUS
    <3>2. CommandAt(h) = "WRITE_BOOTCONFIG"
      <4>1. h = Ending + 1
        BY <1>1, <3>1
      <4>2. QED
        BY <1>1, <4>1 DEF CommandAt
    <3>3. QED
      BY <1>7, <1>9, <3>2 DEF Answered
  <2>6. h + 1 > Ending => h > Ending \/ h = Ending
    BY <1>1
  <2>7. ph # "reset"
    BY <1>1, <1>2 DEF Prepared
  <2>8. h + 1 > Ending \/ Answered("SET_STATE")' \/ answer'.cmd = "SET_STATE" => config'.state = BOOT_NORMAL
    <3>1. config' = config
      BY DEF devVars
    <3>2. QED
      BY <1>1, <1>4, <2>3, <2>4, <2>6, <3>1 DEF Prepared
  <2>9. \/ h + 1 = Final
        \/ Answered("WRITE_BOOTCONFIG")'
        \/ answer'.cmd = "WRITE_BOOTCONFIG" /\ ph' = "reply"
        => \/ eeprom'.state = BOOT_NORMAL
           \/ answer'.cmd = "WRITE_BOOTCONFIG" /\ ph' = "programConfig"
    <3>1. ph' = ph /\ eeprom' = eeprom
      BY DEF devVars
    <3>2. QED
      BY <1>1, <1>4, <2>3, <2>5, <3>1 DEF Prepared
  <2>10. ph' # "reset"
    BY <2>7 DEF devVars
  <2>11. QED
    BY <1>3, <2>1, <2>2, <2>8, <2>9, <2>10 DEF Prepared
<1>12. h < Ending => Received(h + 1)'
  <2>1. SUFFICES ASSUME h < Ending PROVE Received(h + 1)'
    OBVIOUS
  <2>2. h \in 3..Ending-1 /\ Received(h)
    BY <1>1, <1>5, <2>1
  <2>3. SameStore
    BY <1>2, StoreKept DEF devVars
  <2>4. \A pw \in DOMAIN Store : pw \in Nat \X Nat
    BY <1>1, StoreWords
  <2>5. QED
    BY <1>1, <1>4, <1>7, <2>2, <2>3, <2>4, ReceivedAccepted
<1>13. h + 1 >= Ending => Complete' /\ (h + 1 = Ending => base' >= ImagePages)
  <2>1. CASE h >= Ending
    <3>1. h + 1 >= Ending /\ h + 1 # Ending
      BY <1>1, <2>1
    <3>2. QED
      BY <1>1, <1>2, <1>4, <1>10, <2>1, <3>1, CompleteKept DEF DevTypeOK
  <2>2. CASE h + 1 = Ending
    <3>1. Received(Ending)'
      <4>1. h < Ending
        BY <1>1, <2>2
      <4>2. Received(h + 1)' /\ Ending' = h + 1
        BY <1>3, <1>12, <2>2, <4>1
      <4>3. QED
        BY <4>2 DEF Received
    <3>2. off' = PageSize => base' >= BootPage \/ Good(answer')
      BY <1>4 DEF ModuleSound
    <3>3. base' >= ImagePages /\ Rewritten(image)' /\ (~answersLost' => Holds(image)')
      BY <1>1, <1>2, <3>1, <3>2, ReceivedAll
    <3>4. ImagePages' = ImagePages
      BY <1>2, SameScript
    <3>5. QED
      BY <3>3, <3>4 DEF Complete
  <2>3. h + 1 >= Ending => h >= Ending \/ h + 1 = Ending
    BY <1>1
  <2>4. QED
    BY <2>1, <2>2, <2>3
<1>14. h + 1 >= 3 /\ ~(h + 1 < 3) /\ (h + 1 < Ending => h < Ending)
  BY <1>1
<1>15. Advanced(h + 1)'
  BY <1>2, <1>3, <1>4, <1>5, <1>6, <1>8, <1>11, <1>12, <1>13, <1>14, Stays
<1>16. FromImage(h + 1)'
  <2>1. FromImage(h)' /\ active'
    BY <1>2, Was, FromImageKept DEF Accepted
  <2>2. h + 1 = Ending => base' > 0
    <3>1. ImagePages \in 1..BootPage /\ BootPage \in Nat
      BY <1>1, ImageShape, DeviceAssumption
    <3>2. base' \in Nat /\ h + 1 >= h + 1
      BY <1>1 DEF DevTypeOK
    <3>3. QED
      BY <1>13, <3>1, <3>2
  <2>3. QED
    BY <1>1, <1>2, <1>3, <2>1, <2>2 DEF FromImage, FirstChunk
<1>17. QED
  BY <1>15, <1>16, Continues

\* An answer reaches the plugin.
LEMMA AnswerHandled ==
    ASSUME NEW h, Uploading(h), HandleAnswer, UNCHANGED <<devVars, answersLost>>, stored' = stored
    PROVE  TransferInv'
<1>1. /\ HostSound /\ image \in Images /\ h \in 1..Final /\ h \in Nat /\ Reached(h)
      /\ h >= 3 => Answers(h)
      /\ h >= 3 /\ h < Ending => (active => Received(h))
      /\ Ending \in Nat /\ Ending > 3 /\ Final = Ending + 2 /\ Paths /\ Paths'
  BY Was
<1>2. toHost # <<>> /\ Got.type = "BOOTLOADER" /\ toHost' = Tail(toHost)
  BY DEF HandleAnswer
<1>3. Drop(toHost, toHost', 1) /\ Got = toHost[1] /\ Len(toHost) >= 1 /\ Drop(toDev, toDev, 0)
  BY <1>1, <1>2, PathSteps DEF Paths, Got
<1>4. CASE ~(observing /\ active /\ Got.dest = combo) /\ UNCHANGED <<hostVars, toDev>>
  <2>1. HostSound' /\ Reached(h)' /\ image' = image /\ active' = active
    BY <1>1, <1>4, SameHost
  <2>2. ASSUME h >= 3, h < Ending, active
        PROVE  Received(h)'
    <3>1. Got.dest # DefaultId
      BY <1>1, <1>4, <2>2 DEF HostSound
    <3>2. IsAlive(Got) \/ Echo(Got, h)
      <4>1. 1 \in 1..Len(toHost)
        BY <1>1, <1>3 DEF Paths
      <4>2. QED
        BY <1>1, <1>3, <2>2, <4>1 DEF Answers
    <3>3. IsAlive(toHost[1])
      BY <1>1, <1>3, <3>1, <3>2, Echoed
    <3>4. SameStore
      BY <2>1, StoreKept DEF devVars
    <3>5. QED
      BY <1>1, <1>2, <1>3, <2>2, <3>3, <3>4, ReceivedPassed DEF devVars
  <2>3. Drop(toDev, toDev', 0)
    BY <1>3, <1>4
  <2>4. QED
    BY <1>3, <2>1, <2>2, <2>3, Moved
<1>5. CASE /\ active /\ ~Expected /\ StopWith("error") /\ UNCHANGED toDev
  BY <1>3, <1>5, StopEnds
<1>6. CASE /\ active /\ Expected /\ Len(queue) = 1 /\ StopWith("done") /\ UNCHANGED toDev
  <2>1. h = Final
    BY <1>6, QueueIs
  <2>2. QED
    BY <1>3, <1>6, <2>1, StopEnds
<1>7. CASE /\ active /\ Expected /\ Len(queue) # 1 /\ Accepted
  <2>1. Got = Script[h]
    BY <1>7, QueueIs DEF Expected
  <2>2. h # 1
    BY <1>1, <1>2, <2>1, ScriptMessages
  <2>3. CASE h = 2
    BY <1>2, <1>7, <2>1, <2>3, BaseAccepted
  <2>4. CASE h # 2
    <3>1. h >= 3
      BY <1>1, <2>2, <2>4
    <3>2. QED
      BY <1>2, <1>7, <2>1, <3>1, NextAccepted
  <2>5. QED
    BY <2>3, <2>4
<1>8. QED
  BY <1>4, <1>5, <1>6, <1>7 DEF HandleAnswer

\* The manager gets an answer to its alive request; a module it has not listed
\* before is not the one an upload goes to.
LEMMA AliveHandled ==
    ASSUME Alone, Inv, HostSound, HandleAlive
    PROVE  /\ HostSound' /\ toHost # <<>> /\ toHost' = Tail(toHost) /\ toDev' = toDev /\ IsAlive(Got)
           /\ UNCHANGED <<queue, active, outcome, image>>
<1>1. /\ toHost # <<>> /\ IsAlive(Got) /\ toHost' = Tail(toHost) /\ toDev' = toDev
      /\ Discover(Got.data[2], Got.data[1])
  BY DEF HandleAlive
<1>2. toHost \in Seq(Report) /\ Ids = {DefaultId} /\ (active => DefaultId \in Known)
  BY HostAlone
<1>3. Got \in Report
  BY <1>1, <1>2, Taken DEF Got
<1>4. Got.data[2] = DefaultId
  BY <1>1, <1>2, <1>3 DEF Report
<1>5. active => UNCHANGED <<combo, module>>
  BY <1>1, <1>2, <1>4 DEF Discover
<1>6. UNCHANGED <<queue, active, observing, buttons, dialog, outcome, image>>
  BY <1>1 DEF Discover
<1>7. HostSound'
  BY <1>5, <1>6 DEF HostSound
<1>8. QED
  BY <1>1, <1>6, <1>7

\* A module is removed: the upload to it is over.
LEMMA RemovalHandled ==
    ASSUME Alone, Inv, HostSound, NEW id \in Ids, ModuleRemoved(id)
    PROVE  /\ HostSound' /\ toHost' = toHost /\ toDev' = toDev /\ image' = image
           /\ active' = FALSE /\ (outcome' = outcome \/ (outcome' = "stopped" /\ ~buttons))
<1>1. id = DefaultId /\ (active => module = DefaultId) /\ ~dialog
  BY HostAlone DEF HostSound
<1>2. UNCHANGED <<dialog, image, linkVars>>
  BY DEF ModuleRemoved
<1>3. CASE module = id
  <2>1. /\ active' = FALSE /\ buttons' = TRUE
        /\ outcome' = IF buttons THEN outcome ELSE "stopped"
    BY <1>3 DEF ModuleRemoved
  <2>2. HostSound'
    BY <1>1, <1>2, <2>1 DEF HostSound
  <2>3. QED
    BY <1>2, <2>1, <2>2 DEF linkVars
<1>4. CASE module # id
  <2>1. ~active /\ UNCHANGED <<active, buttons, outcome>>
    BY <1>1, <1>4 DEF ModuleRemoved
  <2>2. active = FALSE
    BY <2>1, OneModule DEF HostTypeOK
  <2>3. ~dialog' /\ active' = FALSE /\ active' = ~buttons'
    BY <1>1, <1>2, <2>1, <2>2, Zenon DEF HostSound
  <2>4. HostSound'
    BY <2>3, Zenon DEF HostSound
  <2>5. QED
    BY <1>2, <2>1, <2>3, <2>4 DEF linkVars
<1>5. QED
  BY <1>3, <1>4

\* Events that do not concern the upload: time, and the combo box, which is
\* enabled when there is none.
LEMMA OtherEvents ==
    ASSUME Alone, Inv, HostSound, TimePasses \/ \E id \in Ids : ComboActivated(id)
    PROVE  /\ HostSound' /\ toHost' = toHost /\ toDev' = toDev
           /\ UNCHANGED <<queue, active, outcome, image>>
<1>1. CASE TimePasses
  BY <1>1 DEF TimePasses, HostSound, linkVars
<1>2. CASE \E id \in Ids : ComboActivated(id)
  <2>1. /\ buttons
        /\ UNCHANGED <<queue, active, observing, buttons, dialog, outcome, image, linkVars>>
    BY <1>2 DEF ComboActivated
  <2>2. ~active /\ ~dialog
    BY <2>1 DEF HostSound
  <2>3. HostSound'
    BY <2>1, <2>2 DEF HostSound
  <2>4. QED
    BY <2>1, <2>3 DEF linkVars
<1>3. QED
  BY <1>1, <1>2

\* The steps of the plugin that an upload has, with no other module about.
LEMMA HostSteps ==
    ASSUME Alone, Inv, HostSound, HostStep
    PROVE  \/ Upload \/ StopButton \/ HandleAnswer \/ HandleAlive \/ Timeout \/ PollAlive
           \/ TimePasses \/ \E id \in Ids : ComboActivated(id)
           \/ \E id \in Ids : ModuleRemoved(id)
  BY HostAlone DEF HostStep

\* Whatever the plugin does during an upload, or after one.
LEMMA HostStepKeepsTransfer ==
    ASSUME NEW h, Uploading(h), HostStep, LinkDrained, UNCHANGED <<devVars, answersLost>>, stored' = stored
    PROVE  TransferInv'
<1>1. /\ Alone /\ Inv /\ Inv' /\ ModuleSound /\ SavesImage /\ HostSound
      /\ image \in Images /\ h \in 1..Final /\ h \in Nat /\ Reached(h)
      /\ h >= 3 /\ h < Ending => (active => Received(h))
      /\ Paths /\ Paths'
  BY Was
<1>2. /\ Drop(toDev, toDev, 0) /\ Drop(toHost, toHost, 0)
      /\ toHost # <<>> => Drop(toHost, Tail(toHost), 1) /\ Got = toHost[1]
  BY <1>1, PathSteps DEF Paths, Got
<1>3. CASE Upload
  BY <1>1, <1>3, UploadStarts
<1>4. CASE StopButton
  BY <1>2, <1>4, StopEnds DEF StopButton, linkVars
<1>5. CASE HandleAnswer
  BY <1>5, AnswerHandled
<1>6. CASE HandleAlive
  <2>1. /\ HostSound' /\ toHost # <<>> /\ toHost' = Tail(toHost) /\ toDev' = toDev /\ IsAlive(Got)
        /\ UNCHANGED <<queue, active, outcome, image>>
    BY <1>1, <1>6, AliveHandled
  <2>2. Reached(h)'
    BY <1>1, <2>1, SameScript DEF Reached
  <2>3. SameStore
    BY <2>1, StoreKept DEF devVars
  <2>4. h >= 3 /\ h < Ending => (active' => Received(h)')
    BY <1>1, <1>2, <2>1, <2>3, ReceivedPassed DEF devVars
  <2>5. QED
    BY <1>2, <2>1, <2>2, <2>4, Moved
<1>7. CASE Timeout
  <2>1. CASE StopWith("stopped") /\ UNCHANGED linkVars
    BY <1>2, <2>1, StopEnds DEF linkVars
  <2>2. CASE active /\ Resend
    BY <2>2, ResendKeeps
  <2>3. QED
    BY <1>7, <2>1, <2>2 DEF Timeout
<1>8. CASE PollAlive
  BY <1>8, PollKeeps DEF PollAlive
<1>9. CASE TimePasses \/ \E id \in Ids : ComboActivated(id)
  <2>1. /\ HostSound' /\ toHost' = toHost /\ toDev' = toDev
        /\ UNCHANGED <<queue, active, outcome, image>>
    BY <1>1, <1>9, OtherEvents
  <2>2. Reached(h)'
    BY <1>1, <2>1, SameScript DEF Reached
  <2>3. SameStore
    BY <2>1, StoreKept DEF devVars
  <2>4. h >= 3 /\ h < Ending => (active' => Received(h)')
    BY <1>1, <2>1, <2>3, ReceivedKept DEF devVars
  <2>5. QED
    BY <1>2, <2>1, <2>2, <2>4, Moved
<1>10. CASE \E id \in Ids : ModuleRemoved(id)
  <2>1. /\ HostSound' /\ toHost' = toHost /\ toDev' = toDev /\ image' = image
        /\ active' = FALSE /\ (outcome' = outcome \/ (outcome' = "stopped" /\ ~buttons))
    BY <1>1, <1>10, RemovalHandled
  <2>2. Reached(h)'
    BY <1>1, <2>1, SameScript DEF Reached
  <2>3. QED
    BY <1>2, <2>1, <2>2, Moved
<1>11. QED
  BY <1>1, <1>3, <1>4, <1>5, <1>6, <1>7, <1>8, <1>9, <1>10, HostSteps

\* And before the first one.
LEMMA IdleHost ==
    ASSUME Idle, HostStep, LinkDrained, UNCHANGED <<devVars, answersLost>>, stored' = stored
    PROVE  TransferInv'
<1>1. /\ Alone /\ Inv /\ Inv' /\ ModuleSound /\ SavesImage /\ HostSound
      /\ image = NoImage /\ outcome # "done" /\ Paths
  BY OneModule DEF Idle, NothingSent
<1>2. ~active /\ buttons /\ ModuleSound' /\ SavesImage' /\ ~Pending'
  BY <1>1, IdleSame DEF HostSound
<1>3. /\ Drop(toDev, toDev, 0) /\ Drop(toHost, toHost, 0)
      /\ toHost # <<>> => Drop(toHost, Tail(toHost), 1)
  BY <1>1, PathSteps DEF Paths
<1>4. ASSUME HostSound', image' = image, outcome' # "done", toDev' = toDev,
             toHost' = toHost \/ (toHost # <<>> /\ toHost' = Tail(toHost))
      PROVE  TransferInv'
  BY <1>1, <1>2, <1>3, <1>4, IdlePaths
<1>5. CASE Upload
  BY <1>1, <1>5, UploadStarts
<1>6. CASE StopButton
  BY <1>2, <1>6 DEF StopButton
<1>7. CASE HandleAnswer
  BY <1>1, <1>2, <1>4, <1>7, SameHost DEF HandleAnswer, hostVars
<1>8. CASE HandleAlive
  BY <1>1, <1>4, <1>8, AliveHandled
<1>9. CASE Timeout
  <2>1. StopWith("stopped") /\ UNCHANGED linkVars
    BY <1>2, <1>9 DEF Timeout
  <2>2. /\ active' = FALSE /\ buttons' = TRUE /\ outcome' = outcome
        /\ UNCHANGED <<dialog, image, toDev, toHost>>
    BY <1>2, <2>1 DEF StopWith, Stop, linkVars
  <2>3. HostSound'
    BY <1>1, <2>2 DEF HostSound
  <2>4. QED
    BY <1>1, <1>4, <2>2, <2>3
<1>10. CASE PollAlive
  <2>1. Push(AliveRequest) /\ UNCHANGED <<hostVars, toHost>>
    BY <1>10 DEF PollAlive
  <2>2. AliveRequest \in Message
    <3>1. <<>> \in Seq(Nat)
      OBVIOUS
    <3>2. QED
      BY <3>1 DEF AliveRequest, Msg, Message, Broadcast
  <2>3. Appended(toDev, toDev', AliveRequest)
    BY <1>1, <2>1, <2>2, PathSteps DEF Paths, Push
  <2>4. HostSound' /\ image' = image /\ outcome' = outcome
    BY <1>1, <2>1, SameHost
  <2>5. QED
    BY <1>1, <1>2, <1>3, <2>1, <2>3, <2>4, IdlePaths
<1>11. CASE TimePasses \/ \E id \in Ids : ComboActivated(id)
  BY <1>1, <1>4, <1>11, OtherEvents
<1>12. CASE \E id \in Ids : ModuleRemoved(id)
  BY <1>1, <1>4, <1>12, RemovalHandled
<1>13. QED
  BY <1>1, <1>5, <1>6, <1>7, <1>8, <1>9, <1>10, <1>11, <1>12, HostSteps

-----------------------------------------------------------------------------
(* The invariant of every state.                                            *)
\* Before anything has happened.
LEMMA TransferInit ==
    ASSUME Alone, Init
    PROVE  TransferInv
<1>1. /\ mode \in {"boot"} \cup (IF eeprom.state = BOOT_NORMAL THEN {"app"} ELSE {})
      /\ flash = InitialFlash(App) /\ skew = 0 /\ off = 0 /\ answer = NoMessage
      /\ eeprom \in {[state |-> s, id |-> DefaultId, delay |-> DefaultDelay] :
                        s \in {BOOT_NORMAL, BOOT_IDLE}} \cup {ErasedConfig}
      /\ IF eeprom.id = 255 THEN config = FirstConfig /\ ph = "eraseConfig"
                            ELSE config = eeprom /\ ph = "loop"
  BY DEF Init, DevInit
<1>2. /\ toDev = <<>> /\ toHost = <<>> /\ active = FALSE /\ buttons = TRUE
      /\ dialog = FALSE /\ outcome = "none" /\ image = NoImage
      /\ stored = NoImage
  BY DEF Init, LinkInit, HostInit
<1>3. Untouched /\ Whole /\ ~Pending /\ answer.cmd = "RESET"
  BY <1>1, <1>2 DEF Untouched, Whole, Pending, NoMessage, Boot, Msg
<1>4. /\ eeprom = ErasedConfig \/ eeprom.id = DefaultId
      /\ mode = "app" => ph = "loop"
      /\ ph = "loop" \/ (ph = "eraseConfig" /\ config.state # BOOT_NORMAL)
  <2>1. CASE eeprom = ErasedConfig
    BY <1>1, <2>1 DEF ErasedConfig, FirstConfig, BOOT_NORMAL, BOOT_IDLE
  <2>2. CASE eeprom # ErasedConfig
    <3>1. eeprom.id = DefaultId /\ DefaultId # 255
      BY <1>1, <2>2, DeviceAssumption
    <3>2. QED
      BY <1>1, <3>1
  <2>3. QED
    BY <2>1, <2>2
<1>5. off # PageSize
  BY <1>1, DeviceAssumption
<1>6. ModuleSound
  BY <1>1, <1>3, <1>4, <1>5 DEF ModuleSound, Writing, Saving
<1>7. SavesImage
  BY <1>4 DEF SavesImage, Saving
<1>8. HostSound
  BY <1>2 DEF HostSound
<1>9. NothingSent
  BY <1>2, <1>3 DEF NothingSent
<1>10. QED
  BY <1>2, <1>6, <1>7, <1>8, <1>9 DEF TransferInv

\* An upload that has been started is at some message of its script.
LEMMA AtMessage ==
    ASSUME Alone, Inv, Inv', TransferInv
    PROVE  Idle \/ \E h \in 1..Final : Uploading(h)
<1>1. CASE image = NoImage
  BY <1>1 DEF TransferInv, Idle
<1>2. CASE image # NoImage
  <2>1. image \in Images
    BY <1>2, OneModule
  <2>2. PICK h \in 1..Final : Progress(h) /\ FromImage(h)
    BY <1>2 DEF TransferInv
  <2>3. Uploading(h)
    BY <2>1, <2>2 DEF TransferInv, Uploading
  <2>4. QED
    BY <2>3
<1>3. QED
  BY <1>1, <1>2

\* What a step may be.
LEMMA StepCases ==
    ASSUME Next /\ LinkDrained
    PROVE  \/ DevNext /\ Stores /\ UNCHANGED <<hostVars, answersLost>>
           \/ HostStep /\ LinkDrained /\ UNCHANGED <<devVars, answersLost>> /\ stored' = stored
           \/ LoseRequest /\ UNCHANGED <<devVars, hostVars, answersLost, stored>>
           \/ LoseAnswer /\ answersLost' /\ UNCHANGED <<devVars, hostVars>> /\ stored' = stored
  BY DEF Next

\* Every step keeps it.
LEMMA TransferNext ==
    ASSUME Alone, Inv, Inv', TransferInv, Next /\ LinkDrained
    PROVE  TransferInv'
<1>1. CASE Idle
  BY <1>1, StepCases, IdleDev, IdleHost, IdleLoss
<1>2. CASE \E h \in 1..Final : Uploading(h)
  <2>1. PICK h : Uploading(h)
    BY <1>2
  <2>2. CASE LoseRequest /\ UNCHANGED <<devVars, hostVars, answersLost, stored>>
    BY <2>1, <2>2, TakeKeeps DEF LoseRequest
  <2>3. QED
    BY <2>1, <2>2, StepCases, DevNextKeeps, HostStepKeepsTransfer, LossKeeps
<1>3. QED
  BY <1>1, <1>2, AtMessage

\* So does a step that changes nothing.
LEMMA TransferStutters ==
    ASSUME Alone, Inv, Inv', TransferInv, UNCHANGED vars
    PROVE  TransferInv'
<1>1. UNCHANGED devVars /\ UNCHANGED hostVars /\ toDev' = toDev /\ toHost' = toHost
      /\ answersLost' = answersLost /\ stored' = stored
  BY DEF vars, linkVars
<1>2. Paths
  BY OneModule
<1>3. Drop(toDev, toDev', 0) /\ Drop(toHost, toHost', 0)
  BY <1>1, <1>2, PathSteps DEF Paths
<1>4. CASE Idle
  BY <1>1, <1>3, <1>4, SameHost, IdleSame, IdlePaths DEF Idle, NothingSent
<1>5. CASE \E h \in 1..Final : Uploading(h)
  <2>1. PICK h : Uploading(h)
    BY <1>5
  <2>2. HostSound' /\ Reached(h)' /\ image' = image /\ active' = active /\ Paths' /\ h \in Nat
        /\ (h >= 3 /\ h < Ending => (active => Received(h)))
    BY <1>1, <2>1, SameHost, Was
  <2>3. SameStore
    BY <1>1, <2>2, StoreKept DEF devVars
  <2>4. h >= 3 /\ h < Ending => (active' => Received(h)')
    BY <1>1, <1>2, <2>1, <2>2, <2>3, ReceivedKept DEF devVars
  <2>5. QED
    BY <1>1, <1>3, <2>1, <2>2, <2>4, Moved
<1>6. QED
  BY <1>4, <1>5, AtMessage

\* The invariant holds of a module that is alone, while uploads start on idle paths.
THEOREM AlwaysTransfer ==
    ASSUME Alone
    PROVE  DrainedSpec => [](Inv /\ TransferInv)
<1>1. Init => Inv /\ TransferInv
  BY InitInv, TransferInit
<1>2. Inv /\ TransferInv /\ [Next /\ LinkDrained]_vars => Inv' /\ TransferInv'
  <2> SUFFICES ASSUME Inv, TransferInv, [Next /\ LinkDrained]_vars PROVE Inv' /\ TransferInv'
    OBVIOUS
  <2>1. Inv'
    BY StepInv
  <2>2. QED
    BY <2>1, TransferNext, TransferStutters
<1>3. QED
  BY <1>1, <1>2, PTL DEF DrainedSpec

\* A module that runs its application, or would after a reset, has the one of the
\* factory untouched, or every page rewritten of the image that flash was last
\* erased for, however the uploads before went (main.c:462).
THEOREM AlwaysBootable ==
    ASSUME Alone
    PROVE  DrainedSpec => []BootableMeansWhole
<1>1. TransferInv => BootableMeansWhole
  BY DEF TransferInv, ModuleSound, BootableMeansWhole
<1>2. QED
  BY <1>1, AlwaysTransfer, PTL

\* "Done programming." is printed only when flash holds the image, unless an
\* answer was lost on its way.
THEOREM DoneIsTrue ==
    ASSUME Alone
    PROVE  DrainedSpec => []DoneUnlessAnswerLost
<1>1. Inv /\ TransferInv => DoneUnlessAnswerLost
  <2> SUFFICES ASSUME Inv, TransferInv, ~answersLost, outcome = "done" PROVE Holds(image)
    BY DEF DoneUnlessAnswerLost, DoneMeansProgrammed
  <2>1. image # NoImage /\ image \in Images
    BY OneModule DEF TransferInv, NothingSent
  <2>2. PICK h \in 1..Final : Progress(h)
    BY <2>1 DEF TransferInv
  <2>3. h = Final /\ ScriptSound
    BY <2>1, <2>2, ScriptNow DEF Progress, Reached
  <2>4. h >= FirstChunk /\ ~(h < Ending)
    BY <2>3 DEF ScriptSound, FirstChunk
  <2>5. QED
    BY <2>2, <2>4 DEF Progress, Complete
<1>2. QED
  BY <1>1, AlwaysTransfer, PTL

-----------------------------------------------------------------------------
(* The upload implements FirmwareUpdate.                                    *)
\* What FirmwareUpdate sees of a state, but for the images in memory.
Bootable == eeprom.state = BOOT_NORMAL
Told     == IF outcome \in {"error", "stopped"} THEN "failed" ELSE outcome

\* Memory is what flash holds.
LEMMA SameMemory ==
    ASSUME flash' = flash
    PROVE  Memory' = Memory
<1>1. /\ \A words : Holds(words)' <=> Holds(words)
      /\ Untouched' <=> Untouched
  BY DEF Holds, Untouched, Word, Pages
<1>2. QED
  BY <1>1 DEF Memory

\* A step of FirmwareUpdate, or none.
LEMMA UpdateSteps ==
    ASSUME \/ Memory' = Memory /\ image' = image /\ Bootable' = Bootable /\ Told' = Told
           \/ /\ ~Bootable /\ Memory' \subseteq Images \cup {NoImage}
              /\ image' = image /\ Bootable' = Bootable /\ Told' = Told
           \/ Bootable' = FALSE /\ Memory' = Memory /\ image' = image /\ Told' = Told
           \/ /\ Memory \cap Images # {}
              /\ Bootable' = TRUE /\ Memory' = Memory /\ image' = image /\ Told' = Told
           \/ image' \in Images /\ Told' = "none" /\ Memory' = Memory /\ Bootable' = Bootable
           \/ /\ Told = "none" /\ ((image \in Memory /\ Bootable /\ Told' = "done") \/ Told' = "failed")
              /\ Memory' = Memory /\ image' = image /\ Bootable' = Bootable
    PROVE  [Update!Next]_(Update!vars)
  BY DEF Bootable, Told, Update!Next, Update!vars, Update!Write, Update!Disable,
         Update!Enable, Update!Begin, Update!Finish

\* It starts where FirmwareUpdate does.
LEMMA UpdateInit == Init => Update!Init
<1> SUFFICES ASSUME Init PROVE Update!Init
  OBVIOUS
<1>1. NoImage \in Memory
  BY DEF Init, DevInit, Memory, Untouched
<1>2. Memory \subseteq Images \cup {NoImage}
  BY DEF Memory
<1>3. QED
  BY <1>1, <1>2 DEF Update!Init, Init, HostInit

\* The steps of the module: only its handlers write, flash while it is not
\* bootable, and the row that makes it bootable with an image in memory.
LEMMA UpdateDev ==
    ASSUME Alone, Inv, TransferInv, DevNext, UNCHANGED <<hostVars, answersLost>>, ~answersLost
    PROVE  [Update!Next]_(Update!vars)
<1>1. image' = image /\ Told' = Told
  BY DEF hostVars, Told
<1>2. ModuleSound /\ SavesImage
  BY DEF TransferInv
<1>3. CASE EraseConfig
  <2>1. Bootable' = FALSE /\ Memory' = Memory
    BY <1>3, SameMemory DEF EraseConfig, Bootable, ErasedConfig, BOOT_NORMAL
  <2>2. QED
    BY <1>1, <2>1, UpdateSteps
<1>4. CASE ProgramConfig
  <2>1. Memory' = Memory /\ eeprom' = config /\ Saving
    BY <1>4, SameMemory DEF ProgramConfig, Saving
  <2>2. CASE config.state = BOOT_NORMAL
    <3>1. Memory \cap Images # {}
      BY <1>2, <2>1, <2>2 DEF SavesImage, Programmed, Memory
    <3>2. Bootable' = TRUE
      BY <2>1, <2>2 DEF Bootable
    <3>3. QED
      BY <1>1, <2>1, <3>1, <3>2, UpdateSteps
  <2>3. CASE config.state # BOOT_NORMAL
    <3>1. Bootable' = FALSE
      BY <2>1, <2>3 DEF Bootable
    <3>2. QED
      BY <1>1, <2>1, <3>1, UpdateSteps
  <2>4. QED
    BY <2>2, <2>3
<1>5. CASE ErasePage \/ ProgramPage
  <2>1. ~Bootable /\ Bootable' = Bootable
    BY <1>2, <1>5 DEF ErasePage, ProgramPage, ModuleSound, Writing, Bootable
  <2>2. Memory' \subseteq Images \cup {NoImage}
    BY DEF Memory
  <2>3. QED
    BY <1>1, <2>1, <2>2, UpdateSteps
<1>6. CASE UNCHANGED <<flash, eeprom>>
  <2>1. Memory' = Memory /\ Bootable' = Bootable
    BY <1>6, SameMemory DEF Bootable
  <2>2. QED
    BY <1>1, <2>1, UpdateSteps
<1>7. ASSUME BootCommand PROVE UNCHANGED <<flash, eeprom>>
  BY <1>7 DEF BootCommand, SetBaseAddr, SetState, SetDelay, Set, Get, NotImplemented,
              AnswerFirst, WriteBootConfig, WriteInc
<1>8. ASSUME Restart PROVE UNCHANGED <<flash, eeprom>>
  BY <1>8 DEF Restart
<1>9. ASSUME \/ Filtered \/ BootAlive \/ AppAlive \/ Ignore \/ Reply \/ StartApp \/ Tick
      PROVE  UNCHANGED <<flash, eeprom>>
  BY <1>9 DEF Filtered, BootAlive, AppAlive, Ignore, Reply, StartApp, Tick, devVars
<1>10. QED
  BY <1>3, <1>4, <1>5, <1>6, <1>7, <1>8, <1>9
     DEF DevNext, DevStep, AppReset, DoReset, PowerLoss

\* When the last answer is the one expected, the module has been made bootable,
\* and no answer lost flash holds the image.
LEMMA AllAnswered ==
    ASSUME NEW h, Uploading(h), ~answersLost, active, toHost # <<>>, Expected, Len(queue) = 1
    PROVE  image \in Memory /\ Bootable
<1>1. /\ image \in Images /\ h = Final /\ Final \in Nat /\ Final >= 6 /\ Final = Ending + 2
      /\ Ending \in Nat /\ Paths /\ Answers(h) /\ Prepared(h) /\ Complete /\ ~IsAlive(answer)
  <2>1. h = Final /\ Ending \in Nat /\ Ending > 3 /\ Final = Ending + 2
    BY Was, QueueIs
  <2>2. QED
    BY <2>1, Was, OneModule
<1>2. image \in Memory
  BY <1>1 DEF Complete, Memory
<1>3. toHost[1] = Script[Final] /\ 1 \in 1..Len(toHost)
  BY <1>1, QueueIs, PathSteps DEF Paths, Expected, Got
<1>4. toHost[1].cmd = "RESET" /\ ~IsAlive(toHost[1])
  <2>1. Final \in 1..Final /\ CommandAt(Final) = "RESET"
    BY <1>1 DEF CommandAt
  <2>2. QED
    BY <1>1, <1>3, <2>1, ScriptMessages
<1>5. answer.cmd # "WRITE_BOOTCONFIG"
  <2>1. Before(toHost, <<answer>>)
    BY <1>1 DEF Answers
  <2>2. Stage(toHost[1]) <= Stage(answer)
    BY <1>1, <1>3, <1>4, <2>1 DEF Before
  <2>3. QED
    BY <1>4, <2>2, Stages
<1>6. Bootable
  BY <1>1, <1>5 DEF Prepared, Bootable
<1>7. QED
  BY <1>2, <1>6

\* The steps of the plugin: it is told to start, or says how the upload ended.
LEMMA UpdateHost ==
    ASSUME Alone, Inv, Inv', TransferInv, HostStep, LinkDrained,
           UNCHANGED <<devVars, answersLost>>, stored' = stored, ~answersLost
    PROVE  [Update!Next]_(Update!vars)
<1>1. Memory' = Memory /\ Bootable' = Bootable
  BY SameMemory DEF devVars, Bootable
<1>2. HostSound
  BY DEF TransferInv
<1>3. ~buttons => active /\ outcome = "none" /\ Told = "none" /\ image # NoImage
  BY <1>2 DEF HostSound, Told
<1>4. ASSUME image' = image, outcome' = outcome PROVE [Update!Next]_(Update!vars)
  <2>1. Told' = Told
    BY <1>4 DEF Told
  <2>2. QED
    BY <1>1, <1>4, <2>1, UpdateSteps
<1>5. ASSUME image' = image, ~buttons, outcome' \in {"error", "stopped"}
      PROVE  [Update!Next]_(Update!vars)
  <2>1. Told' = "failed"
    BY <1>5 DEF Told
  <2>2. QED
    BY <1>1, <1>3, <1>5, <2>1, UpdateSteps
<1>6. ASSUME NEW result \in {"error", "stopped"}, StopWith(result)
      PROVE  [Update!Next]_(Update!vars)
  <2>1. image' = image /\ (outcome' = outcome \/ (~buttons /\ outcome' = result))
    BY <1>6 DEF StopWith
  <2>2. QED
    BY <1>4, <1>5, <2>1
<1>7. CASE Upload
  <2>1. image' \in Images /\ Told' = "none"
    BY <1>7 DEF Upload, Told
  <2>2. QED
    BY <1>1, <2>1, UpdateSteps
<1>8. CASE StopButton
  BY <1>6, <1>8 DEF StopButton
<1>9. CASE HandleAnswer
  <2>1. CASE UNCHANGED hostVars
    BY <1>4, <2>1 DEF hostVars
  <2>2. CASE active /\ Expected /\ Len(queue) = 1 /\ StopWith("done")
    <3>1. ~buttons
      BY <1>2, <2>2 DEF HostSound
    <3>2. PICK h : Uploading(h)
      BY <1>3, <3>1, AtMessage DEF Idle
    <3>3. image \in Memory /\ Bootable
      BY <1>9, <2>2, <3>2, AllAnswered DEF HandleAnswer
    <3>4. image' = image /\ Told' = "done"
      BY <2>2, <3>1 DEF StopWith, Told
    <3>5. QED
      BY <1>1, <1>3, <3>1, <3>3, <3>4, UpdateSteps
  <2>3. CASE StopWith("error")
    BY <1>6, <2>3
  <2>4. CASE Accepted
    BY <1>4, <2>4 DEF Accepted
  <2>5. QED
    BY <1>9, <2>1, <2>2, <2>3, <2>4 DEF HandleAnswer
<1>10. CASE HandleAlive
  BY <1>2, <1>4, <1>10, AliveHandled
<1>11. CASE Timeout
  <2>1. CASE Resend
    BY <1>4, <2>1 DEF Resend
  <2>2. QED
    BY <1>6, <1>11, <2>1 DEF Timeout
<1>12. CASE PollAlive
  BY <1>4, <1>12 DEF PollAlive, hostVars
<1>13. CASE TimePasses \/ \E id \in Ids : ComboActivated(id)
  BY <1>2, <1>4, <1>13, OtherEvents
<1>14. CASE \E id \in Ids : ModuleRemoved(id)
  <2>1. image' = image /\ (outcome' = outcome \/ (outcome' = "stopped" /\ ~buttons))
    BY <1>2, <1>14, RemovalHandled
  <2>2. QED
    BY <1>4, <1>5, <2>1
<1>15. QED
  BY <1>2, <1>7, <1>8, <1>9, <1>10, <1>11, <1>12, <1>13, <1>14, HostSteps

\* While no answer is lost an upload does what FirmwareUpdate allows: flash is
\* written only while the module would not start from it, the module is made
\* bootable only with an image in flash, and success only then told.
THEOREM UpdateImplemented ==
    ASSUME Alone
    PROVE  DrainedSpec => ImplementsUpdate
<1>1. ASSUME Inv, Inv', TransferInv, [Next /\ LinkDrained]_vars, ~answersLost'
      PROVE  [Update!Next]_(Update!vars)
  <2>1. CASE DevNext /\ UNCHANGED <<hostVars, answersLost>>
    BY <1>1, <2>1, UpdateDev
  <2>2. CASE HostStep /\ LinkDrained /\ UNCHANGED <<devVars, answersLost>> /\ stored' = stored
    BY <1>1, <2>2, UpdateHost
  <2>3. CASE UNCHANGED <<devVars, hostVars>>
    <3>1. Memory' = Memory /\ image' = image /\ Bootable' = Bootable /\ Told' = Told
      BY <2>3, SameMemory DEF devVars, hostVars, Bootable, Told
    <3>2. QED
      BY <3>1, UpdateSteps
  <2>4. CASE UNCHANGED vars
    BY <2>3, <2>4 DEF vars
  <2>5. CASE Next /\ LinkDrained
    BY <2>1, <2>2, <2>3, <2>5, StepCases
  <2>6. QED
    BY <1>1, <2>4, <2>5
<1>2. Inv /\ Inv' /\ TransferInv /\ [Next /\ LinkDrained]_vars
      => answersLost' \/ [Update!Next]_(Update!vars)
  BY <1>1
<1>3. QED
  BY <1>2, UpdateInit, AlwaysTransfer, PTL DEF DrainedSpec, ImplementsUpdate

=============================================================================
