------------------------------- MODULE Frames -------------------------------
(***************************************************************************)
(* The layout of frames, src/src/Frames.cpp: a frame is an array of        *)
(* FrameLength bytes, all zero when it is made, and the functions of that  *)
(* file write fields into it and read them again.  Strings are sequences   *)
(* of bytes other than 0.  The sizes are parameters; those of the code are *)
(* given with each.                                                        *)
(***************************************************************************)
EXTENDS Globals, Orders, Integers, Sequences

CONSTANTS Bits,        \* bits of a byte: 8
          IpWidth,     \* bytes of an address: 15
          PortWidth,   \* bytes of a port: 5
          NameWidth,   \* MAX_FILE_NAME_LENGTH: 512
          FrameLength  \* FRAME_LENGTH: 65542

Base == 2^Bits
IntWidth == 4
AddressEnd == 1 + IpWidth + PortWidth
ChunkAt == 2 + IntWidth
FileInfoWidth == 1 + IntWidth + NameWidth
BitmapWidth == MaxChunks \div Bits

ASSUME FramesAssumption ==
    /\ {Bits, IpWidth, PortWidth, NameWidth, FrameLength} \subseteq Nat \ {0}
    /\ Base \in Nat /\ Base > 15 /\ MaxChunks % Bits = 0
    /\ ChunkAt + ChunkSize <= FrameLength
    /\ AddressEnd + 1 + 2 * IntWidth + NameWidth <= FrameLength

Byte == 0..(Base - 1)

FrameType ==
    [HANDSHAKE_REQUEST |-> 0, HANDSHAKE_RESPONSE |-> 1, CHUNK |-> 2, CHUNK_REQUEST |-> 3,
     CHUNK_REQUEST_DECLINE |-> 4, FILE_LIST |-> 7, FILE_LIST_REQUEST |-> 8,
     NEW_FILE_AVAILABLE |-> 10, NEW_CHUNK_AVAILABLE |-> 11, CHUNK_INFO |-> 12,
     CHUNK_INFO_REQUEST |-> 13, PEER_LEAVE_NOTIFICATION |-> 14, PEER_JOIN_NOTIFICATION |-> 15]

-----------------------------------------------------------------------------
NewFrame(type) == [i \in 0..(FrameLength - 1) |-> IF i = 0 THEN FrameType[type] ELSE 0]

\* The frame with bytes in place from index at on.
Put(frame, at, bytes) ==
    [i \in DOMAIN frame |-> IF i \in at..(at + Len(bytes) - 1) THEN bytes[i - at + 1] ELSE frame[i]]

\* strcpy(), which writes the NUL as well.
StrCpy(frame, at, s) == Put(frame, at, Append(s, 0))

\* c_str() of the width bytes at index at.
Text(frame, at, width) ==
    LET len == CHOOSE k \in 0..width : /\ k = width \/ frame[at + k] = 0
                                       /\ \A j \in 0..(k - 1) : frame[at + j] # 0
    IN  [i \in 1..len |-> frame[at + i - 1]]

\* n >> 8.
Shifted(n) == n \div Base

\* copyIntToCharArray().
IntBytes(n) ==
    <<Shifted(Shifted(Shifted(n))) % Base, Shifted(Shifted(n)) % Base, Shifted(n) % Base, n % Base>>

\* Mistake: an int is read as if it had two bytes.
ParseShort(frame, at) == frame[at] * Base + frame[at + 1]

\* parseIntFromCharArray(): the highest bit is the sign.
ParseInt(frame, at) ==
    LET n == ((frame[at] * Base + frame[at + 1]) * Base + frame[at + 2]) * Base + frame[at + 3]
    IN  IF frame[at] < Base \div 2 THEN n ELSE n - Base^IntWidth

\* The integers that are read as they were written.
IntLimit == (((Base \div 2) * Base) * Base) * Base

\* std::bitset of a byte, by the place of each bit that is set, from the top.
BitsOf(byte) == {k \in 0..(Bits - 1) : (byte \div 2^(Bits - 1 - k)) % 2 = 1}

\* to_ulong().
ToByte(bits) == CHOOSE byte \in Byte : BitsOf(byte) = bits

ASSUME BitsAssumption == \A bits \in SUBSET (0..(Bits - 1)) : \E byte \in Byte : BitsOf(byte) = bits

\* portAndIp_serialization.
SetAddress(frame, ip, port) == StrCpy(StrCpy(frame, 1, ip), 1 + IpWidth, port)
GetIp(frame) == Text(frame, 1, IpWidth)
GetPort(frame) == Text(frame, 1 + IpWidth, PortWidth)

\* The name, up to and with its NUL if that is among the first NameWidth bytes.
NameBytes(name) ==
    IF Len(name) < NameWidth THEN Append(name, 0) ELSE SubSeq(name, 1, NameWidth)

-----------------------------------------------------------------------------
(***************************************************************************)
(* The create functions.  Frames of an address and nothing else are those  *)
(* of a handshake, a join and a leave.                                     *)
(***************************************************************************)
CreateAddressFrame(type, ip, port) == SetAddress(NewFrame(type), ip, port)

\* A request or a decline.
CreateChunkRequestFrame(type, fileNum, chunkNum) ==
    Put(NewFrame(type), 1, <<fileNum>> \o IntBytes(chunkNum))

CreateChunkDataFrame(fileNum, chunkNum, chunk) ==
    Put(CreateChunkRequestFrame("CHUNK", fileNum, chunkNum), ChunkAt, chunk)

\* The address comes last, over what its last NUL hits.
CreateNewChunkAvailableFrame(fileNum, chunkNum, ip, port) ==
    SetAddress(Put(NewFrame("NEW_CHUNK_AVAILABLE"), AddressEnd, <<fileNum>> \o IntBytes(chunkNum)),
               ip, port)

\* Mistake: the size and the number of chunks change places.
CreateNewFileSwapped(file, ip, port) ==
    Put(CreateAddressFrame("NEW_FILE_AVAILABLE", ip, port), AddressEnd,
        <<file.fileNum>> \o IntBytes(file.fileSize) \o IntBytes(file.chunkCount)
            \o NameBytes(file.fileName))

CreateNewFileAvailableFrame(file, ip, port) ==
    Put(CreateAddressFrame("NEW_FILE_AVAILABLE", ip, port), AddressEnd,
        <<file.fileNum>> \o IntBytes(file.chunkCount) \o IntBytes(file.fileSize)
            \o NameBytes(file.fileName))

\* Rows one after another from index at on, width bytes apart, none longer.
PutRows(frame, at, width, rows) ==
    LET row(i) == (i - at) \div width + 1
        place(i) == ((i - at) % width) + 1
    IN  [i \in DOMAIN frame |->
            IF i >= at /\ row(i) \in DOMAIN rows /\ place(i) \in DOMAIN rows[row(i)]
            THEN rows[row(i)][place(i)] ELSE frame[i]]

EntryBytes(file) == <<file.fileNum>> \o IntBytes(file.fileSize) \o NameBytes(file.fileName)

CreateFileListFrame(files) ==
    PutRows(Put(NewFrame("FILE_LIST"), 1, <<Len(files)>>), 2, FileInfoWidth,
            [k \in DOMAIN files |-> EntryBytes(files[k])])

\* Chunk first + k is the k-th bit from the top.
Bitmap(chunks) ==
    [j \in 1..BitmapWidth |-> ToByte({k \in 0..(Bits - 1) : (j - 1) * Bits + k \in chunks})]

EntryAt(k) == AddressEnd + 1 + (k - 1) * (1 + BitmapWidth)

\* chunkMap gives each file number the set of its chunks; rows are in the order
\* of the numbers.
CreateChunkInfoFrame(fileCount, ip, port, chunkMap) ==
    LET nums == InOrder(DOMAIN chunkMap)
    IN  PutRows(Put(CreateAddressFrame("CHUNK_INFO", ip, port), AddressEnd, <<fileCount>>),
                EntryAt(1), 1 + BitmapWidth,
                [k \in DOMAIN nums |-> <<nums[k]>> \o Bitmap(chunkMap[nums[k]])])

-----------------------------------------------------------------------------
(***************************************************************************)
(* The get functions.                                                      *)
(***************************************************************************)
GetFrameType(frame) == CHOOSE type \in DOMAIN FrameType : FrameType[type] = frame[0]

GetFileNum(frame) == frame[1]
GetChunkNum(frame) == ParseInt(frame, 2)
GetChunk(frame) == [i \in 1..ChunkSize |-> frame[ChunkAt + i - 1]]

\* Mistake: the field is taken to start one byte later.
GetNewFileNumShifted(frame) == frame[AddressEnd + 1]

GetNewFileNum(frame) == frame[AddressEnd]
GetNewChunkNum(frame) == ParseInt(frame, AddressEnd + 1)

\* parseFileInfo().
GetFileInfo(frame) ==
    [fileNum |-> frame[AddressEnd],
     chunkCount |-> ParseInt(frame, AddressEnd + 1),
     fileSize |-> ParseInt(frame, AddressEnd + 1 + IntWidth),
     fileName |-> Text(frame, AddressEnd + 1 + 2 * IntWidth, NameWidth)]

\* parseFileInfoNoChunkCount(), for each entry.
GetFileInfos(frame) ==
    [i \in 1..frame[1] |->
        LET at == 2 + (i - 1) * FileInfoWidth
        IN  [fileNum |-> frame[at], fileSize |-> ParseInt(frame, at + 1),
             fileName |-> Text(frame, at + 1 + IntWidth, NameWidth)]]

\* Of two entries with one number, the first.
GetChunkMap(frame) ==
    LET entries == 1..frame[AddressEnd]
        entry(num) == CHOOSE k \in entries : /\ frame[EntryAt(k)] = num
                                             /\ \A j \in 1..(k - 1) : frame[EntryAt(j)] # num
    IN  [num \in {frame[EntryAt(k)] : k \in entries} |->
            {c \in 0..(MaxChunks - 1) :
                (c % Bits) \in BitsOf(frame[EntryAt(entry(num)) + 1 + (c \div Bits)])}]
=============================================================================
