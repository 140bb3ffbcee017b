--------------------------- MODULE TransferProofs ---------------------------
(***************************************************************************)
(* Proofs about Transfer, for files, chunks, frames and fields of any      *)
(* size: frames are read as they were meant, the lists of the two nodes    *)
(* agree, and what the copy has marked is on its disk as it was inserted.  *)
(***************************************************************************)
EXTENDS Transfer, BytesProofs

\* The NUL of the port of the copy does not leave its field.
PortFits == Len(Address["copy"].port) < PortWidth

-----------------------------------------------------------------------------
(***************************************************************************)
(* Frames.                                                                 *)
(***************************************************************************)
LEMMA AddressFacts ==
    ASSUME NEW n \in Node
    PROVE  /\ Address[n].ip \in Seq(Letters) /\ Len(Address[n].ip) <= IpWidth
           /\ Address[n].port \in Seq(Letters) /\ Len(Address[n].port) <= PortWidth
           /\ Address[n] = [ip |-> Address[n].ip, port |-> Address[n].port]
BY TransferAssumption DEF Letters

LEMMA TypesOfFrames ==
    {"HANDSHAKE_REQUEST", "FILE_LIST_REQUEST", "CHUNK_INFO_REQUEST", "HANDSHAKE_RESPONSE",
     "PEER_JOIN_NOTIFICATION", "CHUNK_REQUEST", "CHUNK", "NEW_CHUNK_AVAILABLE",
     "NEW_FILE_AVAILABLE", "FILE_LIST", "CHUNK_INFO"} \subseteq Kind
BY DEF Kind, FrameType

\* The frame of m is one, of the type of m, and is read as x.
IsReadAs(m, x) ==
    /\ DOMAIN Encode(m) = 0..(FrameLength - 1)
    /\ GetFrameType(Encode(m)) = m.type
    /\ Decode(Encode(m)) = x

LEMMA BareRead ==
    ASSUME NEW type \in {"HANDSHAKE_REQUEST", "FILE_LIST_REQUEST", "CHUNK_INFO_REQUEST"}
    PROVE  IsReadAs(Bare(type), Bare(type))
<1> DEFINE m == Bare(type)
           frame == NewFrame(type)
<1>1. m.type = type /\ Encode(m) = frame
  BY DEF Bare, Encode
<1>2. type \in Kind
  BY TypesOfFrames
<1>3. DOMAIN frame = 0..(FrameLength - 1) /\ frame[0] = FrameType[type]
  BY <1>2, NewFrameFacts
<1>4. GetFrameType(frame) = type
  BY <1>2, <1>3, TypeRead
<1> HIDE DEF frame
<1>5. Decode(frame) = Bare(type)
  BY <1>4 DEF Decode, Bare
<1> QED
  BY <1>1, <1>3, <1>4, <1>5 DEF IsReadAs

LEMMA FromNodeRead ==
    ASSUME NEW type \in {"HANDSHAKE_RESPONSE", "PEER_JOIN_NOTIFICATION"}, NEW n \in Node
    PROVE  IsReadAs(FromNode(type, n), FromNode(type, n))
<1> DEFINE m == FromNode(type, n)
           ip == Address[n].ip
           port == Address[n].port
           frame == CreateAddressFrame(type, ip, port)
<1>1. m.type = type /\ Encode(m) = frame
  BY DEF FromNode, Encode
<1>2. type \in Kind
  BY TypesOfFrames
<1>3. /\ ip \in Seq(Letters) /\ Len(ip) <= IpWidth
      /\ port \in Seq(Letters) /\ Len(port) <= PortWidth
  BY AddressFacts
<1>4. GetFrameType(frame) = type /\ GetIp(frame) = ip /\ GetPort(frame) = port
  <2> HIDE DEF ip, port
  <2> QED
    BY <1>2, <1>3, AddressIsRead
<1>5. DOMAIN frame = 0..(FrameLength - 1)
  BY DEF CreateAddressFrame, SetAddress, StrCpy, Put, NewFrame
<1>6. Decode(frame) = FromNode(type, n)
  <2> HIDE DEF frame
  <2> QED
    BY <1>4 DEF Decode, FromNode
<1> QED
  BY <1>1, <1>4, <1>5, <1>6 DEF IsReadAs

\* Numbers of chunks that an int holds.
Numbers == 0..(IntLimit - 1)

LEMMA NumbersAreInts == \A c \in Numbers : c \in Nat /\ c < IntLimit
BY IntLimitType DEF Numbers

LEMMA AboutChunkRead ==
    ASSUME NEW num \in Byte, NEW c \in Numbers
    PROVE  IsReadAs(AboutChunk("CHUNK_REQUEST", num, c), AboutChunk("CHUNK_REQUEST", num, c))
<1> DEFINE type == "CHUNK_REQUEST"
           m == AboutChunk(type, num, c)
           frame == CreateChunkRequestFrame(type, num, c)
<1>1. m.type = type /\ Encode(m) = frame
  BY DEF AboutChunk, Encode
<1>2. type \in Kind
  BY TypesOfFrames
<1>3. GetFrameType(frame) = type /\ GetFileNum(frame) = num /\ GetChunkNum(frame) = c
  <2> HIDE DEF type
  <2> QED
    BY <1>2, NumbersAreInts, RequestIsRead
<1>4. DOMAIN frame = 0..(FrameLength - 1)
  BY DEF CreateChunkRequestFrame, Put, NewFrame
<1>5. Decode(frame) = AboutChunk(type, num, c)
  <2> HIDE DEF frame
  <2> QED
    BY <1>3 DEF Decode, AboutChunk
<1> QED
  BY <1>1, <1>3, <1>4, <1>5 DEF IsReadAs

LEMMA ChunkMessageRead ==
    ASSUME NEW num \in Byte, NEW c \in Numbers, NEW chunk \in [1..ChunkSize -> Byte]
    PROVE  IsReadAs(ChunkMessage(num, c, chunk), ChunkMessage(num, c, chunk))
<1> DEFINE m == ChunkMessage(num, c, chunk)
           frame == CreateChunkDataFrame(num, c, chunk)
<1>1. m.type = "CHUNK" /\ Encode(m) = frame
  BY DEF ChunkMessage, Encode
<1>2. /\ GetFrameType(frame) = "CHUNK"
      /\ GetFileNum(frame) = num /\ GetChunkNum(frame) = c
      /\ GetChunk(frame) = chunk
  BY NumbersAreInts, ChunkIsRead
<1>3. DOMAIN frame = 0..(FrameLength - 1)
  BY DEF CreateChunkDataFrame, CreateChunkRequestFrame, Put, NewFrame
<1>4. Decode(frame) = ChunkMessage(num, c, chunk)
  <2> HIDE DEF frame
  <2> QED
    BY <1>2 DEF Decode, ChunkMessage
<1> QED
  BY <1>1, <1>2, <1>3, <1>4 DEF IsReadAs

\* The number of the file is read as 0 if the port fills its field.
LEMMA NewChunkRead ==
    ASSUME NEW num \in Byte, NEW c \in Numbers
    PROVE  IsReadAs(NewChunk(num, c), NewChunk(IF PortFits THEN num ELSE 0, c))
<1> DEFINE m == NewChunk(num, c)
           ip == Address["copy"].ip
           port == Address["copy"].port
           frame == CreateNewChunkAvailableFrame(num, c, ip, port)
<1>1. m.type = "NEW_CHUNK_AVAILABLE" /\ Encode(m) = frame
  BY DEF NewChunk, Encode
<1>2. /\ ip \in Seq(Letters) /\ Len(ip) <= IpWidth
      /\ port \in Seq(Letters) /\ Len(port) <= PortWidth
  BY AddressFacts DEF Node
<1>3. /\ GetFrameType(frame) = "NEW_CHUNK_AVAILABLE"
      /\ GetIp(frame) = ip /\ GetPort(frame) = port
      /\ GetNewFileNum(frame) = IF Len(port) = PortWidth THEN 0 ELSE num
      /\ GetNewChunkNum(frame) = c
  <2> HIDE DEF ip, port
  <2> QED
    BY <1>2, NumbersAreInts, NewChunkIsRead
<1>4. Len(port) = PortWidth <=> ~PortFits
  <2>1. Len(port) \in Nat /\ PortWidth \in Nat
    BY <1>2, LenProperties, Sizes
  <2> QED
    BY <1>2, <2>1 DEF PortFits
<1>5. DOMAIN frame = 0..(FrameLength - 1)
  BY DEF CreateNewChunkAvailableFrame, SetAddress, StrCpy, Put, NewFrame
<1>6. Decode(frame) = NewChunk(IF PortFits THEN num ELSE 0, c)
  <2> HIDE DEF frame
  <2> QED
    BY <1>3, <1>4 DEF Decode, NewChunk
<1> QED
  BY <1>1, <1>3, <1>5, <1>6 DEF IsReadAs

LEMMA NewFileRead ==
    ASSUME NEW file \in Announced
    PROVE  IsReadAs(NewFile(file), NewFile(file))
<1> DEFINE m == NewFile(file)
           ip == Address["source"].ip
           port == Address["source"].port
           frame == CreateNewFileAvailableFrame(file, ip, port)
<1>1. m.type = "NEW_FILE_AVAILABLE" /\ Encode(m) = frame
  BY DEF NewFile, Encode
<1>2. /\ ip \in Seq(Letters) /\ Len(ip) <= IpWidth
      /\ port \in Seq(Letters) /\ Len(port) <= PortWidth
  BY AddressFacts DEF Node
<1>3. /\ GetFrameType(frame) = "NEW_FILE_AVAILABLE"
      /\ GetIp(frame) = ip /\ GetPort(frame) = port
      /\ GetFileInfo(frame) = file
  <2> HIDE DEF ip, port
  <2> QED
    BY <1>2, NewFileIsRead
<1>4. DOMAIN frame = 0..(FrameLength - 1)
  BY DEF CreateNewFileAvailableFrame, CreateAddressFrame, SetAddress, StrCpy, Put, NewFrame
<1>5. Decode(frame) = NewFile(file)
  <2> HIDE DEF frame
  <2> QED
    BY <1>3 DEF Decode, NewFile
<1> QED
  BY <1>1, <1>3, <1>4, <1>5 DEF IsReadAs

LEMMA ProductOrder ==
    ASSUME NEW a \in Nat, NEW b \in Nat, NEW w \in Nat, a <= b
    PROVE  a * w <= b * w
BY SMT

LEMMA FileListRead ==
    ASSUME NEW files \in Seq(Listed), Len(files) <= Cardinality(Name)
    PROVE  IsReadAs(FileList(files), FileList(files))
<1> DEFINE m == FileList(files)
           frame == CreateFileListFrame(files)
           n == Cardinality(Name)
<1>1. m.type = "FILE_LIST" /\ Encode(m) = frame
  BY DEF FileList, Encode
<1>2. Len(files) \in Byte /\ 2 + Len(files) * FileInfoWidth <= FrameLength
  <2>1. n \in Byte /\ 2 + n * FileInfoWidth <= FrameLength
    BY TransferAssumption
  <2>2. Len(files) \in Nat /\ FileInfoWidth \in Nat /\ n \in Nat /\ FrameLength \in Nat
    BY <2>1, Sizes, LenProperties DEF FileInfoWidth, Byte
  <2>3. Len(files) * FileInfoWidth <= n * FileInfoWidth
    BY <2>2, ProductOrder
  <2>4. Len(files) * FileInfoWidth \in Nat /\ n * FileInfoWidth \in Nat
    BY <2>2, ProductType
  <2>5. Base \in Nat
    BY Sizes
  <2> QED
    BY <2>1, <2>2, <2>3, <2>4, <2>5 DEF Byte
<1>3. GetFrameType(frame) = "FILE_LIST" /\ GetFileInfos(frame) = files
  BY <1>2, FileListIsRead
<1>4. DOMAIN frame = 0..(FrameLength - 1)
  BY DEF CreateFileListFrame, PutRows, Put, NewFrame
<1>5. Decode(frame) = FileList(files)
  <2> HIDE DEF frame
  <2> QED
    BY <1>3 DEF Decode, FileList
<1> QED
  BY <1>1, <1>3, <1>4, <1>5 DEF IsReadAs

LEMMA ChunkInfoRead ==
    ASSUME NEW n \in 0..Cardinality(Name), NEW chunkMap \in [0..(n - 1) -> SUBSET (0..(MaxChunks - 1))]
    PROVE  IsReadAs(ChunkInfo(chunkMap), ChunkInfo(chunkMap))
<1> DEFINE m == ChunkInfo(chunkMap)
           ip == Address["source"].ip
           port == Address["source"].port
           frame == CreateChunkInfoFrame(n, ip, port, chunkMap)
           all == Cardinality(Name)
           W == 1 + BitmapWidth
<1>1. n \in Byte /\ EntryAt(n + 1) <= FrameLength
  <2>1. all \in Byte /\ EntryAt(all + 1) <= FrameLength
    BY TransferAssumption
  <2>2. n \in Nat /\ all \in Nat /\ n <= all /\ Base \in Nat /\ FrameLength \in Nat /\ AddressEnd \in Nat
    BY <2>1, Sizes DEF Byte
  <2>3. W \in Nat
    BY BitmapFacts
  <2>4. EntryAt(n + 1) = AddressEnd + 1 + n * W /\ EntryAt(all + 1) = AddressEnd + 1 + all * W
    <3>1. (n + 1) - 1 = n /\ (all + 1) - 1 = all
      BY <2>2
    <3> QED
      BY <3>1 DEF EntryAt
  <2>5. n * W <= all * W /\ n * W \in Nat /\ all * W \in Nat
    <3> HIDE DEF all, W
    <3> QED
      BY <2>2, <2>3, SMT
  <2> QED
    BY <2>1, <2>2, <2>4, <2>5 DEF Byte
<1>2. m.type = "CHUNK_INFO" /\ Encode(m) = frame
  <2>1. Cardinality(DOMAIN chunkMap) = n
    <3>1. DOMAIN chunkMap = 0..(n - 1) /\ n \in Nat
      BY <1>1, Sizes DEF Byte
    <3> QED
      BY <3>1, FS_Interval
  <2> QED
    BY <2>1 DEF ChunkInfo, Encode
<1>3. /\ ip \in Seq(Letters) /\ Len(ip) <= IpWidth
      /\ port \in Seq(Letters) /\ Len(port) <= PortWidth
  BY AddressFacts DEF Node
<1>4. /\ GetFrameType(frame) = "CHUNK_INFO"
      /\ GetIp(frame) = ip /\ GetPort(frame) = port
      /\ GetChunkMap(frame) = chunkMap
  <2> HIDE DEF ip, port
  <2> QED
    BY <1>1, <1>3, ChunkInfoIsRead
<1>5. DOMAIN frame = 0..(FrameLength - 1)
  BY DEF CreateChunkInfoFrame, CreateAddressFrame, SetAddress, StrCpy, PutRows, Put, NewFrame
<1>6. Decode(frame) = ChunkInfo(chunkMap)
  <2> HIDE DEF frame
  <2> QED
    BY <1>4 DEF Decode, ChunkInfo
<1> QED
  BY <1>2, <1>4, <1>5, <1>6 DEF IsReadAs
-----------------------------------------------------------------------------
(***************************************************************************)
(* The invariant.                                                          *)
(***************************************************************************)
ChunkNumbers == 0..(MaxChunks - 1)
EntriesOf(files, chunks) == [file : files, has : SUBSET chunks]
FilesIn(entries) == {entries[i].file : i \in DOMAIN entries}

\* The file named f of Content, as the source lists it.
Recorded(num, f) ==
    [fileNum |-> num, chunkCount |-> ChunkCount(Size(Content[f])), fileSize |-> Size(Content[f]),
     fileName |-> f]

Recordable == {Recorded(num, f) : num \in 0..(Cardinality(Name) - 1), f \in Name}

OnNodes(f) == f = [n \in Node |-> f[n]]

\* Functions on the nodes, which TypeOK leaves open, and the states.
Types ==
    /\ OnNodes(store) /\ OnNodes(list) /\ OnNodes(remote) /\ OnNodes(req)
    /\ state \in {"UNKNOWN", "INITIALIZING", "WAITING_FOR_FILE_LIST", "WAITING_FOR_CHUNK_INFO", "ONLINE"}
    /\ view \in [Node -> {"OFFLINE", "WAITING_FOR_HANDSHAKE", "ONLINE"}]

\* The source numbers its files from 0 on, lists each once, and has all of it.
IsSourceList(entries) ==
    /\ entries \in Seq(EntriesOf(Recordable, ChunkNumbers))
    /\ \A i \in DOMAIN entries : /\ entries[i].file.fileNum = i - 1
                                /\ entries[i].has = Chunks(entries[i].file)
    /\ \A i, j \in DOMAIN entries : entries[i].file.fileName = entries[j].file.fileName => i = j

SourceInv == IsSourceList(list["source"])

\* The copy lists files of the source, the same for itself and for the source.
CopyInv ==
    /\ list["copy"] \in Seq(EntriesOf(FilesIn(list["source"]), ChunkNumbers))
    /\ remote["copy"] \in Seq(EntriesOf(FilesIn(list["source"]), ChunkNumbers))
    /\ Len(remote["copy"]) = Len(list["copy"])
    /\ \A i \in DOMAIN list["copy"] : remote["copy"][i].file = list["copy"][i].file
    /\ queued \subseteq NumsIn(list["copy"])

\* Chunks that a list has, and chunks of the files in a list.
Held(entries) ==
    {p \in Byte \X Numbers : \E i \in DOMAIN entries :
        p[1] = entries[i].file.fileNum /\ p[2] \in entries[i].has}
ChunksOf(files) == {p \in Byte \X Numbers : \E file \in files : p[1] = file.fileNum /\ p[2] \in Chunks(file)}

AnnouncedInv ==
    /\ remote["source"] \in Seq(EntriesOf(FilesIn(list["source"]), Numbers))
    /\ PortFits => Held(remote["source"]) \subseteq Held(list["copy"])

LeftOf(f) == UNION {DOMAIN old[f] : old \in {old \in Leftover : f \in DOMAIN old}}

\* Whether what the directory disk has of chunk c of a file is there, and is right.
IsStored(disk, file, c) ==
    /\ c \in Chunks(file) /\ file.fileName \in DOMAIN disk
    /\ \A k \in Span(c, file.fileSize) :
         /\ k \in DOMAIN disk[file.fileName]
         /\ file.fileName \notin Vanishing => disk[file.fileName][k] = Content[file.fileName][k]

DiskInv ==
    /\ \A n \in Node : \A f \in DOMAIN store[n] : f \in Name /\ IsContent(store[n][f])
    /\ \A file \in FilesIn(list["source"]) : file.fileName \notin Vanishing =>
         /\ file.fileName \in DOMAIN store["source"]
         /\ store["source"][file.fileName] = Content[file.fileName]
    /\ \A f \in DOMAIN store["copy"] : DOMAIN store["copy"][f] \subseteq DOMAIN Content[f] \cup LeftOf(f)
    /\ \A i \in DOMAIN list["copy"] : \A c \in list["copy"][i].has :
         IsStored(store["copy"], list["copy"][i].file, c)

-----------------------------------------------------------------------------
\* What may be on its way: to the source, to the copy, and in reply.
Transit(messages) == {InTransit(m) : m \in messages}

ToSource(entries) ==
    {Bare("HANDSHAKE_REQUEST"), Bare("FILE_LIST_REQUEST"), Bare("CHUNK_INFO_REQUEST"),
     FromNode("PEER_JOIN_NOTIFICATION", "copy")}
    \cup {AboutChunk("CHUNK_REQUEST", p[1], p[2]) : p \in ChunksOf(FilesIn(entries))}
    \cup {NewChunk(p[1], p[2]) : p \in Held(entries)}

ToCopy(files) == {NewFile(file) : file \in files}

\* The bytes of chunk c of a file that was not deleted.
IsRight(file, c, chunk) ==
    file.fileName \notin Vanishing =>
        \A k \in Span(c, file.fileSize) : chunk[k - c * ChunkSize + 1] = Content[file.fileName][k]

ReadsOf(files) ==
    {r \in [file : files, c : Numbers, chunk : [1..ChunkSize -> Byte]] :
        r.c \in Chunks(r.file) /\ IsRight(r.file, r.c, r.chunk)}

Maps == UNION {[0..(n - 1) -> SUBSET ChunkNumbers] : n \in 0..Cardinality(Name)}

Replies(files, copied) ==
    {FromNode("HANDSHAKE_RESPONSE", "source")}
    \cup {FileList(s) : s \in {s \in Seq({InList(file) : file \in files}) : Len(s) <= Cardinality(Name)}}
    \cup {ChunkInfo(chunkMap) : chunkMap \in Maps}
    \cup {ChunkMessage(r.file.fileNum, r.c, r.chunk) : r \in ReadsOf(copied)}

Traffic ==
    /\ req["source"] \in Seq(Transit(ToSource(list["copy"])))
    /\ req["copy"] \in Seq(Transit(ToCopy(FilesIn(list["source"]))))
    /\ rep \in Seq(Transit(Replies(FilesIn(list["source"]), FilesIn(list["copy"]))))

\* Until the copy has had its first answer there is nothing but handshakes.
Early ==
    /\ state \in {"UNKNOWN", "INITIALIZING"} =>
         /\ queued = {} /\ view["source"] # "ONLINE" /\ req["copy"] = <<>>
         /\ req["source"] \in Seq(Transit({Bare("HANDSHAKE_REQUEST")}))
         /\ rep \in Seq(Transit({FromNode("HANDSHAKE_RESPONSE", "source")}))
    /\ state \notin {"UNKNOWN", "INITIALIZING"} => view["copy"] = "ONLINE"

Inv == Types /\ SourceInv /\ CopyInv /\ AnnouncedInv /\ DiskInv /\ Traffic /\ Early

-----------------------------------------------------------------------------
(***************************************************************************)
(* Files and their records.                                                *)
(***************************************************************************)
LEMMA ContentForm ==
    ASSUME NEW content
    PROVE  /\ IsContent(content) => Size(content) \in Nat /\ content \in [0..(Size(content) - 1) -> Byte]
           /\ \A n \in Nat : content \in [0..(n - 1) -> Byte] => IsContent(content) /\ Size(content) = n
<1>1. ASSUME IsContent(content) PROVE Size(content) \in Nat
  BY <1>1, FS_CardinalityType DEF IsContent, Size
<1>2. ASSUME NEW n \in Nat, content \in [0..(n - 1) -> Byte] PROVE IsContent(content) /\ Size(content) = n
  <2>1. DOMAIN content = 0..(n - 1)
    BY <1>2
  <2>2. IsFiniteSet(0..(n - 1)) /\ Cardinality(0..(n - 1)) = n
    BY FS_Interval
  <2> QED
    BY <1>2, <2>1, <2>2 DEF IsContent, Size
<1> QED
  BY <1>1, <1>2 DEF IsContent

\* The number of chunks of a file is in bounds.
LEMMA CountFits ==
    ASSUME NEW size \in 1..(MaxChunks * ChunkSize)
    PROVE  ChunkCount(size) \in 1..MaxChunks /\ ChunkCount(size) <= size
<1> DEFINE count == ChunkCount(size)
           before == (count - 1) * ChunkSize
<1>1. ChunkSize \in Nat \ {0} /\ MaxChunks \in Nat \ {0} /\ MaxChunks * ChunkSize \in Nat
  BY Sizes, ProductType
<1>2. size \in Nat \ {0} /\ size <= MaxChunks * ChunkSize
  BY <1>1
<1>3. count \in Nat \ {0} /\ before \in Nat /\ before < size
  BY <1>2, CountBounds
<1> HIDE DEF count
<1>4. count <= MaxChunks
  <2>1. SUFFICES ASSUME MaxChunks <= count - 1 PROVE FALSE
    BY <1>1, <1>3
  <2>2. MaxChunks * ChunkSize <= (count - 1) * ChunkSize
    BY <1>1, <1>3, <2>1, ProductOrder
  <2> HIDE DEF before
  <2>3. MaxChunks * ChunkSize <= before
    BY <2>2 DEF before
  <2> QED
    BY <1>1, <1>2, <1>3, <2>3
<1>5. count <= size
  <2>1. (count - 1) * 1 <= (count - 1) * ChunkSize
    <3>1. 1 * (count - 1) <= ChunkSize * (count - 1)
      BY <1>1, <1>3, ProductOrder
    <3>2. ChunkSize * (count - 1) = (count - 1) * ChunkSize /\ 1 * (count - 1) = (count - 1) * 1
      BY <1>1, <1>3, ProductType
    <3> QED
      BY <3>1, <3>2
  <2>2. (count - 1) * 1 = count - 1
    BY <1>3
  <2> HIDE DEF before
  <2>3. count - 1 <= before
    BY <2>1, <2>2 DEF before
  <2> QED
    BY <1>2, <1>3, <2>3
<1> QED
  BY <1>1, <1>3, <1>4, <1>5 DEF count

LEMMA RecordedFacts ==
    ASSUME NEW file \in Recordable
    PROVE  /\ file.fileName \in Name /\ file.fileNum \in Byte
           /\ file = Recorded(file.fileNum, file.fileName)
           /\ file.fileSize = Size(Content[file.fileName]) /\ file.fileSize \in Nat \ {0}
           /\ file.fileSize < IntLimit
           /\ Content[file.fileName] \in [0..(file.fileSize - 1) -> Byte]
           /\ file.chunkCount = ChunkCount(file.fileSize) /\ file.chunkCount \in 1..MaxChunks
           /\ file.chunkCount <= file.fileSize
           /\ Chunks(file) = ChunkNums(file.fileSize)
           /\ Chunks(file) \subseteq ChunkNumbers /\ Chunks(file) \subseteq Numbers
<1>1. PICK num \in 0..(Cardinality(Name) - 1), f \in Name : file = Recorded(num, f)
  BY DEF Recordable
<1> DEFINE size == Size(Content[f])
<1>2. /\ size \in 1..(MaxChunks * ChunkSize) /\ size < IntLimit /\ IsContent(Content[f])
      /\ Cardinality(Name) \in Byte
  BY TransferAssumption
<1>3. Content[f] \in [0..(size - 1) -> Byte]
  BY <1>2, ContentForm
<1>4. ChunkCount(size) \in 1..MaxChunks /\ ChunkCount(size) <= size
  BY <1>2, CountFits
<1>5. size \in Nat \ {0} /\ MaxChunks \in Nat /\ IntLimit \in Nat /\ Base \in Nat
  <2>1. MaxChunks * ChunkSize \in Nat
    BY Sizes, ProductType
  <2> QED
    BY <1>2, <2>1, Sizes, IntLimitType
<1> HIDE DEF size
<1>6. num \in Byte
  BY <1>2, <1>5 DEF Byte
<1>7. /\ file.fileNum = num /\ file.fileName = f /\ file.fileSize = size
      /\ file.chunkCount = ChunkCount(size)
  BY <1>1 DEF Recorded, size
<1>8. Chunks(file) = ChunkNums(size)
  BY <1>7 DEF Chunks, ChunkNums
<1>9. ChunkNums(size) \subseteq ChunkNumbers /\ ChunkNums(size) \subseteq Numbers
  BY <1>2, <1>4, <1>5 DEF ChunkNums, ChunkNumbers, Numbers
<1> QED
  BY <1>1, <1>2, <1>3, <1>4, <1>5, <1>6, <1>7, <1>8, <1>9 DEF size

\* What the copy makes of a file in a FILE_LIST frame is the file.
LEMMA RecordedSent ==
    ASSUME NEW file \in Recordable
    PROVE  /\ file \in Announced /\ InList(file) \in Listed
           /\ FromList(InList(file)) = Entry(file, {})
<1>1. /\ file.fileName \in Name /\ file.fileNum \in Byte
      /\ file = Recorded(file.fileNum, file.fileName)
      /\ file.fileSize = Size(Content[file.fileName])
      /\ file.fileSize \in Nat \ {0} /\ file.fileSize < IntLimit
      /\ file.chunkCount = ChunkCount(file.fileSize) /\ file.chunkCount \in 1..MaxChunks
      /\ file.chunkCount <= file.fileSize
  BY RecordedFacts
<1>2. file.fileName \in {name \in Seq(Letters) : Len(name) <= NameWidth}
  BY <1>1, TransferAssumption DEF Letters
<1>3. file.chunkCount \in 0..(IntLimit - 1) /\ file.fileSize \in 0..(IntLimit - 1)
  BY <1>1, Sizes, IntLimitType
<1>4. file = [fileNum |-> file.fileNum, chunkCount |-> file.chunkCount,
              fileSize |-> file.fileSize, fileName |-> file.fileName]
  BY <1>1 DEF Recorded
<1>5. file \in Announced
  BY <1>1, <1>2, <1>3, <1>4 DEF Announced
<1>6. InList(file) \in Listed
  BY <1>1, <1>2, <1>3 DEF Listed, InList
<1>7. FromList(InList(file)) = Entry(file, {})
  BY <1>1, <1>4 DEF FromList, InList
<1> QED
  BY <1>5, <1>6, <1>7

-----------------------------------------------------------------------------
(***************************************************************************)
(* Lists.                                                                  *)
(***************************************************************************)
LEMMA FileOfFound ==
    ASSUME NEW S, NEW entries \in Seq(S), NEW num \in NumsIn(entries)
    PROVE  /\ FileOf(entries, num) \in 1..Len(entries)
           /\ entries[FileOf(entries, num)].file.fileNum = num
<1> DEFINE T == {i \in 1..Len(entries) : entries[i].file.fileNum = num}
<1>1. DOMAIN entries = 1..Len(entries) /\ Len(entries) \in Nat
  BY LenProperties
<1>2. T # {} /\ T \in SUBSET Nat
  BY <1>1 DEF NumsIn
<1>3. PICK i \in T : \A j \in T : i <= j
  <2> HIDE DEF T
  <2> QED
    BY <1>2, LeastNumber
<1>4. /\ i \in DOMAIN entries /\ entries[i].file.fileNum = num
      /\ \A j \in 1..(i - 1) : entries[j].file.fileNum # num
  <2>1. ASSUME NEW j \in 1..(i - 1), entries[j].file.fileNum = num PROVE FALSE
    <3>1. j \in T /\ j < i
      BY <1>1, <1>3, <2>1
    <3> QED
      BY <1>2, <1>3, <3>1
  <2> QED
    BY <1>1, <1>3, <2>1
<1>5. FileOf(entries, num) \in DOMAIN entries /\ entries[FileOf(entries, num)].file.fileNum = num
  BY <1>4 DEF FileOf
<1> QED
  BY <1>1, <1>5

\* Marking a chunk changes the flags of one entry, and nothing else.
LEMMA MarkedFacts ==
    ASSUME NEW F, NEW H, NEW entries \in Seq(EntriesOf(F, H)),
           NEW num \in NumsIn(entries), NEW c \in H
    PROVE  /\ Marked(entries, num, c) \in Seq(EntriesOf(F, H))
           /\ Len(Marked(entries, num, c)) = Len(entries)
           /\ DOMAIN Marked(entries, num, c) = DOMAIN entries
           /\ \A i \in DOMAIN entries :
                /\ Marked(entries, num, c)[i].file = entries[i].file
                /\ entries[i].has \subseteq Marked(entries, num, c)[i].has
                /\ Marked(entries, num, c)[i].has \subseteq
                      entries[i].has \cup {d \in {c} : i = FileOf(entries, num)}
           /\ c \in Marked(entries, num, c)[FileOf(entries, num)].has
<1> DEFINE k == FileOf(entries, num)
           E == EntriesOf(F, H)
           marked == Marked(entries, num, c)
           e == [entries[k] EXCEPT !.has = entries[k].has \cup {c}]
<1>1. k \in 1..Len(entries) /\ Len(entries) \in Nat /\ DOMAIN entries = 1..Len(entries)
  BY FileOfFound, LenProperties
<1> HIDE DEF k
<1>2. entries[k] \in E
  BY <1>1, ElementOfSeq
<1>3. e \in E /\ e.file = entries[k].file /\ e.has = entries[k].has \cup {c}
  BY <1>2 DEF EntriesOf
<1> HIDE DEF e
<1>4. marked = [entries EXCEPT ![k] = e]
  BY DEF Marked, e, k
<1> HIDE DEF marked, E
<1>5. /\ marked \in Seq(E) /\ Len(marked) = Len(entries)
      /\ \A j \in 1..Len(entries) : marked[j] = IF j = k THEN e ELSE entries[j]
  BY <1>1, <1>3, <1>4, ExceptSeq DEF E
<1>6. DOMAIN marked = DOMAIN entries
  BY <1>4
<1>7. ASSUME NEW i \in DOMAIN entries
      PROVE  /\ marked[i].file = entries[i].file
             /\ entries[i].has \subseteq marked[i].has
             /\ marked[i].has \subseteq entries[i].has \cup {d \in {c} : i = k}
  <2>1. CASE i = k
    BY <1>1, <1>3, <1>5, <2>1
  <2>2. CASE i # k
    BY <1>1, <1>5, <2>2
  <2> QED
    BY <2>1, <2>2
<1>8. c \in marked[k].has
  BY <1>1, <1>3, <1>5
<1> QED
  BY <1>5, <1>6, <1>7, <1>8 DEF E, marked, k

\* A number or a name tells which file of the source is meant.
LEMMA SourceLookup ==
    ASSUME NEW entries, IsSourceList(entries), NEW file \in FilesIn(entries)
    PROVE  /\ file.fileNum \in NumsIn(entries)
           /\ entries[FileOf(entries, file.fileNum)].file = file
           /\ entries[FileOf(entries, file.fileNum)].has = Chunks(file)
           /\ \A other \in FilesIn(entries) :
                other.fileNum = file.fileNum \/ other.fileName = file.fileName => other = file
<1> DEFINE k == FileOf(entries, file.fileNum)
<1>1. entries \in Seq(EntriesOf(Recordable, ChunkNumbers)) /\ DOMAIN entries = 1..Len(entries) /\ Len(entries) \in Nat
  BY LenProperties DEF IsSourceList
<1>2. PICK i \in DOMAIN entries : entries[i].file = file
  BY DEF FilesIn
<1>3. file.fileNum \in NumsIn(entries)
  BY <1>2 DEF NumsIn
<1>4. k \in DOMAIN entries /\ entries[k].file.fileNum = file.fileNum
  BY <1>1, <1>3, FileOfFound
<1> HIDE DEF k
<1>5. k = i
  <2>1. k - 1 = i - 1
    BY <1>2, <1>4 DEF IsSourceList
  <2> QED
    BY <1>1, <1>4, <2>1
<1>6. entries[k].has = Chunks(file)
  BY <1>2, <1>5 DEF IsSourceList
<1>7. ASSUME NEW other \in FilesIn(entries),
             other.fileNum = file.fileNum \/ other.fileName = file.fileName
      PROVE  other = file
  <2>1. PICK j \in DOMAIN entries : entries[j].file = other
    BY DEF FilesIn
  <2>2. entries[i].file.fileNum = i - 1 /\ entries[j].file.fileNum = j - 1
    BY DEF IsSourceList
  <2>3. CASE other.fileNum = file.fileNum
    <3>1. i - 1 = j - 1
      BY <1>2, <2>1, <2>2, <2>3
    <3>2. i = j
      BY <1>1, <3>1
    <3> QED
      BY <1>2, <2>1, <3>2
  <2>4. CASE other.fileName = file.fileName
    <3>1. i = j
      BY <1>2, <2>1, <2>4 DEF IsSourceList
    <3> QED
      BY <1>2, <2>1, <3>1
  <2> QED
    BY <1>7, <2>3, <2>4
<1> QED
  BY <1>2, <1>3, <1>5, <1>6, <1>7 DEF k

\* The source lists no more files than there are names, numbered from 0 on.
LEMMA SourceLength ==
    ASSUME NEW entries, IsSourceList(entries)
    PROVE  /\ Len(entries) \in 0..Cardinality(Name) /\ DOMAIN entries = 1..Len(entries)
           /\ NumsIn(entries) = 0..(Len(entries) - 1)
           /\ FilesIn(entries) \subseteq Recordable
           /\ (\E f \in Name : \A i \in DOMAIN entries : entries[i].file.fileName # f)
                 => Len(entries) < Cardinality(Name)
<1> DEFINE n == Len(entries)
           name == [i \in 1..n |-> entries[i].file.fileName]
<1>1. entries \in Seq(EntriesOf(Recordable, ChunkNumbers)) /\ DOMAIN entries = 1..n /\ n \in Nat
  BY LenProperties DEF IsSourceList
<1>2. ASSUME NEW i \in 1..n PROVE entries[i].file \in Recordable /\ name[i] \in Name
  <2>1. entries[i] \in EntriesOf(Recordable, ChunkNumbers)
    BY <1>1, ElementOfSeq
  <2>2. entries[i].file \in Recordable
    BY <2>1 DEF EntriesOf
  <2> QED
    BY <2>2, RecordedFacts
<1>3. name \in Injection(1..n, Name)
  BY <1>1, <1>2 DEF IsSourceList, Injection, IsInjective
<1>4. IsFiniteSet(Name) /\ IsFiniteSet(1..n) /\ Cardinality(1..n) = n /\ Cardinality(Name) \in Nat
  <2>1. IsFiniteSet(Name) /\ Cardinality(Name) \in Nat
    BY TransferAssumption, FS_CardinalityType
  <2>2. IsFiniteSet(1..n) /\ Cardinality(1..n) = n
    BY <1>1, FS_Interval
  <2> QED
    BY <2>1, <2>2
<1> HIDE DEF name
<1>5. n <= Cardinality(Name) /\ (n = Cardinality(Name) => name \in Surjection(1..n, Name))
  BY <1>3, <1>4, FS_Injection
<1>6. ASSUME NEW f \in Name, \A i \in DOMAIN entries : entries[i].file.fileName # f
      PROVE  n < Cardinality(Name)
  <2>1. name \notin Surjection(1..n, Name)
    BY <1>1, <1>6 DEF Surjection, name
  <2> QED
    BY <1>1, <1>4, <1>5, <2>1
<1>7. NumsIn(entries) = 0..(n - 1)
  <2>1. \A i \in 1..n : entries[i].file.fileNum = i - 1
    BY <1>1 DEF IsSourceList
  <2>2. NumsIn(entries) = {i - 1 : i \in 1..n}
    BY <1>1, <2>1 DEF NumsIn
  <2>3. ASSUME NEW k \in 0..(n - 1) PROVE k \in {i - 1 : i \in 1..n}
    <3>1. k + 1 \in 1..n /\ k = (k + 1) - 1
      BY <1>1
    <3> QED
      BY <3>1
  <2>4. ASSUME NEW k \in {i - 1 : i \in 1..n} PROVE k \in 0..(n - 1)
    BY <1>1
  <2> QED
    BY <2>2, <2>3, <2>4
<1>8. FilesIn(entries) \subseteq Recordable
  BY <1>1, <1>2 DEF FilesIn
<1> QED
  BY <1>1, <1>4, <1>5, <1>6, <1>7, <1>8

-----------------------------------------------------------------------------
(***************************************************************************)
(* What is read from the frames on their way.                              *)
(***************************************************************************)
IsFrame(x) ==
    /\ DOMAIN x.bytes = 0..(FrameLength - 1)
    /\ GetFrameType(x.bytes) = x.message.type

LEMMA Transmitted ==
    ASSUME NEW m, NEW y, IsReadAs(m, y), NEW x, x = InTransit(m)
    PROVE  IsFrame(x) /\ x.message = m /\ Decode(x.bytes) = y
BY DEF IsReadAs, IsFrame, InTransit

LEMMA SourceReads ==
    ASSUME NEW entries, NEW x \in Transit(ToSource(entries))
    PROVE  /\ IsFrame(x)
           /\ PortFits => Decode(x.bytes) = x.message
           /\ x.message.type = "CHUNK_REQUEST" =>
                \E p \in ChunksOf(FilesIn(entries)) :
                    Decode(x.bytes) = AboutChunk("CHUNK_REQUEST", p[1], p[2])
           /\ x.message.type = "NEW_CHUNK_AVAILABLE" =>
                \E p \in Held(entries) :
                    Decode(x.bytes) = NewChunk(IF PortFits THEN p[1] ELSE 0, p[2])
<1>1. PICK m \in ToSource(entries) : x = InTransit(m)
  BY DEF Transit
<1>2. CASE m \in {Bare("HANDSHAKE_REQUEST"), Bare("FILE_LIST_REQUEST"), Bare("CHUNK_INFO_REQUEST")}
  <2>1. PICK type \in {"HANDSHAKE_REQUEST", "FILE_LIST_REQUEST", "CHUNK_INFO_REQUEST"} : m = Bare(type)
    BY <1>2
  <2>2. IsFrame(x) /\ x.message = m /\ Decode(x.bytes) = m
    BY <1>1, <2>1, BareRead, Transmitted
  <2>3. m.type = type
    BY <2>1 DEF Bare
  <2> QED
    BY <2>1, <2>2, <2>3
<1>3. CASE m = FromNode("PEER_JOIN_NOTIFICATION", "copy")
  <2>1. IsReadAs(m, m)
    BY <1>3, FromNodeRead DEF Node
  <2>2. IsFrame(x) /\ x.message = m /\ Decode(x.bytes) = m
    BY <1>1, <2>1, Transmitted
  <2>3. m.type = "PEER_JOIN_NOTIFICATION"
    BY <1>3 DEF FromNode
  <2> QED
    BY <2>2, <2>3
<1>4. CASE m \in {AboutChunk("CHUNK_REQUEST", p[1], p[2]) : p \in ChunksOf(FilesIn(entries))}
  <2>1. PICK p \in ChunksOf(FilesIn(entries)) : m = AboutChunk("CHUNK_REQUEST", p[1], p[2])
    BY <1>4
  <2>2. p[1] \in Byte /\ p[2] \in Numbers
    BY DEF ChunksOf
  <2>3. IsReadAs(m, m)
    BY <2>1, <2>2, AboutChunkRead
  <2>4. IsFrame(x) /\ x.message = m /\ Decode(x.bytes) = m
    BY <1>1, <2>3, Transmitted
  <2>5. m.type = "CHUNK_REQUEST"
    BY <2>1 DEF AboutChunk
  <2> QED
    BY <2>1, <2>4, <2>5
<1>5. CASE m \in {NewChunk(p[1], p[2]) : p \in Held(entries)}
  <2>1. PICK p \in Held(entries) : m = NewChunk(p[1], p[2])
    BY <1>5
  <2>2. p[1] \in Byte /\ p[2] \in Numbers
    BY DEF Held
  <2> DEFINE y == NewChunk(IF PortFits THEN p[1] ELSE 0, p[2])
  <2>3. IsReadAs(m, y)
    BY <2>1, <2>2, NewChunkRead
  <2>4. PortFits => y = m
    BY <2>1
  <2> HIDE DEF y
  <2>5. IsFrame(x) /\ x.message = m /\ Decode(x.bytes) = y
    BY <1>1, <2>3, Transmitted
  <2>6. m.type = "NEW_CHUNK_AVAILABLE"
    BY <2>1 DEF NewChunk
  <2> QED
    BY <2>4, <2>5, <2>6 DEF y
<1> QED
  BY <1>1, <1>2, <1>3, <1>4, <1>5 DEF ToSource

LEMMA CopyReads ==
    ASSUME NEW files \in SUBSET Recordable, NEW x \in Transit(ToCopy(files))
    PROVE  /\ IsFrame(x) /\ x.message.type = "NEW_FILE_AVAILABLE" /\ Decode(x.bytes) = x.message
           /\ \E file \in files : Decode(x.bytes) = NewFile(file)
<1>1. PICK file \in files : x = InTransit(NewFile(file))
  BY DEF Transit, ToCopy
<1>2. IsReadAs(NewFile(file), NewFile(file))
  BY RecordedSent, NewFileRead
<1>3. IsFrame(x) /\ x.message = NewFile(file) /\ Decode(x.bytes) = NewFile(file)
  BY <1>1, <1>2, Transmitted
<1> QED
  BY <1>3 DEF NewFile

LEMMA ReplyReads ==
    ASSUME NEW files \in SUBSET Recordable, NEW copied \in SUBSET Recordable,
           NEW x \in Transit(Replies(files, copied))
    PROVE  /\ IsFrame(x) /\ Decode(x.bytes) = x.message
           /\ x.message.type = "HANDSHAKE_RESPONSE" => x.message = FromNode("HANDSHAKE_RESPONSE", "source")
           /\ x.message.type = "FILE_LIST" => x.message.files \in Seq({InList(file) : file \in files})
           /\ x.message.type = "CHUNK" =>
                \E r \in ReadsOf(copied) : x.message = ChunkMessage(r.file.fileNum, r.c, r.chunk)
<1>1. PICK m \in Replies(files, copied) : x = InTransit(m)
  BY DEF Transit
<1>2. CASE m = FromNode("HANDSHAKE_RESPONSE", "source")
  <2>1. IsReadAs(m, m)
    BY <1>2, FromNodeRead DEF Node
  <2>2. IsFrame(x) /\ x.message = m /\ Decode(x.bytes) = m
    BY <1>1, <2>1, Transmitted
  <2>3. m.type = "HANDSHAKE_RESPONSE"
    BY <1>2 DEF FromNode
  <2> QED
    BY <1>2, <2>2, <2>3
<1>3. CASE m \in {FileList(s) : s \in {s \in Seq({InList(file) : file \in files}) : Len(s) <= Cardinality(Name)}}
  <2>1. PICK s \in Seq({InList(file) : file \in files}) : m = FileList(s) /\ Len(s) <= Cardinality(Name)
    BY <1>3
  <2>2. s \in Seq(Listed)
    <3>1. {InList(file) : file \in files} \subseteq Listed
      BY RecordedSent
    <3> QED
      BY <3>1, SeqMonotonic
  <2>3. IsReadAs(m, m)
    BY <2>1, <2>2, FileListRead
  <2>4. IsFrame(x) /\ x.message = m /\ Decode(x.bytes) = m
    BY <1>1, <2>3, Transmitted
  <2>5. m.type = "FILE_LIST" /\ m.files = s
    BY <2>1 DEF FileList
  <2> QED
    BY <2>4, <2>5
<1>4. CASE m \in {ChunkInfo(chunkMap) : chunkMap \in Maps}
  <2>1. PICK chunkMap \in Maps : m = ChunkInfo(chunkMap)
    BY <1>4
  <2>2. IsReadAs(m, m)
    <3>1. PICK n \in 0..Cardinality(Name) : chunkMap \in [0..(n - 1) -> SUBSET (0..(MaxChunks - 1))]
      BY DEF Maps, ChunkNumbers
    <3> QED
      BY <2>1, <3>1, ChunkInfoRead
  <2>3. IsFrame(x) /\ x.message = m /\ Decode(x.bytes) = m
    BY <1>1, <2>2, Transmitted
  <2>4. m.type = "CHUNK_INFO"
    BY <2>1 DEF ChunkInfo
  <2> QED
    BY <2>3, <2>4
<1>5. CASE m \in {ChunkMessage(r.file.fileNum, r.c, r.chunk) : r \in ReadsOf(copied)}
  <2>1. PICK r \in ReadsOf(copied) : m = ChunkMessage(r.file.fileNum, r.c, r.chunk)
    BY <1>5
  <2>2. r.file.fileNum \in Byte /\ r.c \in Numbers /\ r.chunk \in [1..ChunkSize -> Byte]
    <3>1. r.file \in Recordable /\ r.c \in Numbers /\ r.chunk \in [1..ChunkSize -> Byte]
      BY DEF ReadsOf
    <3> QED
      BY <3>1, RecordedFacts
  <2>3. IsReadAs(m, m)
    BY <2>1, <2>2, ChunkMessageRead
  <2>4. IsFrame(x) /\ x.message = m /\ Decode(x.bytes) = m
    BY <1>1, <2>3, Transmitted
  <2>5. m.type = "CHUNK"
    BY <2>1 DEF ChunkMessage
  <2> QED
    BY <2>1, <2>4, <2>5
<1> QED
  BY <1>1, <1>2, <1>3, <1>4, <1>5 DEF Replies

\* More files and more chunks leave what is on its way as it is.
LEMMA MoreToSource ==
    ASSUME NEW e, NEW f, FilesIn(e) \subseteq FilesIn(f), Held(e) \subseteq Held(f),
           NEW s \in Seq(Transit(ToSource(e)))
    PROVE  s \in Seq(Transit(ToSource(f)))
<1>1. ChunksOf(FilesIn(e)) \subseteq ChunksOf(FilesIn(f))
  BY DEF ChunksOf
<1>2. ToSource(e) \subseteq ToSource(f)
  BY <1>1 DEF ToSource
<1>3. Transit(ToSource(e)) \subseteq Transit(ToSource(f))
  BY <1>2 DEF Transit
<1> QED
  BY <1>3, SeqMonotonic

LEMMA MoreToCopy ==
    ASSUME NEW e, NEW f, e \subseteq f, NEW s \in Seq(Transit(ToCopy(e)))
    PROVE  s \in Seq(Transit(ToCopy(f)))
<1>1. Transit(ToCopy(e)) \subseteq Transit(ToCopy(f))
  BY DEF Transit, ToCopy
<1> QED
  BY <1>1, SeqMonotonic

LEMMA MoreReplies ==
    ASSUME NEW e, NEW f, e \subseteq f, NEW c, NEW d, c \subseteq d, NEW s \in Seq(Transit(Replies(e, c)))
    PROVE  s \in Seq(Transit(Replies(f, d)))
<1>1. ReadsOf(c) \subseteq ReadsOf(d)
  BY DEF ReadsOf
<1>2. ASSUME NEW t \in Seq({InList(file) : file \in e}) PROVE t \in Seq({InList(file) : file \in f})
  <2>1. {InList(file) : file \in e} \subseteq {InList(file) : file \in f}
    OBVIOUS
  <2> QED
    BY <2>1, SeqMonotonic
<1>3. Replies(e, c) \subseteq Replies(f, d)
  <2> DEFINE lists(x) == {FileList(t) : t \in {t \in Seq({InList(file) : file \in x}) : Len(t) <= Cardinality(Name)}}
             chunks(x) == {ChunkMessage(r.file.fileNum, r.c, r.chunk) : r \in ReadsOf(x)}
  <2>1. lists(e) \subseteq lists(f)
    BY <1>2
  <2>2. chunks(c) \subseteq chunks(d)
    BY <1>1
  <2> QED
    BY <2>1, <2>2 DEF Replies
<1>4. Transit(Replies(e, c)) \subseteq Transit(Replies(f, d))
  BY <1>3 DEF Transit
<1> QED
  BY <1>4, SeqMonotonic
-----------------------------------------------------------------------------
(***************************************************************************)
(* Files on disk.                                                          *)
(***************************************************************************)
LEMMA ZeroIsByte == 0 \in Byte
BY Sizes DEF Byte

LEMMA OverwriteContent ==
    ASSUME NEW content, IsContent(content), NEW size \in Nat \ {0}, NEW c \in ChunkNums(size),
           NEW chunk \in [1..ChunkSize -> Byte]
    PROVE  IsContent(Overwrite(content, c, chunk, size))
<1> DEFINE n == Size(content)
           first == c * ChunkSize
           end == first + WriteSize(c, size)
           after == Overwrite(content, c, chunk, size)
           m == IF n > end THEN n ELSE end
<1>1. n \in Nat /\ content \in [0..(n - 1) -> Byte]
  BY ContentForm
<1>2. first \in Nat /\ WriteSize(c, size) \in 1..ChunkSize /\ ChunkSize \in Nat /\ end \in Nat
  BY WriteSizeBounds, Sizes
<1>3. DOMAIN after = DOMAIN content \cup 0..(end - 1)
  <2>1. end - 1 = first + (WriteSize(c, size) - 1)
    BY <1>2
  <2> HIDE DEF end
  <2> QED
    BY <2>1 DEF Overwrite
<1> HIDE DEF n, end, first
<1>4. m \in Nat /\ DOMAIN content \cup 0..(end - 1) = 0..(m - 1)
  <2>1. DOMAIN content = 0..(n - 1)
    BY <1>1
  <2>2. CASE n > end
    BY <1>1, <1>2, <2>1, <2>2
  <2>3. CASE ~(n > end)
    BY <1>1, <1>2, <2>1, <2>3
  <2> QED
    BY <2>2, <2>3
<1>5. ASSUME NEW i \in DOMAIN after PROVE after[i] \in Byte
  <2>1. CASE i \in Span(c, size)
    <3>1. after[i] = chunk[i - first + 1]
      BY <2>1 DEF Overwrite, first
    <3>2. i \in Nat /\ i >= first /\ i <= first + WriteSize(c, size) - 1
      BY <1>2, <2>1 DEF Span, first
    <3>3. i - first + 1 \in 1..ChunkSize
      BY <1>2, <3>2
    <3> QED
      BY <3>1, <3>3
  <2>2. CASE i \notin Span(c, size) /\ i \in DOMAIN content
    <3>1. after[i] = content[i]
      BY <2>2, OverwriteOutside
    <3> QED
      BY <1>1, <2>2, <3>1
  <2>3. CASE i \notin Span(c, size) /\ i \notin DOMAIN content
    <3>1. after[i] = 0
      BY <1>3, <2>3 DEF Overwrite, end, first
    <3> QED
      BY <3>1, ZeroIsByte
  <2> QED
    BY <2>1, <2>2, <2>3
<1>6. after \in [0..(m - 1) -> Byte]
  <2> DEFINE byte(i) == CASE i \in Span(c, size) -> chunk[i - first + 1]
                          [] i \in DOMAIN content \ Span(c, size) -> content[i]
                          [] OTHER -> 0
             D == DOMAIN content \cup 0..(first + WriteSize(c, size) - 1)
  <2>1. after = [i \in DOMAIN after |-> after[i]]
    <3>1. after = [i \in D |-> byte(i)]
      BY DEF Overwrite, first
    <3> HIDE DEF after, byte, D
    <3> QED
      BY <3>1
  <2> HIDE DEF after, m
  <2> QED
    BY <1>3, <1>4, <1>5, <2>1
<1> HIDE DEF after, m
<1>7. IsContent(after)
  BY <1>4, <1>6, ContentForm
<1> QED
  BY <1>7 DEF after

\* A write puts its chunk in place and leaves all else, of this file and of others.
IsWritten(after, disk, name, c, chunk, size) ==
    /\ DOMAIN after = DOMAIN disk \cup {name}
    /\ \A f \in DOMAIN disk \ {name} : after[f] = disk[f]
    /\ \A k \in Span(c, size) :
         k \in DOMAIN after[name] /\ after[name][k] = chunk[k - c * ChunkSize + 1]
    /\ \A k : k \notin Span(c, size) /\ name \in DOMAIN disk /\ k \in DOMAIN disk[name]
                => k \in DOMAIN after[name] /\ after[name][k] = disk[name][k]
    /\ DOMAIN after[name] \subseteq
         0..(size - 1) \cup UNION {DOMAIN disk[f] : f \in DOMAIN disk \cap {name}}
    /\ (\A f \in DOMAIN disk : IsContent(disk[f])) => IsContent(after[name])

LEMMA WriteFacts ==
    ASSUME NEW disk, NEW name, NEW size \in Nat \ {0}, NEW c \in ChunkNums(size),
           NEW chunk \in [1..ChunkSize -> Byte]
    PROVE  IsWritten(WriteChunk(disk, name, c, chunk, size), disk, name, c, chunk, size)
<1> DEFINE after == WriteChunk(disk, name, c, chunk, size)
           before == IF name \in DOMAIN disk THEN disk[name] ELSE Zeros(size)
<1>1. DOMAIN after = DOMAIN disk \cup {name} /\ \A f \in DOMAIN disk \ {name} : after[f] = disk[f]
  BY DEF WriteChunk, CreateFileIfNotExists
<1>2. after[name] = Overwrite(before, c, chunk, size)
  BY WriteToOld, WriteToNew
<1> HIDE DEF after
<1>3. ASSUME NEW k \in Span(c, size)
      PROVE  k \in DOMAIN after[name] /\ after[name][k] = chunk[k - c * ChunkSize + 1]
  <2> HIDE DEF before
  <2>1. k \in 0..(c * ChunkSize + WriteSize(c, size) - 1)
    BY SpanEnds
  <2>2. k \in DOMAIN after[name]
    BY <1>2, <2>1 DEF Overwrite
  <2>3. after[name][k] = chunk[k - c * ChunkSize + 1]
    BY <1>2, <2>2 DEF Overwrite
  <2> QED
    BY <2>2, <2>3
<1>4. ASSUME NEW k, k \notin Span(c, size), name \in DOMAIN disk, k \in DOMAIN disk[name]
      PROVE  k \in DOMAIN after[name] /\ after[name][k] = disk[name][k]
  <2>1. before = disk[name]
    BY <1>4
  <2> HIDE DEF before
  <2>2. k \in DOMAIN after[name]
    BY <1>2, <1>4, <2>1 DEF Overwrite
  <2>3. after[name][k] = before[k]
    BY <1>2, <1>4, <2>1, OverwriteOutside
  <2> QED
    BY <2>1, <2>2, <2>3
<1>5. DOMAIN after[name] \subseteq
        0..(size - 1) \cup UNION {DOMAIN disk[f] : f \in DOMAIN disk \cap {name}}
  <2>1. c * ChunkSize \in Nat /\ WriteSize(c, size) \in 1..ChunkSize /\ c * ChunkSize + WriteSize(c, size) <= size
    BY WriteSizeBounds
  <2>2. 0..(c * ChunkSize + WriteSize(c, size) - 1) \subseteq 0..(size - 1)
    BY <2>1, Sizes
  <2>3. DOMAIN after[name] = DOMAIN before \cup 0..(c * ChunkSize + WriteSize(c, size) - 1)
    <3> HIDE DEF before
    <3> QED
      BY <1>2, OverwriteDomain
  <2>4. CASE name \in DOMAIN disk
    BY <2>2, <2>3, <2>4
  <2>5. CASE name \notin DOMAIN disk
    <3>1. DOMAIN before = 0..(size - 1)
      BY <2>5 DEF Zeros
    <3> QED
      BY <2>2, <2>3, <3>1
  <2> QED
    BY <2>4, <2>5
<1>6. ASSUME \A f \in DOMAIN disk : IsContent(disk[f]) PROVE IsContent(after[name])
  <2>1. IsContent(before)
    <3>1. CASE name \in DOMAIN disk
      BY <1>6, <3>1
    <3>2. CASE name \notin DOMAIN disk
      <4>1. before \in [0..(size - 1) -> Byte]
        BY <3>2, ZeroIsByte DEF Zeros
      <4> HIDE DEF before
      <4> QED
        BY <4>1, ContentForm
    <3> QED
      BY <3>1, <3>2
  <2> HIDE DEF before
  <2> QED
    BY <1>2, <2>1, OverwriteContent
<1> HIDE DEF before
<1>7. IsWritten(after, disk, name, c, chunk, size)
  BY <1>1, <1>3, <1>4, <1>5, <1>6 DEF IsWritten
<1> QED
  BY <1>7 DEF after

\* A chunk that is read consists of bytes, and is right if the file is.
LEMMA ReadFacts ==
    ASSUME NEW disk, \A f \in DOMAIN disk : IsContent(disk[f]), NEW file \in Recordable,
           NEW c \in Chunks(file),
           file.fileName \notin Vanishing =>
             file.fileName \in DOMAIN disk /\ disk[file.fileName] = Content[file.fileName]
    PROVE  LET chunk == ReadChunk(disk, file.fileName, c, [k \in 1..ChunkSize |-> Junk])
           IN  chunk \in [1..ChunkSize -> Byte] /\ IsRight(file, c, chunk)
<1> DEFINE name == file.fileName
           buffer == [k \in 1..ChunkSize |-> Junk]
           chunk == ReadChunk(disk, name, c, buffer)
           first == c * ChunkSize
<1>1. Junk \in Byte
  BY TransferAssumption
<1>2. /\ file.fileSize \in Nat \ {0} /\ c \in ChunkNums(file.fileSize)
      /\ Content[name] \in [0..(file.fileSize - 1) -> Byte]
  BY RecordedFacts
<1>3. first \in Nat /\ WriteSize(c, file.fileSize) \in 1..ChunkSize /\ ChunkSize \in Nat \ {0}
  BY <1>2, WriteSizeBounds, Sizes
<1>4. ASSUME NEW k \in 1..ChunkSize
      PROVE  chunk[k] = IF name \in DOMAIN disk /\ first + k - 1 \in DOMAIN disk[name]
                        THEN disk[name][first + k - 1] ELSE Junk
  BY DEF ReadChunk
<1>5. chunk \in [1..ChunkSize -> Byte]
  <2>1. chunk = [k \in 1..ChunkSize |-> chunk[k]]
    BY DEF ReadChunk
  <2>2. ASSUME NEW k \in 1..ChunkSize PROVE chunk[k] \in Byte
    <3>1. CASE name \in DOMAIN disk /\ first + k - 1 \in DOMAIN disk[name]
      <4>1. disk[name] \in [0..(Size(disk[name]) - 1) -> Byte]
        BY <3>1, ContentForm
      <4>2. disk[name][first + k - 1] \in Byte
        BY <3>1, <4>1
      <4> QED
        BY <1>4, <3>1, <4>2
    <3>2. CASE ~(name \in DOMAIN disk /\ first + k - 1 \in DOMAIN disk[name])
      BY <1>1, <1>4, <3>2
    <3> QED
      BY <3>1, <3>2
  <2> HIDE DEF chunk
  <2> QED
    BY <2>1, <2>2
<1> HIDE DEF chunk, first
<1>6. IsRight(file, c, chunk)
  <2>1. SUFFICES ASSUME name \notin Vanishing, NEW k \in Span(c, file.fileSize)
                 PROVE  chunk[k - c * ChunkSize + 1] = Content[name][k]
    BY DEF IsRight
  <2>2. name \in DOMAIN disk /\ disk[name] = Content[name]
    BY <2>1
  <2>3. k \in 0..(file.fileSize - 1)
    BY <1>2, SpansWithin
  <2>4. k \in Nat /\ k >= first /\ k <= first + WriteSize(c, file.fileSize) - 1
    BY <1>3, <2>3 DEF Span, first
  <2> DEFINE j == k - first + 1
  <2>5. j \in 1..ChunkSize /\ first + j - 1 = k
    BY <1>3, <2>4
  <2>6. k \in DOMAIN disk[name]
    BY <1>2, <2>2, <2>3
  <2> HIDE DEF j
  <2>7. chunk[j] = disk[name][k]
    BY <1>4, <2>2, <2>5, <2>6
  <2> QED
    BY <2>2, <2>7 DEF j, first
<1> QED
  BY <1>5, <1>6 DEF chunk
-----------------------------------------------------------------------------
(***************************************************************************)
(* Steps.                                                                  *)
(***************************************************************************)
LEMMA AtNode ==
    ASSUME NEW f, OnNodes(f), NEW m \in Node, NEW x
    PROVE  /\ OnNodes([f EXCEPT ![m] = x])
           /\ [f EXCEPT ![m] = x][m] = x
           /\ \A n \in Node : n # m => [f EXCEPT ![m] = x][n] = f[n]
<1> DEFINE g == [f EXCEPT ![m] = x]
<1>1. DOMAIN f = Node
  BY DEF OnNodes
<1>2. g = [n \in DOMAIN f |-> IF n = m THEN x ELSE f[n]]
  OBVIOUS
<1> HIDE DEF g
<1>3. g = [n \in Node |-> g[n]]
  BY <1>1, <1>2
<1> QED
  BY <1>1, <1>2, <1>3 DEF OnNodes, g

LEMMA TheNodes == "source" \in Node /\ "copy" \in Node /\ Other("source") = "copy" /\ Other("copy") = "source"
BY DEF Node, Other

\* The next frame to a node is one of those that may be on their way to it.
LEMMA NextFrame ==
    ASSUME NEW S, NEW s \in Seq(S), s # <<>>
    PROVE  Head(s) \in S /\ Tail(s) \in Seq(S)
BY HeadTailProperties

LEMMA OneMore ==
    ASSUME NEW S, NEW s \in Seq(S), NEW x \in S
    PROVE  Append(s, x) \in Seq(S)
BY AppendProperties

\* A broadcast reaches the other node or is not made.
LEMMA BroadcastFacts ==
    ASSUME NEW n \in Node, NEW m, NEW views, NEW requests, OnNodes(requests),
           Broadcast(n, m, views, requests)
    PROVE  /\ OnNodes(req') /\ req'[n] = requests[n]
           /\ req'[Other(n)] \in {requests[Other(n)], Append(requests[Other(n)], InTransit(m))}
           /\ views[n] # "ONLINE" => req' = requests
<1>1. Other(n) \in Node /\ Other(n) # n
  BY DEF Node, Other
<1>2. CASE views[n] = "ONLINE"
  <2>1. req' = [requests EXCEPT ![Other(n)] = Append(requests[Other(n)], InTransit(m))]
    BY <1>2 DEF Broadcast
  <2> DEFINE k == Other(n)
             x == Append(requests[k], InTransit(m))
  <2> HIDE DEF k, x
  <2>2. req' = [requests EXCEPT ![k] = x] /\ k \in Node /\ k # n
    BY <1>1, <2>1 DEF k, x
  <2>3. OnNodes(req')
    BY <2>2, AtNode
  <2>4. req'[k] = x /\ req'[n] = requests[n]
    BY <2>2, AtNode
  <2> QED
    BY <1>2, <2>3, <2>4 DEF k, x
<1>3. CASE views[n] # "ONLINE"
  BY <1>3 DEF Broadcast
<1> QED
  BY <1>2, <1>3

\* What is on its way to a node after a step that sends it m or nothing.
LEMMA SentOrNot ==
    ASSUME NEW S, NEW s \in Seq(S), NEW x \in S, NEW t \in {s, Append(s, x)}
    PROVE  t \in Seq(S)
BY OneMore

\* Steps that change no file and no list.
LEMMA FilesStay ==
    ASSUME Inv, UNCHANGED fileVars
    PROVE  SourceInv' /\ CopyInv' /\ AnnouncedInv' /\ DiskInv'
<1>1. store' = store /\ list' = list /\ remote' = remote /\ queued' = queued
  BY DEF fileVars
<1>2. SourceInv'
  BY <1>1 DEF Inv, SourceInv
<1>3. CopyInv'
  BY <1>1 DEF Inv, CopyInv
<1>4. AnnouncedInv'
  BY <1>1 DEF Inv, AnnouncedInv
<1>5. DiskInv'
  BY <1>1 DEF Inv, DiskInv
<1> QED
  BY <1>2, <1>3, <1>4, <1>5

LEMMA Stutters == Inv /\ UNCHANGED vars => Inv'
<1> SUFFICES ASSUME Inv, UNCHANGED vars PROVE Inv'
  OBVIOUS
<1>1. UNCHANGED fileVars /\ UNCHANGED <<state, view, req, rep>>
  BY DEF vars, fileVars
<1>2. SourceInv' /\ CopyInv' /\ AnnouncedInv' /\ DiskInv'
  BY <1>1, FilesStay
<1>3. Types'
  BY <1>1 DEF Inv, Types, fileVars
<1>4. Traffic'
  BY <1>1 DEF Inv, Traffic, fileVars
<1>5. Early'
  BY <1>1 DEF Inv, Early, fileVars
<1> QED
  BY <1>2, <1>3, <1>4, <1>5 DEF Inv

LEMMA EmptyLists ==
    /\ <<>> \in Seq({}) /\ DOMAIN <<>> = {} /\ Len(<<>>) = 0 /\ FilesIn(<<>>) = {}
    /\ NumsIn(<<>>) = {} /\ Held(<<>>) = {} /\ \A S : <<>> \in Seq(S)
<1>1. DOMAIN <<>> = {} /\ Len(<<>>) = 0 /\ \A S : <<>> \in Seq(S)
  BY EmptySeq, LenProperties
<1>2. FilesIn(<<>>) = {} /\ NumsIn(<<>>) = {} /\ Held(<<>>) = {}
  BY <1>1 DEF FilesIn, NumsIn, Held
<1> QED
  BY <1>1, <1>2

LEMMA Starts == Init => Inv
<1> SUFFICES ASSUME Init PROVE Inv
  OBVIOUS
<1>1. PICK old \in Leftover : store = [n \in Node |-> IF n = "source" THEN <<>> ELSE old]
  BY DEF Init
<1>2. /\ list = [n \in Node |-> <<>>] /\ remote = [n \in Node |-> <<>>] /\ state = "UNKNOWN"
      /\ view = [n \in Node |-> "OFFLINE"] /\ queued = {} /\ req = [n \in Node |-> <<>>] /\ rep = <<>>
  BY DEF Init
<1>3. /\ store["source"] = <<>> /\ store["copy"] = old
      /\ list["source"] = <<>> /\ list["copy"] = <<>> /\ remote["source"] = <<>> /\ remote["copy"] = <<>>
      /\ req["source"] = <<>> /\ req["copy"] = <<>> /\ view["source"] = "OFFLINE"
  BY <1>1, <1>2, TheNodes
<1>4. Types
  BY <1>1, <1>2 DEF Types, OnNodes
<1>5. SourceInv
  BY <1>3, EmptyLists DEF SourceInv, IsSourceList
<1>6. CopyInv
  BY <1>2, <1>3, EmptyLists DEF CopyInv
<1>7. AnnouncedInv
  BY <1>3, EmptyLists DEF AnnouncedInv
<1>8. DiskInv
  <2>1. DOMAIN old \subseteq Name /\ \A f \in DOMAIN old : IsContent(old[f])
    BY TransferAssumption
  <2>2. \A n \in Node : \A f \in DOMAIN store[n] : f \in Name /\ IsContent(store[n][f])
    BY <1>3, <2>1, EmptyLists DEF Node
  <2>3. ASSUME NEW f \in DOMAIN store["copy"]
        PROVE  DOMAIN store["copy"][f] \subseteq DOMAIN Content[f] \cup LeftOf(f)
    BY <1>3, <2>3 DEF LeftOf
  <2> QED
    BY <1>3, <2>2, <2>3, EmptyLists DEF DiskInv
<1>9. Traffic
  BY <1>2, <1>3, EmptyLists DEF Traffic
<1>10. Early
  BY <1>2, <1>3, EmptyLists DEF Early
<1> QED
  BY <1>4, <1>5, <1>6, <1>7, <1>8, <1>9, <1>10 DEF Inv

\* Entries at the end of a list add their files, and no chunks but their own.
LEMMA MoreEntries ==
    ASSUME NEW S, NEW e \in Seq(S), NEW t \in Seq(S)
    PROVE  /\ FilesIn(e \o t) = FilesIn(e) \cup FilesIn(t)
           /\ NumsIn(e \o t) = NumsIn(e) \cup NumsIn(t)
           /\ Held(e \o t) = Held(e) \cup Held(t)
<1> DEFINE u == e \o t
<1>1. DOMAIN e = 1..Len(e) /\ Len(e) \in Nat /\ DOMAIN t = 1..Len(t) /\ Len(t) \in Nat
  BY LenProperties
<1>2. /\ u \in Seq(S) /\ Len(u) = Len(e) + Len(t)
      /\ \A i \in 1..(Len(e) + Len(t)) : u[i] = IF i <= Len(e) THEN e[i] ELSE t[i - Len(e)]
  BY ConcatProperties
<1>3. DOMAIN u = 1..(Len(e) + Len(t))
  BY <1>2, LenProperties
<1> HIDE DEF u
<1>4. ASSUME NEW i \in DOMAIN u
      PROVE  (\E j \in DOMAIN e : u[i] = e[j]) \/ (\E j \in DOMAIN t : u[i] = t[j])
  <2>1. CASE i <= Len(e)
    BY <1>1, <1>2, <1>3, <2>1
  <2>2. CASE ~(i <= Len(e))
    <3>1. i - Len(e) \in DOMAIN t /\ u[i] = t[i - Len(e)]
      BY <1>1, <1>2, <1>3, <2>2
    <3> QED
      BY <3>1
  <2> QED
    BY <2>1, <2>2
<1>5. ASSUME NEW j \in DOMAIN e PROVE \E i \in DOMAIN u : u[i] = e[j]
  <2>1. j \in DOMAIN u /\ u[j] = e[j]
    BY <1>1, <1>2, <1>3
  <2> QED
    BY <2>1
<1>6. ASSUME NEW j \in DOMAIN t PROVE \E i \in DOMAIN u : u[i] = t[j]
  <2> DEFINE i == Len(e) + j
  <2>1. i \in DOMAIN u /\ ~(i <= Len(e)) /\ i - Len(e) = j
    BY <1>1, <1>3
  <2> HIDE DEF i
  <2>2. u[i] = t[j]
    BY <1>2, <1>3, <2>1
  <2> QED
    BY <2>1, <2>2
<1>7. FilesIn(u) = FilesIn(e) \cup FilesIn(t)
  BY <1>4, <1>5, <1>6 DEF FilesIn
<1>8. NumsIn(u) = NumsIn(e) \cup NumsIn(t)
  BY <1>4, <1>5, <1>6 DEF NumsIn
<1>9. Held(u) = Held(e) \cup Held(t)
  <2>1. ASSUME NEW p \in Held(u) PROVE p \in Held(e) \cup Held(t)
    BY <1>4 DEF Held
  <2>2. ASSUME NEW p \in Held(e) PROVE p \in Held(u)
    BY <1>5 DEF Held
  <2>3. ASSUME NEW p \in Held(t) PROVE p \in Held(u)
    BY <1>6 DEF Held
  <2> QED
    BY <2>1, <2>2, <2>3
<1> QED
  BY <1>7, <1>8, <1>9 DEF u

LEMMA OneEntry ==
    ASSUME NEW x
    PROVE  /\ FilesIn(<<x>>) = {x.file} /\ NumsIn(<<x>>) = {x.file.fileNum}
           /\ Held(<<x>>) \subseteq {<<x.file.fileNum, c>> : c \in x.has}
<1>1. DOMAIN <<x>> = {1} /\ <<x>>[1] = x
  OBVIOUS
<1> DEFINE s == <<x>>
<1> HIDE DEF s
<1>2. FilesIn(s) = {x.file} /\ NumsIn(s) = {x.file.fileNum}
  BY <1>1 DEF FilesIn, NumsIn, s
<1>3. ASSUME NEW p \in Held(s) PROVE p \in {<<x.file.fileNum, c>> : c \in x.has}
  <2>1. p \in Byte \X Numbers /\ p[1] = x.file.fileNum /\ p[2] \in x.has
    BY <1>1 DEF Held, s
  <2>2. p = <<p[1], p[2]>>
    BY <2>1
  <2> QED
    BY <2>1, <2>2
<1> QED
  BY <1>2, <1>3 DEF s

\* Marking a chunk changes which chunks are held, and no file or number.
LEMMA MarkedLists ==
    ASSUME NEW F, NEW H, NEW entries \in Seq(EntriesOf(F, H)),
           NEW num \in NumsIn(entries), NEW c \in H
    PROVE  /\ FilesIn(Marked(entries, num, c)) = FilesIn(entries)
           /\ NumsIn(Marked(entries, num, c)) = NumsIn(entries)
           /\ Held(entries) \subseteq Held(Marked(entries, num, c))
           /\ Held(Marked(entries, num, c)) \subseteq Held(entries) \cup {<<num, c>>}
           /\ num \in Byte /\ c \in Numbers => <<num, c>> \in Held(Marked(entries, num, c))
<1> DEFINE m == Marked(entries, num, c)
           k == FileOf(entries, num)
<1>1. /\ DOMAIN m = DOMAIN entries
      /\ \A i \in DOMAIN entries :
           /\ m[i].file = entries[i].file /\ entries[i].has \subseteq m[i].has
           /\ m[i].has \subseteq entries[i].has \cup {d \in {c} : i = k}
      /\ c \in m[k].has
  <2>1. DOMAIN m = DOMAIN entries
    BY MarkedFacts
  <2>2. ASSUME NEW i \in DOMAIN entries
        PROVE  /\ m[i].file = entries[i].file /\ entries[i].has \subseteq m[i].has
               /\ m[i].has \subseteq entries[i].has \cup {d \in {c} : i = k}
    BY MarkedFacts
  <2>3. c \in m[k].has
    BY MarkedFacts
  <2> HIDE DEF m, k
  <2> QED
    BY <2>1, <2>2, <2>3
<1>2. k \in DOMAIN entries /\ entries[k].file.fileNum = num
  BY FileOfFound, LenProperties
<1> HIDE DEF m, k
<1>3. FilesIn(m) = FilesIn(entries) /\ NumsIn(m) = NumsIn(entries)
  BY <1>1 DEF FilesIn, NumsIn
<1>4. Held(entries) \subseteq Held(m)
  BY <1>1 DEF Held
<1>5. ASSUME NEW p \in Held(m) PROVE p \in Held(entries) \cup {<<num, c>>}
  <2>1. p \in Byte \X Numbers
    BY DEF Held
  <2>2. PICK i \in DOMAIN entries : p[1] = entries[i].file.fileNum /\ p[2] \in m[i].has
    BY <1>1 DEF Held
  <2>3. CASE p[2] \in entries[i].has
    BY <2>1, <2>2, <2>3 DEF Held
  <2>4. CASE p[2] \notin entries[i].has
    <3>1. p[2] = c /\ i = k
      BY <1>1, <2>2, <2>4
    <3>2. p = <<p[1], p[2]>>
      BY <2>1
    <3> QED
      BY <1>2, <2>2, <3>1, <3>2
  <2> QED
    BY <2>3, <2>4
<1>6. ASSUME num \in Byte, c \in Numbers PROVE <<num, c>> \in Held(m)
  <2> DEFINE p == <<num, c>>
  <2>1. p \in Byte \X Numbers /\ p[1] = num /\ p[2] = c
    BY <1>6
  <2> HIDE DEF p
  <2>2. p \in Held(m)
    BY <1>1, <1>2, <2>1 DEF Held
  <2> QED
    BY <2>2 DEF p
<1> QED
  BY <1>3, <1>4, <1>5, <1>6 DEF m

LEMMA SourceHead ==
    ASSUME Inv, NEW type, Request("source", type)
    PROVE  /\ Head(req["source"]) \in Transit(ToSource(list["copy"]))
           /\ Head(req["source"]).message.type = type
           /\ Tail(req["source"]) \in Seq(Transit(ToSource(list["copy"])))
           /\ state \in {"UNKNOWN", "INITIALIZING"} =>
                /\ type = "HANDSHAKE_REQUEST"
                /\ Tail(req["source"]) \in Seq(Transit({Bare("HANDSHAKE_REQUEST")}))
<1> DEFINE s == req["source"]
<1>1. s # <<>> /\ GetFrameType(Head(s).bytes) = type
  BY DEF Request
<1>2. s \in Seq(Transit(ToSource(list["copy"])))
  BY DEF Inv, Traffic
<1> HIDE DEF s
<1>3. Head(s) \in Transit(ToSource(list["copy"])) /\ Tail(s) \in Seq(Transit(ToSource(list["copy"])))
  BY <1>1, <1>2, NextFrame
<1>4. Head(s).message.type = type
  BY <1>1, <1>3, SourceReads DEF IsFrame
<1>5. ASSUME state \in {"UNKNOWN", "INITIALIZING"}
      PROVE  type = "HANDSHAKE_REQUEST" /\ Tail(s) \in Seq(Transit({Bare("HANDSHAKE_REQUEST")}))
  <2>1. s \in Seq(Transit({Bare("HANDSHAKE_REQUEST")}))
    BY <1>5 DEF Inv, Early, s
  <2>2. Head(s) \in Transit({Bare("HANDSHAKE_REQUEST")}) /\ Tail(s) \in Seq(Transit({Bare("HANDSHAKE_REQUEST")}))
    BY <1>1, <2>1, NextFrame
  <2>3. Head(s).message = Bare("HANDSHAKE_REQUEST")
    BY <2>2 DEF Transit, InTransit
  <2> QED
    BY <1>4, <2>2, <2>3 DEF Bare
<1> QED
  BY <1>3, <1>4, <1>5 DEF s

LEMMA HandledFacts ==
    ASSUME Inv, NEW n \in Node, req' = Handled(n)
    PROVE  OnNodes(req') /\ req'[n] = Tail(req[n]) /\ \A m \in Node : m # n => req'[m] = req[m]
<1> DEFINE t == Tail(req[n])
<1>1. req' = [req EXCEPT ![n] = t]
  BY DEF Handled
<1>2. OnNodes(req)
  BY DEF Inv, Types
<1> HIDE DEF t
<1>3. OnNodes(req')
  BY <1>1, <1>2 DEF OnNodes
<1>4. req'[n] = t
  BY <1>1, <1>2, AtNode
<1>5. ASSUME NEW m \in Node, m # n PROVE req'[m] = req[m]
  BY <1>1, <1>2, <1>5, AtNode
<1> QED
  BY <1>3, <1>4, <1>5 DEF t

\* An answer of the source keeps the invariant if it is one of those expected.
LEMMA AnswersKeep ==
    ASSUME Inv, NEW type, Request("source", type), req' = Handled("source"), NEW m, Answered(m),
           m \in Replies(FilesIn(list["source"]), FilesIn(list["copy"])),
           type = "HANDSHAKE_REQUEST" => m = FromNode("HANDSHAKE_RESPONSE", "source"),
           UNCHANGED <<fileVars, state, view>>
    PROVE  Inv'
<1>1. SourceInv' /\ CopyInv' /\ AnnouncedInv' /\ DiskInv'
  BY FilesStay
<1>2. /\ OnNodes(req') /\ req'["source"] = Tail(req["source"]) /\ req'["copy"] = req["copy"]
  BY HandledFacts, TheNodes
<1>3. list' = list /\ store' = store /\ remote' = remote /\ queued' = queued /\ state' = state /\ view' = view
  BY DEF fileVars
<1>4. rep' = Append(rep, InTransit(m))
  BY DEF Answered
<1>5. Types'
  BY <1>2, <1>3 DEF Inv, Types
<1>6. Traffic'
  <2> DEFINE R == Transit(Replies(FilesIn(list["source"]), FilesIn(list["copy"])))
  <2>1. InTransit(m) \in R
    BY DEF Transit
  <2>2. rep \in Seq(R)
    BY DEF Inv, Traffic
  <2> HIDE DEF R
  <2>3. rep' \in Seq(R)
    BY <1>4, <2>1, <2>2, OneMore
  <2>4. req'["source"] \in Seq(Transit(ToSource(list["copy"])))
    BY <1>2, SourceHead
  <2> QED
    BY <1>2, <1>3, <2>3, <2>4 DEF Inv, Traffic, R
<1>7. Early'
  <2>1. CASE state \in {"UNKNOWN", "INITIALIZING"}
    <3> DEFINE R == Transit({FromNode("HANDSHAKE_RESPONSE", "source")})
    <3>1. /\ type = "HANDSHAKE_REQUEST"
          /\ req'["source"] \in Seq(Transit({Bare("HANDSHAKE_REQUEST")}))
      BY <1>2, <2>1, SourceHead
    <3>2. InTransit(m) \in R
      BY <3>1 DEF Transit
    <3>3. rep \in Seq(R)
      BY <2>1 DEF Inv, Early
    <3> HIDE DEF R
    <3>4. rep' \in Seq(R)
      BY <1>4, <3>2, <3>3, OneMore
    <3> QED
      BY <1>2, <1>3, <2>1, <3>1, <3>4 DEF Inv, Early, R
  <2>2. CASE state \notin {"UNKNOWN", "INITIALIZING"}
    BY <1>3, <2>2 DEF Inv, Early
  <2> QED
    BY <2>1, <2>2
<1> QED
  BY <1>1, <1>5, <1>6, <1>7 DEF Inv

LEMMA HandshakeRequestKeeps == Inv /\ OnHandshakeRequest => Inv'
<1> SUFFICES ASSUME Inv, OnHandshakeRequest PROVE Inv'
  OBVIOUS
<1> DEFINE m == FromNode("HANDSHAKE_RESPONSE", "source")
<1>1. /\ Request("source", "HANDSHAKE_REQUEST") /\ req' = Handled("source") /\ Answered(m)
      /\ UNCHANGED <<fileVars, state, view>>
  BY DEF OnHandshakeRequest
<1>2. m \in Replies(FilesIn(list["source"]), FilesIn(list["copy"]))
  BY DEF Replies
<1> QED
  BY <1>1, <1>2, AnswersKeep

LEMMA FileListRequestKeeps == Inv /\ OnFileListRequest => Inv'
<1> SUFFICES ASSUME Inv, OnFileListRequest PROVE Inv'
  OBVIOUS
<1> DEFINE e == list["source"]
           s == [i \in DOMAIN e |-> InList(e[i].file)]
           m == FileList(s)
<1>1. /\ Request("source", "FILE_LIST_REQUEST") /\ req' = Handled("source") /\ Answered(m)
      /\ UNCHANGED <<fileVars, state, view>>
  BY DEF OnFileListRequest
<1>2. IsSourceList(e)
  BY DEF Inv, SourceInv
<1>3. Len(e) \in 0..Cardinality(Name) /\ DOMAIN e = 1..Len(e)
  BY <1>2, SourceLength
<1>4. s \in Seq({InList(file) : file \in FilesIn(e)}) /\ Len(s) <= Cardinality(Name)
  <2>1. Cardinality(Name) \in Nat
    BY TransferAssumption, FS_CardinalityType
  <2>2. \A i \in DOMAIN e : InList(e[i].file) \in {InList(file) : file \in FilesIn(e)}
    BY DEF FilesIn
  <2> HIDE DEF e
  <2> QED
    BY <1>3, <2>1, <2>2
<1>5. m \in Replies(FilesIn(e), FilesIn(list["copy"]))
  <2> HIDE DEF s
  <2> QED
    BY <1>4 DEF Replies
<1> HIDE DEF m
<1> QED
  BY <1>1, <1>5, AnswersKeep

LEMMA ChunkInfoRequestKeeps == Inv /\ OnChunkInfoRequest => Inv'
<1> SUFFICES ASSUME Inv, OnChunkInfoRequest PROVE Inv'
  OBVIOUS
<1> DEFINE e == list["source"]
           chunkMap == [num \in NumsIn(e) |-> e[FileOf(e, num)].has]
           m == ChunkInfo(chunkMap)
<1>1. /\ Request("source", "CHUNK_INFO_REQUEST") /\ req' = Handled("source") /\ Answered(m)
      /\ UNCHANGED <<fileVars, state, view>>
  BY DEF OnChunkInfoRequest
<1>2. IsSourceList(e)
  BY DEF Inv, SourceInv
<1>3. Len(e) \in 0..Cardinality(Name) /\ DOMAIN e = 1..Len(e) /\ NumsIn(e) = 0..(Len(e) - 1)
  BY <1>2, SourceLength
<1>4. e \in Seq(EntriesOf(Recordable, ChunkNumbers))
  BY <1>2 DEF IsSourceList
<1> HIDE DEF e
<1>5. ASSUME NEW num \in NumsIn(e) PROVE e[FileOf(e, num)].has \in SUBSET ChunkNumbers
  <2> DEFINE k == FileOf(e, num)
  <2>1. k \in 1..Len(e)
    BY <1>4, FileOfFound
  <2> HIDE DEF k
  <2>2. e[k] \in EntriesOf(Recordable, ChunkNumbers)
    BY <1>4, <2>1, ElementOfSeq
  <2>3. e[k].has \in SUBSET ChunkNumbers
    BY <2>2 DEF EntriesOf
  <2> QED
    BY <2>3 DEF k
<1>6. chunkMap \in [0..(Len(e) - 1) -> SUBSET ChunkNumbers]
  BY <1>3, <1>5
<1>7. m \in Replies(FilesIn(e), FilesIn(list["copy"]))
  <2> HIDE DEF chunkMap
  <2>1. chunkMap \in Maps
    BY <1>3, <1>6 DEF Maps
  <2> QED
    BY <2>1 DEF Replies
<1> HIDE DEF m
<1> QED
  BY <1>1, <1>7, AnswersKeep DEF e

LEMMA FilesInRange ==
    ASSUME NEW F, NEW H, NEW e \in Seq(EntriesOf(F, H))
    PROVE  FilesIn(e) \subseteq F /\ \A i \in DOMAIN e : e[i].file \in F /\ e[i].has \subseteq H
<1>1. DOMAIN e = 1..Len(e)
  BY LenProperties
<1>2. ASSUME NEW i \in DOMAIN e PROVE e[i].file \in F /\ e[i].has \subseteq H
  <2>1. e[i] \in EntriesOf(F, H)
    BY <1>1, ElementOfSeq
  <2> QED
    BY <2>1 DEF EntriesOf
<1> QED
  BY <1>2 DEF FilesIn

LEMMA CopyFiles ==
    ASSUME Inv
    PROVE  /\ FilesIn(list["copy"]) \subseteq FilesIn(list["source"])
           /\ FilesIn(list["source"]) \subseteq Recordable
<1>1. FilesIn(list["copy"]) \subseteq FilesIn(list["source"])
  BY FilesInRange DEF Inv, CopyInv
<1>2. FilesIn(list["source"]) \subseteq Recordable
  BY SourceLength DEF Inv, SourceInv
<1> QED
  BY <1>1, <1>2

LEMMA ChunkRequestKeeps == Inv /\ OnChunkRequest => Inv'
<1> SUFFICES ASSUME Inv, OnChunkRequest PROVE Inv'
  OBVIOUS
<1> DEFINE e == list["source"]
           disk == store["source"]
           x == Head(req["source"])
           Buffer == [k \in 1..ChunkSize |-> Junk]
<1>1. Request("source", "CHUNK_REQUEST") /\ req' = Handled("source") /\ UNCHANGED <<fileVars, state, view>>
  BY DEF OnChunkRequest
<1>2. IsSourceList(e)
  BY DEF Inv, SourceInv
<1>3. PICK p \in ChunksOf(FilesIn(list["copy"])) :
        RequestTo("source") = AboutChunk("CHUNK_REQUEST", p[1], p[2])
  <2>1. x \in Transit(ToSource(list["copy"])) /\ x.message.type = "CHUNK_REQUEST"
    BY <1>1, SourceHead
  <2> HIDE DEF x
  <2>2. \E p \in ChunksOf(FilesIn(list["copy"])) :
          Decode(x.bytes) = AboutChunk("CHUNK_REQUEST", p[1], p[2])
    BY <2>1, SourceReads
  <2> QED
    BY <2>2 DEF RequestTo, x
<1>4. PICK file \in FilesIn(list["copy"]) : p[1] = file.fileNum /\ p[2] \in Chunks(file) /\ p[2] \in Numbers
  BY DEF ChunksOf
<1>5. file \in FilesIn(e) /\ file \in Recordable
  BY CopyFiles
<1> DEFINE c == p[2]
           num == file.fileNum
           chunk == ReadChunk(disk, file.fileName, c, Buffer)
           m == ChunkMessage(num, c, chunk)
<1>6. num \in NumsIn(e) /\ e[FileOf(e, num)].file = file /\ e[FileOf(e, num)].has = Chunks(file)
  <2> HIDE DEF e
  <2>1. num \in NumsIn(e)
    BY <1>2, <1>5, SourceLookup
  <2>2. e[FileOf(e, num)].file = file
    BY <1>2, <1>5, SourceLookup
  <2>3. e[FileOf(e, num)].has = Chunks(file)
    BY <1>2, <1>5, SourceLookup
  <2> QED
    BY <2>1, <2>2, <2>3
<1>7. Answered(m)
  <2>1. RequestTo("source").fileNum = num /\ RequestTo("source").chunkNum = c
    BY <1>3, <1>4 DEF AboutChunk
  <2>2. CASE num \notin NumsIn(e)
    BY <1>6, <2>2
  <2>3. ~(num \notin NumsIn(e)) /\ num \in NumsIn(e) /\ c \in e[FileOf(e, num)].has
    BY <1>4, <1>6
  <2> QED
    BY <1>6, <2>1, <2>3 DEF OnChunkRequest
<1>8. chunk \in [1..ChunkSize -> Byte] /\ IsRight(file, c, chunk)
  <2>1. \A f \in DOMAIN disk : IsContent(disk[f])
    BY TheNodes DEF Inv, DiskInv
  <2>2. file.fileName \notin Vanishing =>
          file.fileName \in DOMAIN disk /\ disk[file.fileName] = Content[file.fileName]
    BY <1>5 DEF Inv, DiskInv
  <2> HIDE DEF disk, c
  <2> QED
    BY <1>4, <1>5, <2>1, <2>2, ReadFacts DEF c
<1>9. m \in Replies(FilesIn(e), FilesIn(list["copy"]))
  <2> HIDE DEF chunk, c
  <2> DEFINE r == [file |-> file, c |-> c, chunk |-> chunk]
  <2>1. r \in [file : FilesIn(list["copy"]), c : Numbers, chunk : [1..ChunkSize -> Byte]]
    BY <1>4, <1>8 DEF c
  <2>2. r.c \in Chunks(r.file) /\ IsRight(r.file, r.c, r.chunk)
    BY <1>4, <1>8 DEF c
  <2>3. r \in ReadsOf(FilesIn(list["copy"]))
    BY <2>1, <2>2 DEF ReadsOf
  <2>4. m = ChunkMessage(r.file.fileNum, r.c, r.chunk)
    OBVIOUS
  <2> HIDE DEF m, r
  <2> QED
    BY <2>3, <2>4 DEF Replies
<1> HIDE DEF m
<1> QED
  BY <1>1, <1>7, <1>9, AnswersKeep

LEMMA JoinNotificationKeeps == Inv /\ OnJoinNotification => Inv'
<1> SUFFICES ASSUME Inv, OnJoinNotification PROVE Inv'
  OBVIOUS
<1>1. /\ Request("source", "PEER_JOIN_NOTIFICATION") /\ req' = Handled("source")
      /\ UNCHANGED fileVars /\ state' = state /\ rep' = rep
      /\ view' = [view EXCEPT !["source"] = IF Knows("source", RequestTo("source")) THEN "ONLINE" ELSE @]
  BY DEF OnJoinNotification
<1>2. SourceInv' /\ CopyInv' /\ AnnouncedInv' /\ DiskInv'
  BY <1>1, FilesStay
<1>3. /\ OnNodes(req') /\ req'["source"] = Tail(req["source"]) /\ req'["copy"] = req["copy"]
  BY <1>1, HandledFacts, TheNodes
<1>4. list' = list /\ store' = store /\ remote' = remote
  BY <1>1 DEF fileVars
<1>5. view \in [Node -> {"OFFLINE", "WAITING_FOR_HANDSHAKE", "ONLINE"}]
  BY DEF Inv, Types
<1>6. /\ view' \in [Node -> {"OFFLINE", "WAITING_FOR_HANDSHAKE", "ONLINE"}]
      /\ view'["copy"] = view["copy"]
  BY <1>1, <1>5, TheNodes
<1>7. /\ state \notin {"UNKNOWN", "INITIALIZING"}
      /\ req'["source"] \in Seq(Transit(ToSource(list["copy"])))
  BY <1>1, <1>3, SourceHead
<1>8. Types'
  BY <1>1, <1>3, <1>4, <1>6 DEF Inv, Types
<1>9. Traffic'
  BY <1>1, <1>3, <1>4, <1>7 DEF Inv, Traffic
<1>10. Early'
  BY <1>1, <1>6, <1>7 DEF Inv, Early
<1> QED
  BY <1>2, <1>8, <1>9, <1>10 DEF Inv

LEMMA Added ==
    ASSUME NEW S, NEW e \in Seq(S), NEW x \in S
    PROVE  /\ FilesIn(Append(e, x)) = FilesIn(e) \cup {x.file}
           /\ NumsIn(Append(e, x)) = NumsIn(e) \cup {x.file.fileNum}
           /\ Held(e) \subseteq Held(Append(e, x))
           /\ Held(Append(e, x)) \subseteq Held(e) \cup {<<x.file.fileNum, c>> : c \in x.has}
<1> DEFINE t == <<x>>
<1>1. t \in Seq(S) /\ Append(e, x) = e \o t
  BY AppendIsConcat
<1>2. /\ FilesIn(t) = {x.file} /\ NumsIn(t) = {x.file.fileNum}
      /\ Held(t) \subseteq {<<x.file.fileNum, c>> : c \in x.has}
  BY OneEntry
<1> HIDE DEF t
<1>3. FilesIn(e \o t) = FilesIn(e) \cup FilesIn(t)
  BY <1>1, MoreEntries
<1>4. NumsIn(e \o t) = NumsIn(e) \cup NumsIn(t)
  BY <1>1, MoreEntries
<1>5. Held(e \o t) = Held(e) \cup Held(t)
  BY <1>1, MoreEntries
<1> QED
  BY <1>1, <1>2, <1>3, <1>4, <1>5

LEMMA NewChunkKeeps == Inv /\ OnNewChunk => Inv'
<1> SUFFICES ASSUME Inv, OnNewChunk PROVE Inv'
  OBVIOUS
<1> DEFINE e == list["source"]
           x == Head(req["source"])
           known == remote["source"]
           m == RequestTo("source")
           local == e[FileOf(e, m.fileNum)]
           E == EntriesOf(FilesIn(e), Numbers)
           v == CASE ~Knows("source", m) -> known
                  [] Knows("source", m) /\ m.fileNum \in NumsIn(known) -> Marked(known, m.fileNum, m.chunkNum)
                  [] OTHER -> Append(known, Entry(local.file, {m.chunkNum}))
<1>1. /\ Request("source", "NEW_CHUNK_AVAILABLE") /\ req' = Handled("source")
      /\ store' = store /\ list' = list /\ state' = state /\ view' = view /\ queued' = queued /\ rep' = rep
      /\ remote' = [remote EXCEPT !["source"] = v]
  BY DEF OnNewChunk
<1>2. IsSourceList(e)
  BY DEF Inv, SourceInv
<1>3. PICK p \in Held(list["copy"]) : m = NewChunk(IF PortFits THEN p[1] ELSE 0, p[2])
  <2>1. x \in Transit(ToSource(list["copy"])) /\ x.message.type = "NEW_CHUNK_AVAILABLE"
    BY <1>1, SourceHead
  <2> HIDE DEF x
  <2>2. \E p \in Held(list["copy"]) :
          Decode(x.bytes) = NewChunk(IF PortFits THEN p[1] ELSE 0, p[2])
    BY <2>1, SourceReads
  <2> QED
    BY <2>2 DEF RequestTo, x
<1> DEFINE num == m.fileNum
           c == m.chunkNum
<1>4. num = (IF PortFits THEN p[1] ELSE 0) /\ c = p[2]
  BY <1>3 DEF NewChunk
<1>5. c \in Numbers /\ p = <<p[1], p[2]>>
  BY <1>4 DEF Held
<1>6. PICK i \in DOMAIN list["copy"] : p[1] = list["copy"][i].file.fileNum
  BY DEF Held
<1>7. p[1] \in NumsIn(e) /\ 0 \in NumsIn(e)
  <2>1. list["copy"][i].file \in FilesIn(e)
    BY CopyFiles DEF FilesIn
  <2>2. p[1] \in NumsIn(e)
    BY <1>2, <1>6, <2>1, SourceLookup
  <2>3. NumsIn(e) = 0..(Len(e) - 1) /\ Len(e) \in Nat
    <3>1. NumsIn(e) = 0..(Len(e) - 1)
      BY <1>2, SourceLength
    <3>2. Len(e) \in 0..Cardinality(Name)
      BY <1>2, SourceLength
    <3> QED
      BY <3>1, <3>2
  <2> QED
    BY <2>2, <2>3
<1>8. num \in NumsIn(e)
  BY <1>4, <1>7
<1>9. known \in Seq(E) /\ (PortFits => Held(known) \subseteq Held(list["copy"]))
  BY DEF Inv, AnnouncedInv
<1> HIDE DEF e, known, m, num, c
<1>10. local.file \in FilesIn(e)
  <2>1. e \in Seq(EntriesOf(Recordable, ChunkNumbers))
    BY <1>2 DEF IsSourceList
  <2>2. FileOf(e, num) \in 1..Len(e) /\ DOMAIN e = 1..Len(e)
    BY <1>8, <2>1, FileOfFound, LenProperties
  <2> QED
    BY <2>2 DEF FilesIn, num
<1>11. local.file.fileNum = num
  <2>1. e \in Seq(EntriesOf(Recordable, ChunkNumbers))
    BY <1>2 DEF IsSourceList
  <2> QED
    BY <1>8, <2>1, FileOfFound DEF num
<1> HIDE DEF local
<1>12. v \in Seq(E) /\ Held(v) \subseteq Held(known) \cup {<<num, c>>}
  <2>1. CASE ~Knows("source", m)
    BY <1>9, <2>1
  <2>2. CASE Knows("source", m) /\ num \in NumsIn(known)
    <3>1. v = Marked(known, num, c)
      BY <2>2 DEF num, c
    <3> HIDE DEF v
    <3>2. Marked(known, num, c) \in Seq(E)
      BY <1>5, <1>9, <2>2, MarkedFacts
    <3>3. Held(Marked(known, num, c)) \subseteq Held(known) \cup {<<num, c>>}
      BY <1>5, <1>9, <2>2, MarkedLists
    <3> QED
      BY <3>1, <3>2, <3>3
  <2>3. CASE Knows("source", m) /\ num \notin NumsIn(known)
    <3> DEFINE new == Entry(local.file, {c})
    <3>1. v = Append(known, new)
      BY <2>3 DEF num, c
    <3>2. new \in E /\ new.file = local.file /\ new.has = {c}
      BY <1>5, <1>10 DEF Entry, EntriesOf
    <3> HIDE DEF v, new, E
    <3>3. Append(known, new) \in Seq(E)
      BY <1>9, <3>2, OneMore
    <3>4. Held(Append(known, new)) \subseteq Held(known) \cup {<<new.file.fileNum, d>> : d \in new.has}
      BY <1>9, <3>2, Added
    <3> QED
      BY <1>11, <3>1, <3>2, <3>3, <3>4
  <2> QED
    BY <2>1, <2>2, <2>3
<1> HIDE DEF v
<1>13. PortFits => Held(v) \subseteq Held(list["copy"])
  <2>1. SUFFICES ASSUME PortFits PROVE <<num, c>> \in Held(list["copy"])
    BY <1>9, <1>12
  <2> QED
    BY <1>4, <1>5, <2>1
<1>14. OnNodes(remote') /\ remote'["source"] = v /\ remote'["copy"] = remote["copy"]
  <2>1. OnNodes(remote)
    BY DEF Inv, Types
  <2> QED
    BY <1>1, <2>1, TheNodes DEF OnNodes
<1>15. /\ OnNodes(req') /\ req'["source"] = Tail(req["source"]) /\ req'["copy"] = req["copy"]
  BY <1>1, HandledFacts, TheNodes
<1>16. /\ state \notin {"UNKNOWN", "INITIALIZING"}
       /\ req'["source"] \in Seq(Transit(ToSource(list["copy"])))
  BY <1>1, <1>15, SourceHead
<1>17. Types'
  BY <1>1, <1>14, <1>15 DEF Inv, Types
<1>18. SourceInv' /\ DiskInv'
  BY <1>1 DEF Inv, SourceInv, DiskInv
<1>19. CopyInv'
  BY <1>1, <1>14 DEF Inv, CopyInv
<1>20. AnnouncedInv'
  BY <1>1, <1>12, <1>13, <1>14 DEF AnnouncedInv, e
<1>21. Traffic'
  BY <1>1, <1>15, <1>16 DEF Inv, Traffic
<1>22. Early'
  BY <1>1, <1>16 DEF Inv, Early
<1> QED
  BY <1>17, <1>18, <1>19, <1>20, <1>21, <1>22 DEF Inv

LEMMA ReplyHead ==
    ASSUME Inv, NEW type, Reply(type)
    PROVE  /\ Head(rep) \in Transit(Replies(FilesIn(list["source"]), FilesIn(list["copy"])))
           /\ Head(rep).message.type = type /\ ReplyRead = Head(rep).message
           /\ Tail(rep) \in Seq(Transit(Replies(FilesIn(list["source"]), FilesIn(list["copy"]))))
           /\ state \in {"UNKNOWN", "INITIALIZING"} =>
                /\ type = "HANDSHAKE_RESPONSE"
                /\ Tail(rep) \in Seq(Transit({FromNode("HANDSHAKE_RESPONSE", "source")}))
<1> DEFINE S == Transit(Replies(FilesIn(list["source"]), FilesIn(list["copy"])))
           R == Transit({FromNode("HANDSHAKE_RESPONSE", "source")})
           x == Head(rep)
<1>1. rep # <<>> /\ GetFrameType(x.bytes) = type
  BY DEF Reply
<1>2. x \in S /\ Tail(rep) \in Seq(S)
  <2>1. rep \in Seq(S)
    BY DEF Inv, Traffic
  <2> HIDE DEF S
  <2> QED
    BY <1>1, <2>1, NextFrame
<1>3. IsFrame(x) /\ Decode(x.bytes) = x.message
  <2>1. FilesIn(list["source"]) \in SUBSET Recordable /\ FilesIn(list["copy"]) \in SUBSET Recordable
    BY CopyFiles
  <2> HIDE DEF x
  <2> QED
    BY <1>2, <2>1, ReplyReads
<1>4. x.message.type = type /\ ReplyRead = x.message
  BY <1>1, <1>3 DEF IsFrame, ReplyRead
<1>5. ASSUME state \in {"UNKNOWN", "INITIALIZING"} PROVE type = "HANDSHAKE_RESPONSE" /\ Tail(rep) \in Seq(R)
  <2>1. rep \in Seq(R)
    BY <1>5 DEF Inv, Early
  <2> HIDE DEF R
  <2>2. x \in R /\ Tail(rep) \in Seq(R)
    BY <1>1, <2>1, NextFrame
  <2>3. x.message = FromNode("HANDSHAKE_RESPONSE", "source")
    BY <2>2 DEF R, Transit, InTransit
  <2> QED
    BY <1>4, <2>2, <2>3 DEF FromNode
<1> QED
  BY <1>2, <1>4, <1>5

\* The copy may send the source what is among the messages expected.
LEMMA CopySends ==
    ASSUME Inv, NEW m \in ToSource(list["copy"]), NEW views, Broadcast("copy", m, views, req)
    PROVE  /\ OnNodes(req') /\ req'["copy"] = req["copy"]
           /\ req'["source"] \in Seq(Transit(ToSource(list["copy"])))
<1> DEFINE S == Transit(ToSource(list["copy"]))
<1>1. OnNodes(req) /\ req["source"] \in Seq(S)
  BY DEF Inv, Types, Traffic
<1>2. /\ OnNodes(req') /\ req'["copy"] = req["copy"]
      /\ req'["source"] \in {req["source"], Append(req["source"], InTransit(m))}
  <2>1. Other("copy") = "source" /\ "copy" \in Node
    BY TheNodes
  <2> QED
    BY <1>1, <2>1, BroadcastFacts
<1>3. InTransit(m) \in S
  BY DEF Transit
<1> HIDE DEF S
<1>4. req'["source"] \in Seq(S)
  BY <1>1, <1>2, <1>3, SentOrNot
<1> QED
  BY <1>2, <1>4 DEF S

LEMMA JoinKeeps == Inv /\ Join => Inv'
<1> SUFFICES ASSUME Inv, Join PROVE Inv'
  OBVIOUS
<1> DEFINE m == Bare("HANDSHAKE_REQUEST")
           S == Transit(ToSource(list["copy"]))
           R == Transit({Bare("HANDSHAKE_REQUEST")})
<1>1. /\ state = "UNKNOWN" /\ state' = "INITIALIZING" /\ view' = [view EXCEPT !["copy"] = "WAITING_FOR_HANDSHAKE"]
      /\ req' = [req EXCEPT !["source"] = Append(req["source"], InTransit(m))]
      /\ UNCHANGED fileVars /\ rep' = rep
  BY DEF Join
<1>2. SourceInv' /\ CopyInv' /\ AnnouncedInv' /\ DiskInv'
  BY <1>1, FilesStay
<1>3. list' = list /\ store' = store /\ remote' = remote /\ queued' = queued
  BY <1>1 DEF fileVars
<1>4. view \in [Node -> {"OFFLINE", "WAITING_FOR_HANDSHAKE", "ONLINE"}]
  BY DEF Inv, Types
<1>5. /\ view' \in [Node -> {"OFFLINE", "WAITING_FOR_HANDSHAKE", "ONLINE"}]
      /\ view'["source"] = view["source"]
  BY <1>1, <1>4, TheNodes
<1>6. InTransit(m) \in S /\ InTransit(m) \in R
  BY DEF Transit, ToSource
<1>7. req["source"] \in Seq(S) /\ req["source"] \in Seq(R)
  BY <1>1 DEF Inv, Traffic, Early
<1> DEFINE t == Append(req["source"], InTransit(m))
<1> HIDE DEF S, R, m
<1>8. t \in Seq(S) /\ t \in Seq(R)
  BY <1>6, <1>7, OneMore
<1> HIDE DEF t
<1>9. OnNodes(req') /\ req'["source"] = t /\ req'["copy"] = req["copy"]
  <2>1. OnNodes(req) /\ req' = [req EXCEPT !["source"] = t]
    BY <1>1 DEF Inv, Types, t
  <2> QED
    BY <2>1, TheNodes DEF OnNodes
<1>10. Types'
  BY <1>1, <1>3, <1>5, <1>9 DEF Inv, Types
<1>11. Traffic'
  BY <1>1, <1>3, <1>8, <1>9 DEF Inv, Traffic, S
<1>12. Early'
  BY <1>1, <1>3, <1>5, <1>8, <1>9 DEF Inv, Early, R
<1> QED
  BY <1>2, <1>10, <1>11, <1>12 DEF Inv

LEMMA VanishKeeps == ASSUME NEW f, Inv, Vanish(f) PROVE Inv'
<1> DEFINE kept == [g \in DOMAIN store["source"] \ {f} |-> store["source"][g]]
<1>1. /\ f \in Vanishing /\ store' = [store EXCEPT !["source"] = kept]
      /\ list' = list /\ remote' = remote /\ state' = state /\ view' = view /\ queued' = queued
      /\ req' = req /\ rep' = rep
  BY DEF Vanish
<1>2. DOMAIN kept \subseteq DOMAIN store["source"] /\ \A g \in DOMAIN kept : kept[g] = store["source"][g]
  OBVIOUS
<1>3. \A g \in DOMAIN store["source"] : g \notin Vanishing => g \in DOMAIN kept
  BY <1>1
<1> HIDE DEF kept
<1>4. OnNodes(store') /\ store'["source"] = kept /\ store'["copy"] = store["copy"]
  <2>1. OnNodes(store)
    BY DEF Inv, Types
  <2> QED
    BY <1>1, <2>1, TheNodes DEF OnNodes
<1>5. Types' /\ SourceInv' /\ CopyInv' /\ AnnouncedInv' /\ Traffic' /\ Early'
  BY <1>1, <1>4 DEF Inv, Types, SourceInv, CopyInv, AnnouncedInv, Traffic, Early
<1>6. DiskInv'
  <2>1. ASSUME NEW n \in Node, NEW g \in DOMAIN store'[n] PROVE g \in Name /\ IsContent(store'[n][g])
    <3>1. CASE n = "source"
      <4>1. g \in DOMAIN kept /\ store'[n][g] = store["source"][g] /\ g \in DOMAIN store["source"]
        BY <1>2, <1>4, <2>1, <3>1
      <4> QED
        BY <4>1, TheNodes DEF Inv, DiskInv
    <3>2. CASE n = "copy"
      BY <1>4, <2>1, <3>2, TheNodes DEF Inv, DiskInv
    <3> QED
      BY <3>1, <3>2 DEF Node
  <2>2. ASSUME NEW file \in FilesIn(list["source"]), file.fileName \notin Vanishing
        PROVE  file.fileName \in DOMAIN kept /\ kept[file.fileName] = Content[file.fileName]
    <3>1. /\ file.fileName \in DOMAIN store["source"]
          /\ store["source"][file.fileName] = Content[file.fileName]
      BY <2>2 DEF Inv, DiskInv
    <3> QED
      BY <1>2, <1>3, <2>2, <3>1
  <2> QED
    BY <1>1, <1>4, <2>1, <2>2 DEF Inv, DiskInv
<1> QED
  BY <1>5, <1>6 DEF Inv

LEMMA HandshakeResponseKeeps == Inv /\ OnHandshakeResponse => Inv'
<1> SUFFICES ASSUME Inv, OnHandshakeResponse PROVE Inv'
  OBVIOUS
<1> DEFINE S == Transit(Replies(FilesIn(list["source"]), FilesIn(list["copy"])))
<1>1. /\ Reply("HANDSHAKE_RESPONSE") /\ rep' = Tail(rep) /\ UNCHANGED fileVars
      /\ view' = [view EXCEPT !["copy"] = IF Knows("copy", ReplyRead) THEN "ONLINE" ELSE @]
      /\ state = "INITIALIZING" =>
           state' = "WAITING_FOR_FILE_LIST" /\ Broadcast("copy", Bare("FILE_LIST_REQUEST"), view', req)
      /\ state # "INITIALIZING" => state' = state /\ req' = req
  BY DEF OnHandshakeResponse
<1>2. SourceInv' /\ CopyInv' /\ AnnouncedInv' /\ DiskInv'
  BY <1>1, FilesStay
<1>3. list' = list /\ store' = store /\ remote' = remote /\ queued' = queued
  BY <1>1 DEF fileVars
<1>4. /\ rep' \in Seq(S)
      /\ state \in {"UNKNOWN", "INITIALIZING"} => rep' \in Seq(Transit({FromNode("HANDSHAKE_RESPONSE", "source")}))
  BY <1>1, ReplyHead
<1>5. Knows("copy", ReplyRead)
  <2> DEFINE x == Head(rep)
  <2>1. x \in S /\ x.message.type = "HANDSHAKE_RESPONSE" /\ ReplyRead = x.message
    BY <1>1, ReplyHead
  <2>2. FilesIn(list["source"]) \in SUBSET Recordable /\ FilesIn(list["copy"]) \in SUBSET Recordable
    BY CopyFiles
  <2> HIDE DEF x
  <2>3. x.message = FromNode("HANDSHAKE_RESPONSE", "source")
    BY <2>1, <2>2, ReplyReads
  <2>4. Address["source"] = [ip |-> Address["source"].ip, port |-> Address["source"].port]
    BY AddressFacts, TheNodes
  <2> QED
    BY <2>1, <2>3, <2>4, TheNodes DEF Knows, FromNode
<1>6. view \in [Node -> {"OFFLINE", "WAITING_FOR_HANDSHAKE", "ONLINE"}]
  BY DEF Inv, Types
<1>7. /\ view' \in [Node -> {"OFFLINE", "WAITING_FOR_HANDSHAKE", "ONLINE"}]
      /\ view'["source"] = view["source"] /\ view'["copy"] = "ONLINE"
  BY <1>1, <1>5, <1>6, TheNodes
<1>8. /\ OnNodes(req') /\ req'["copy"] = req["copy"]
      /\ req'["source"] \in Seq(Transit(ToSource(list["copy"])))
  <2>1. CASE state = "INITIALIZING"
    <3>1. Bare("FILE_LIST_REQUEST") \in ToSource(list["copy"])
      BY DEF ToSource
    <3> QED
      BY <1>1, <2>1, <3>1, CopySends
  <2>2. CASE state # "INITIALIZING"
    BY <1>1, <2>2 DEF Inv, Types, Traffic
  <2> QED
    BY <2>1, <2>2
<1>9. Types'
  BY <1>1, <1>3, <1>7, <1>8 DEF Inv, Types
<1>10. Traffic'
  BY <1>1, <1>3, <1>4, <1>8 DEF Inv, Traffic
<1>11. Early'
  <2>1. CASE state = "INITIALIZING"
    BY <1>1, <1>7, <2>1 DEF Early
  <2>2. CASE state # "INITIALIZING"
    BY <1>1, <1>3, <1>4, <1>7, <2>2 DEF Inv, Early
  <2> QED
    BY <2>1, <2>2
<1> QED
  BY <1>2, <1>9, <1>10, <1>11 DEF Inv

LEMMA SameNumbers ==
    ASSUME Inv
    PROVE  NumsIn(remote["copy"]) = NumsIn(list["copy"])
<1> DEFINE e == list["copy"]
           r == remote["copy"]
           S == EntriesOf(FilesIn(list["source"]), ChunkNumbers)
<1>1. e \in Seq(S) /\ r \in Seq(S) /\ Len(r) = Len(e) /\ \A i \in DOMAIN e : r[i].file = e[i].file
  BY DEF Inv, CopyInv
<1> HIDE DEF e, r, S
<1>2. DOMAIN r = DOMAIN e
  <2>1. DOMAIN e = 1..Len(e)
    BY <1>1, LenProperties
  <2>2. DOMAIN r = 1..Len(r)
    BY <1>1, LenProperties
  <2> QED
    BY <1>1, <2>1, <2>2
<1>3. NumsIn(r) = NumsIn(e)
  BY <1>1, <1>2 DEF NumsIn
<1> QED
  BY <1>3 DEF e, r

LEMMA ChunkInfoKeeps == Inv /\ OnChunkInfo => Inv'
<1> SUFFICES ASSUME Inv, OnChunkInfo PROVE Inv'
  OBVIOUS
<1> DEFINE known == KnownFiles(DOMAIN ReplyRead.chunkMap)
           S == Transit(Replies(FilesIn(list["source"]), FilesIn(list["copy"])))
           m == FromNode("PEER_JOIN_NOTIFICATION", "copy")
<1>1. /\ Reply("CHUNK_INFO") /\ rep' = Tail(rep) /\ queued' = queued \cup known
      /\ store' = store /\ list' = list /\ remote' = remote /\ view' = view
      /\ (state' = "ONLINE" /\ Broadcast("copy", m, view, req)) \/ (state' = state /\ req' = req)
  BY DEF OnChunkInfo, GoOnline
<1>2. state \notin {"UNKNOWN", "INITIALIZING"} /\ rep' \in Seq(S)
  BY <1>1, ReplyHead
<1>3. known \subseteq NumsIn(list["copy"])
  BY SameNumbers DEF KnownFiles
<1> HIDE DEF known, S, m
<1>4. /\ OnNodes(req') /\ req'["copy"] = req["copy"]
      /\ req'["source"] \in Seq(Transit(ToSource(list["copy"])))
  <2>1. CASE Broadcast("copy", m, view, req)
    <3>1. m \in ToSource(list["copy"])
      BY DEF ToSource, m
    <3> QED
      BY <2>1, <3>1, CopySends
  <2>2. CASE req' = req
    BY <2>2 DEF Inv, Types, Traffic
  <2> QED
    BY <1>1, <2>1, <2>2
<1>5. state' \in {"WAITING_FOR_FILE_LIST", "WAITING_FOR_CHUNK_INFO", "ONLINE"}
  BY <1>1, <1>2 DEF Inv, Types
<1>6. Types'
  BY <1>1, <1>4, <1>5 DEF Inv, Types
<1>7. SourceInv' /\ AnnouncedInv' /\ DiskInv'
  BY <1>1 DEF Inv, SourceInv, AnnouncedInv, DiskInv
<1>8. CopyInv'
  BY <1>1, <1>3 DEF Inv, CopyInv
<1>9. Traffic'
  BY <1>1, <1>2, <1>4 DEF Inv, Traffic, S
<1>10. Early'
  BY <1>1, <1>2, <1>5 DEF Inv, Early
<1> QED
  BY <1>6, <1>7, <1>8, <1>9, <1>10 DEF Inv

LEMMA RequestChunkKeeps == ASSUME NEW num \in queued, Inv, RequestChunk(num) PROVE Inv'
<1> DEFINE e == list["copy"]
           file == e[FileOf(e, num)].file
           missing == Chunks(file) \ e[FileOf(e, num)].has
           c == Min(missing)
           m == AboutChunk("CHUNK_REQUEST", num, c)
           S == Transit(ToSource(e))
<1>1. /\ missing # {} /\ req' = [req EXCEPT !["source"] = Append(req["source"], InTransit(m))]
      /\ UNCHANGED fileVars /\ state' = state /\ view' = view /\ rep' = rep
  BY DEF RequestChunk
<1>2. SourceInv' /\ CopyInv' /\ AnnouncedInv' /\ DiskInv'
  BY <1>1, FilesStay
<1>3. list' = list /\ store' = store /\ remote' = remote /\ queued' = queued
  BY <1>1 DEF fileVars
<1>4. state \notin {"UNKNOWN", "INITIALIZING"}
  BY DEF Inv, Early
<1>5. num \in NumsIn(e) /\ e \in Seq(EntriesOf(FilesIn(list["source"]), ChunkNumbers))
  BY DEF Inv, CopyInv
<1>6. file \in FilesIn(e) /\ file.fileNum = num
  <2> HIDE DEF e
  <2>1. FileOf(e, num) \in 1..Len(e) /\ e[FileOf(e, num)].file.fileNum = num
    BY <1>5, FileOfFound
  <2>2. DOMAIN e = 1..Len(e)
    BY <1>5, LenProperties
  <2> QED
    BY <2>1, <2>2 DEF FilesIn
<1>7. file \in Recordable
  BY <1>6, CopyFiles
<1>8. num \in Byte /\ Chunks(file) \subseteq Numbers
  <2> HIDE DEF file
  <2> QED
    BY <1>6, <1>7, RecordedFacts
<1>9. c \in Chunks(file)
  <2>1. missing \in SUBSET Nat /\ missing \subseteq Chunks(file)
    BY <1>8, NumbersAreInts
  <2> HIDE DEF missing
  <2>2. \E x \in missing : \A y \in missing : x <= y
    BY <1>1, <2>1, LeastNumber
  <2>3. c \in missing
    BY <2>2 DEF Min
  <2> QED
    BY <2>1, <2>3
<1> HIDE DEF c, file
<1>10. m \in ToSource(e)
  <2> DEFINE p == <<num, c>>
  <2>1. p \in Byte \X Numbers /\ p[1] = file.fileNum /\ p[2] \in Chunks(file)
    BY <1>6, <1>8, <1>9
  <2>2. m = AboutChunk("CHUNK_REQUEST", p[1], p[2])
    OBVIOUS
  <2> HIDE DEF p, m, e
  <2>3. p \in ChunksOf(FilesIn(e))
    BY <1>6, <2>1 DEF ChunksOf
  <2> QED
    BY <2>2, <2>3 DEF ToSource
<1> HIDE DEF m, missing
<1> DEFINE t == Append(req["source"], InTransit(m))
<1>11. t \in Seq(S)
  <2>1. InTransit(m) \in S
    BY <1>10 DEF Transit
  <2>2. req["source"] \in Seq(S)
    BY DEF Inv, Traffic
  <2> HIDE DEF S
  <2> QED
    BY <2>1, <2>2, OneMore
<1> HIDE DEF t
<1>12. OnNodes(req') /\ req'["source"] = t /\ req'["copy"] = req["copy"]
  <2>1. OnNodes(req) /\ req' = [req EXCEPT !["source"] = t]
    BY <1>1 DEF Inv, Types, t
  <2> QED
    BY <2>1, TheNodes DEF OnNodes
<1>13. Types'
  BY <1>1, <1>3, <1>12 DEF Inv, Types
<1>14. Traffic'
  BY <1>1, <1>3, <1>11, <1>12 DEF Inv, Traffic
<1>15. Early'
  BY <1>1, <1>4 DEF Inv, Early
<1> QED
  BY <1>2, <1>13, <1>14, <1>15 DEF Inv

\* The copy learns of files: both its lists get the same entries, with no chunk.
LEMMA NewEntries ==
    ASSUME Inv, NEW t \in Seq(EntriesOf(FilesIn(list["source"]), ChunkNumbers)),
           \A i \in DOMAIN t : t[i].has = {},
           list' = [list EXCEPT !["copy"] = list["copy"] \o t],
           remote' = [remote EXCEPT !["copy"] = remote["copy"] \o t],
           store' = store, queued' \subseteq queued \cup NumsIn(t)
    PROVE  /\ OnNodes(list') /\ OnNodes(remote')
           /\ SourceInv' /\ CopyInv' /\ AnnouncedInv' /\ DiskInv'
           /\ list'["source"] = list["source"]
           /\ FilesIn(list["copy"]) \subseteq FilesIn(list'["copy"])
           /\ Held(list["copy"]) \subseteq Held(list'["copy"])
<1> DEFINE E == EntriesOf(FilesIn(list["source"]), ChunkNumbers)
           e == list["copy"]
           r == remote["copy"]
           e2 == e \o t
           r2 == r \o t
<1>1. OnNodes(list') /\ list'["source"] = list["source"] /\ list'["copy"] = e2
  <2>1. OnNodes(list)
    BY DEF Inv, Types
  <2> HIDE DEF e2
  <2> QED
    BY <2>1, TheNodes DEF OnNodes, e2
<1>2. OnNodes(remote') /\ remote'["source"] = remote["source"] /\ remote'["copy"] = r2
  <2>1. OnNodes(remote)
    BY DEF Inv, Types
  <2> HIDE DEF r2
  <2> QED
    BY <2>1, TheNodes DEF OnNodes, r2
<1>3. /\ e \in Seq(E) /\ r \in Seq(E) /\ t \in Seq(E) /\ Len(r) = Len(e)
      /\ \A i \in DOMAIN e : r[i].file = e[i].file
      /\ queued \subseteq NumsIn(e)
  BY DEF Inv, CopyInv
<1> HIDE DEF e, r, E
<1>4. FilesIn(e) \subseteq FilesIn(e2) /\ Held(e) \subseteq Held(e2) /\ NumsIn(e2) = NumsIn(e) \cup NumsIn(t)
  <2>1. FilesIn(e2) = FilesIn(e) \cup FilesIn(t)
    BY <1>3, MoreEntries
  <2>2. NumsIn(e2) = NumsIn(e) \cup NumsIn(t)
    BY <1>3, MoreEntries
  <2>3. Held(e2) = Held(e) \cup Held(t)
    BY <1>3, MoreEntries
  <2> HIDE DEF e2
  <2> QED
    BY <2>1, <2>2, <2>3
<1>5. /\ DOMAIN e = 1..Len(e) /\ Len(e) \in Nat /\ DOMAIN t = 1..Len(t) /\ Len(t) \in Nat
  BY <1>3, LenProperties
<1>6. /\ e2 \in Seq(E) /\ Len(e2) = Len(e) + Len(t)
      /\ \A i \in 1..(Len(e) + Len(t)) : e2[i] = IF i <= Len(e) THEN e[i] ELSE t[i - Len(e)]
  BY <1>3, ConcatProperties
<1>7. /\ r2 \in Seq(E) /\ Len(r2) = Len(e) + Len(t)
      /\ \A i \in 1..(Len(e) + Len(t)) : r2[i] = IF i <= Len(e) THEN r[i] ELSE t[i - Len(e)]
  <2>1. /\ r2 \in Seq(E) /\ Len(r2) = Len(r) + Len(t)
        /\ \A i \in 1..(Len(r) + Len(t)) : r2[i] = IF i <= Len(r) THEN r[i] ELSE t[i - Len(r)]
    BY ZenonT(40), <1>3, ConcatProperties
  <2> HIDE DEF r2
  <2> QED
    BY <1>3, <2>1
<1>8. DOMAIN e2 = 1..(Len(e) + Len(t))
  BY <1>6, LenProperties
<1> HIDE DEF e2, r2
<1>9. ASSUME NEW i \in DOMAIN e2
      PROVE  r2[i].file = e2[i].file /\ (e2[i].has = {} \/ (i \in DOMAIN e /\ e2[i] = e[i]))
  <2>1. CASE i <= Len(e)
    BY SMTT(30), <1>3, <1>5, <1>6, <1>7, <1>8, <2>1
  <2>2. CASE ~(i <= Len(e))
    <3>1. i - Len(e) \in DOMAIN t
      BY <1>5, <1>8, <2>2
    <3> QED
      BY <1>6, <1>7, <1>8, <2>2, <3>1
  <2> QED
    BY <2>1, <2>2
<1>10. SourceInv'
  BY <1>1 DEF Inv, SourceInv
<1>11. CopyInv'
  <2>1. e2 \in Seq(EntriesOf(FilesIn(list'["source"]), ChunkNumbers))
    BY <1>1, <1>6 DEF E
  <2>2. r2 \in Seq(EntriesOf(FilesIn(list'["source"]), ChunkNumbers))
    BY <1>1, <1>7 DEF E
  <2>3. queued' \subseteq NumsIn(e2)
    BY <1>3, <1>4
  <2> QED
    BY <1>1, <1>2, <1>6, <1>7, <1>9, <2>1, <2>2, <2>3 DEF CopyInv
<1>12. AnnouncedInv'
  BY <1>1, <1>2, <1>4 DEF Inv, AnnouncedInv, e
<1>13. DiskInv'
  <2>1. ASSUME NEW i \in DOMAIN e2, NEW c \in e2[i].has PROVE IsStored(store["copy"], e2[i].file, c)
    BY <1>9, <2>1 DEF Inv, DiskInv, e
  <2> QED
    BY <1>1, <2>1 DEF Inv, DiskInv
<1> QED
  BY <1>1, <1>2, <1>4, <1>10, <1>11, <1>12, <1>13 DEF e

\* What is under way stays so when files are added.
LEMMA TrafficGrows ==
    ASSUME Inv, FilesIn(list["copy"]) \subseteq FilesIn(list'["copy"]),
           FilesIn(list["source"]) \subseteq FilesIn(list'["source"]),
           Held(list["copy"]) \subseteq Held(list'["copy"])
    PROVE  /\ \A s \in Seq(Transit(ToSource(list["copy"]))) : s \in Seq(Transit(ToSource(list'["copy"])))
           /\ \A s \in Seq(Transit(ToCopy(FilesIn(list["source"])))) :
                s \in Seq(Transit(ToCopy(FilesIn(list'["source"]))))
           /\ \A s \in Seq(Transit(Replies(FilesIn(list["source"]), FilesIn(list["copy"])))) :
                s \in Seq(Transit(Replies(FilesIn(list'["source"]), FilesIn(list'["copy"]))))
<1>1. ASSUME NEW s \in Seq(Transit(ToSource(list["copy"])))
      PROVE  s \in Seq(Transit(ToSource(list'["copy"])))
  BY MoreToSource
<1>2. ASSUME NEW s \in Seq(Transit(ToCopy(FilesIn(list["source"]))))
      PROVE  s \in Seq(Transit(ToCopy(FilesIn(list'["source"]))))
  BY MoreToCopy
<1>3. ASSUME NEW s \in Seq(Transit(Replies(FilesIn(list["source"]), FilesIn(list["copy"]))))
      PROVE  s \in Seq(Transit(Replies(FilesIn(list'["source"]), FilesIn(list'["copy"]))))
  BY MoreReplies
<1> QED
  BY <1>1, <1>2, <1>3

LEMMA NewFileKeeps == Inv /\ OnNewFile => Inv'
<1> SUFFICES ASSUME Inv, OnNewFile PROVE Inv'
  OBVIOUS
<1> DEFINE F == FilesIn(list["source"])
           E == EntriesOf(F, ChunkNumbers)
           S == Transit(ToCopy(F))
           s == req["copy"]
           x == Head(s)
           m == RequestTo("copy")
           new == Entry(m.file, {})
           t == <<new>>
<1>1. /\ s # <<>> /\ GetFrameType(x.bytes) = "NEW_FILE_AVAILABLE" /\ req' = Handled("copy")
      /\ list' = [list EXCEPT !["copy"] = Append(list["copy"], new)]
      /\ remote' = [remote EXCEPT !["copy"] = Append(remote["copy"], new)]
      /\ queued' = queued \cup {m.file.fileNum}
      /\ store' = store /\ state' = state /\ view' = view /\ rep' = rep
  BY DEF OnNewFile, Request
<1>2. x \in S /\ Tail(s) \in Seq(S)
  <2>1. s \in Seq(S)
    BY DEF Inv, Traffic
  <2> HIDE DEF S, s
  <2> QED
    BY <1>1, <2>1, NextFrame
<1>3. PICK file \in F : m = NewFile(file)
  <2>1. F \in SUBSET Recordable
    BY CopyFiles
  <2> HIDE DEF F, x
  <2>2. \E file \in F : Decode(x.bytes) = NewFile(file)
    BY <1>2, <2>1, CopyReads
  <2> QED
    BY <2>2 DEF RequestTo, x
<1>4. m.file = file
  BY <1>3 DEF NewFile
<1>5. new \in E /\ new.file = file /\ new.has = {}
  BY <1>4 DEF Entry, EntriesOf
<1>6. list["copy"] \in Seq(E) /\ remote["copy"] \in Seq(E)
  BY DEF Inv, CopyInv
<1>7. t \in Seq(E) /\ DOMAIN t = {1} /\ t[1] = new
  <2> HIDE DEF new, E
  <2> QED
    BY <1>5
<1>8. NumsIn(t) = {file.fileNum}
  <2> HIDE DEF new
  <2> QED
    BY <1>5, OneEntry
<1> HIDE DEF new, E
<1>9. Append(list["copy"], new) = list["copy"] \o t /\ Append(remote["copy"], new) = remote["copy"] \o t
  BY <1>5, <1>6, AppendIsConcat
<1> HIDE DEF t
<1>10. \A i \in DOMAIN t : t[i].has = {}
  BY <1>5, <1>7
<1>11. /\ OnNodes(list') /\ OnNodes(remote')
       /\ SourceInv' /\ CopyInv' /\ AnnouncedInv' /\ DiskInv'
       /\ list'["source"] = list["source"]
       /\ FilesIn(list["copy"]) \subseteq FilesIn(list'["copy"])
       /\ Held(list["copy"]) \subseteq Held(list'["copy"])
  <2>1. t \in Seq(EntriesOf(FilesIn(list["source"]), ChunkNumbers))
    BY <1>7 DEF E
  <2>2. queued' \subseteq queued \cup NumsIn(t)
    BY <1>1, <1>4, <1>8
  <2>3. list' = [list EXCEPT !["copy"] = list["copy"] \o t]
    BY <1>1, <1>9
  <2>4. remote' = [remote EXCEPT !["copy"] = remote["copy"] \o t]
    BY <1>1, <1>9
  <2>5. store' = store
    BY <1>1
  <2> QED
    BY <1>10, <2>1, <2>2, <2>3, <2>4, <2>5, NewEntries
<1>12. OnNodes(req') /\ req'["copy"] = Tail(s) /\ req'["source"] = req["source"]
  BY <1>1, HandledFacts, TheNodes
<1>13. state \notin {"UNKNOWN", "INITIALIZING"}
  BY <1>1 DEF Inv, Early
<1>14. Types'
  BY <1>1, <1>11, <1>12 DEF Inv, Types
<1>15. Traffic'
  BY <1>1, <1>2, <1>11, <1>12, TrafficGrows DEF Inv, Traffic
<1>16. Early'
  BY <1>1, <1>13 DEF Inv, Early
<1> QED
  BY <1>11, <1>14, <1>15, <1>16 DEF Inv

Offers(files, F) == \A i \in DOMAIN files : \E file \in F : FromList(files[i]) = Entry(file, {})
Unheld(t) == \A i \in DOMAIN t : t[i].has = {}

\* What WithFiles adds, which depends on no more of the list than its numbers.
NewOf(nums, files) ==
    LET new == InOrder({i \in DOMAIN files : files[i].fileNum \notin nums})
    IN  [k \in DOMAIN new |-> FromList(files[new[k]])]

LEMMA WithFilesForm ==
    ASSUME NEW files \in Seq(Listed), NEW nums, NEW F, Offers(files, F)
    PROVE  NewOf(nums, files) \in Seq(EntriesOf(F, ChunkNumbers)) /\ Unheld(NewOf(nums, files))
<1> DEFINE E == EntriesOf(F, ChunkNumbers)
           absent == {i \in DOMAIN files : files[i].fileNum \notin nums}
           new == InOrder(absent)
           t == [k \in DOMAIN new |-> FromList(files[new[k]])]
<1>1. DOMAIN files = 1..Len(files) /\ Len(files) \in Nat
  BY LenProperties
<1>2. absent \in SUBSET Nat /\ IsFiniteSet(absent)
  <2> DEFINE n == Len(files)
             T == 1..n
  <2>1. absent \subseteq T
    BY <1>1
  <2> HIDE DEF absent, n
  <2>2. n \in Nat
    BY <1>1 DEF n
  <2>3. IsFiniteSet(T)
    BY <2>2, FS_Interval
  <2>4. T \subseteq Nat
    BY <2>2
  <2> HIDE DEF T
  <2>5. IsFiniteSet(absent)
    BY <2>1, <2>3, FS_Subset
  <2> QED
    BY <2>1, <2>4, <2>5
<1>3. absent \subseteq DOMAIN files
  OBVIOUS
<1>4. NewOf(nums, files) = t
  BY DEF NewOf
<1> HIDE DEF absent
<1>5. new \in [1..Cardinality(absent) -> absent] /\ Cardinality(absent) \in Nat
  BY <1>2, InOrderFacts, FS_CardinalityType
<1> HIDE DEF new
<1>6. ASSUME NEW k \in DOMAIN new PROVE FromList(files[new[k]]) \in E /\ FromList(files[new[k]]).has = {}
  <2>1. new[k] \in DOMAIN files
    BY <1>3, <1>5
  <2>2. PICK file \in F : FromList(files[new[k]]) = Entry(file, {})
    BY <2>1 DEF Offers
  <2> QED
    BY <2>2 DEF Entry, EntriesOf
<1> HIDE DEF E
<1>7. t \in Seq(E) /\ \A i \in DOMAIN t : t[i].has = {}
  <2> DEFINE made(k) == FromList(files[new[k]])
             n == Cardinality(absent)
  <2>1. \A k \in 1..n : made(k) \in E /\ made(k).has = {}
    BY <1>5, <1>6
  <2>2. t = [k \in 1..n |-> made(k)] /\ n \in Nat
    BY <1>5
  <2> HIDE DEF made, n, t
  <2> QED
    BY <2>1, <2>2
<1> QED
  BY <1>4, <1>7 DEF E, Unheld

LEMMA FileListKeeps == Inv /\ OnFileList => Inv'
<1> SUFFICES ASSUME Inv, OnFileList PROVE Inv'
  OBVIOUS
<1> DEFINE F == FilesIn(list["source"])
           S == Transit(Replies(F, FilesIn(list["copy"])))
           x == Head(rep)
           files == ReplyRead.files
           join == FromNode("PEER_JOIN_NOTIFICATION", "copy")
           ask == Bare("CHUNK_INFO_REQUEST")
<1>1. /\ Reply("FILE_LIST") /\ rep' = Tail(rep)
      /\ list' = [list EXCEPT !["copy"] = WithFiles(list["copy"], files)]
      /\ remote' = [remote EXCEPT !["copy"] = WithFiles(remote["copy"], files)]
      /\ store' = store /\ queued' = queued /\ view' = view
  BY DEF OnFileList
<1>2. \/ state' = "ONLINE" /\ Broadcast("copy", join, view, req)
      \/ state' = "WAITING_FOR_CHUNK_INFO" /\ Broadcast("copy", ask, view, req)
      \/ state' = state /\ req' = req
  <2>1. CASE files = <<>>
    BY <2>1 DEF OnFileList, GoOnline
  <2>2. CASE files # <<>> /\ state = "WAITING_FOR_FILE_LIST"
    BY <2>2 DEF OnFileList
  <2>3. CASE files # <<>> /\ state # "WAITING_FOR_FILE_LIST"
    BY <2>3 DEF OnFileList
  <2> QED
    BY <2>1, <2>2, <2>3
<1>3. state \notin {"UNKNOWN", "INITIALIZING"} /\ rep' \in Seq(S)
  BY <1>1, ReplyHead
<1>4. files \in Seq({InList(file) : file \in F})
  <2>1. x \in S /\ x.message.type = "FILE_LIST" /\ ReplyRead = x.message
    BY <1>1, ReplyHead
  <2>2. F \in SUBSET Recordable /\ FilesIn(list["copy"]) \in SUBSET Recordable
    BY CopyFiles
  <2> HIDE DEF x, F
  <2> QED
    BY <2>1, <2>2, ReplyReads
<1>5. files \in Seq(Listed) /\ Offers(files, F)
  <2>1. F \subseteq Recordable
    BY CopyFiles
  <2> HIDE DEF F, files
  <2>2. {InList(file) : file \in F} \subseteq Listed
    BY <2>1, RecordedSent
  <2>3. files \in Seq(Listed)
    BY <1>4, <2>2, SeqMonotonic
  <2>4. ASSUME NEW i \in DOMAIN files PROVE \E file \in F : FromList(files[i]) = Entry(file, {})
    <3>1. files[i] \in {InList(file) : file \in F}
      BY <1>4, LenProperties, ElementOfSeq
    <3>2. PICK file \in F : files[i] = InList(file)
      BY <3>1
    <3> QED
      BY <2>1, <3>2, RecordedSent
  <2> QED
    BY <2>3, <2>4 DEF Offers
<1> HIDE DEF files
<1> DEFINE t == NewOf(NumsIn(list["copy"]), files)
<1>6. /\ t \in Seq(EntriesOf(F, ChunkNumbers)) /\ Unheld(t)
      /\ WithFiles(list["copy"], files) = list["copy"] \o t
      /\ WithFiles(remote["copy"], files) = remote["copy"] \o t
  <2>1. NumsIn(remote["copy"]) = NumsIn(list["copy"])
    BY SameNumbers
  <2>2. WithFiles(list["copy"], files) = list["copy"] \o t
    BY DEF WithFiles, NewOf
  <2>3. WithFiles(remote["copy"], files) = remote["copy"] \o t
    BY <2>1 DEF WithFiles, NewOf
  <2> HIDE DEF F
  <2>4. t \in Seq(EntriesOf(F, ChunkNumbers)) /\ Unheld(t)
    BY <1>5, WithFilesForm
  <2> QED
    BY <2>2, <2>3, <2>4
<1> HIDE DEF t
<1>7. /\ OnNodes(list') /\ OnNodes(remote')
      /\ SourceInv' /\ CopyInv' /\ AnnouncedInv' /\ DiskInv'
      /\ list'["source"] = list["source"]
      /\ FilesIn(list["copy"]) \subseteq FilesIn(list'["copy"])
      /\ Held(list["copy"]) \subseteq Held(list'["copy"])
  <2>1. list' = [list EXCEPT !["copy"] = list["copy"] \o t]
    BY <1>1, <1>6
  <2>2. remote' = [remote EXCEPT !["copy"] = remote["copy"] \o t]
    BY <1>1, <1>6
  <2>3. store' = store
    BY <1>1
  <2>4. queued' \subseteq queued \cup NumsIn(t)
    BY <1>1
  <2>5. \A i \in DOMAIN t : t[i].has = {}
    BY <1>6 DEF Unheld
  <2>6. t \in Seq(EntriesOf(FilesIn(list["source"]), ChunkNumbers))
    BY <1>6
  <2> QED
    BY <2>1, <2>2, <2>3, <2>4, <2>5, <2>6, NewEntries
<1>8. /\ OnNodes(req') /\ req'["copy"] = req["copy"]
      /\ req'["source"] \in Seq(Transit(ToSource(list["copy"])))
  <2>1. join \in ToSource(list["copy"]) /\ ask \in ToSource(list["copy"])
    BY DEF ToSource
  <2> HIDE DEF join, ask
  <2>2. CASE req' = req
    BY <2>2 DEF Inv, Types, Traffic
  <2>3. CASE Broadcast("copy", join, view, req)
    BY <2>1, <2>3, CopySends
  <2>4. CASE Broadcast("copy", ask, view, req)
    BY <2>1, <2>4, CopySends
  <2> QED
    BY <1>2, <2>2, <2>3, <2>4
<1> HIDE DEF join, ask, S
<1>9. state' \in {"WAITING_FOR_FILE_LIST", "WAITING_FOR_CHUNK_INFO", "ONLINE"}
  BY <1>2, <1>3 DEF Inv, Types
<1>10. Types'
  BY <1>1, <1>7, <1>8, <1>9 DEF Inv, Types
<1>11. Traffic'
  BY <1>3, <1>7, <1>8, TrafficGrows DEF Inv, Traffic, S
<1>12. Early'
  BY <1>1, <1>3, <1>9 DEF Inv, Early
<1> QED
  BY <1>7, <1>10, <1>11, <1>12 DEF Inv

\* A file of a name that is not in the list, with the next number, is one more.
LEMMA SourceGrows ==
    ASSUME NEW e, IsSourceList(e), NEW f \in Name, \A i \in DOMAIN e : e[i].file.fileName # f,
           NEW file, file = Recorded(Len(e), f)
    PROVE  /\ file \in Recordable
           /\ IsSourceList(Append(e, Entry(file, Chunks(file))))
           /\ FilesIn(Append(e, Entry(file, Chunks(file)))) = FilesIn(e) \cup {file}
<1> DEFINE E == EntriesOf(Recordable, ChunkNumbers)
           new == Entry(file, Chunks(file))
           n == Len(e)
           u == Append(e, new)
<1>1. e \in Seq(E) /\ n \in Nat /\ DOMAIN e = 1..n
  BY LenProperties DEF IsSourceList
<1>2. file \in Recordable
  <2>1. n < Cardinality(Name)
    BY SourceLength
  <2>2. Cardinality(Name) \in Nat
    BY TransferAssumption, FS_CardinalityType
  <2>3. n \in 0..(Cardinality(Name) - 1)
    BY <1>1, <2>1, <2>2
  <2> QED
    BY <2>3 DEF Recordable
<1>3. file.fileNum = n /\ file.fileName = f
  BY DEF Recorded
<1>4. new \in E /\ new.file = file /\ new.has = Chunks(file)
  <2>1. Chunks(file) \subseteq ChunkNumbers
    BY <1>2, RecordedFacts
  <2> QED
    BY <1>2, <2>1 DEF Entry, EntriesOf
<1> HIDE DEF new, E, n
<1>5. /\ u \in Seq(E) /\ Len(u) = n + 1
      /\ \A i \in 1..n : u[i] = e[i]
      /\ u[n + 1] = new
  BY <1>1, <1>4, AppendProperties DEF n
<1>6. DOMAIN u = 1..(n + 1)
  BY <1>5, LenProperties
<1>7. FilesIn(u) = FilesIn(e) \cup {file}
  BY <1>1, <1>4, Added
<1> HIDE DEF u
<1>8. ASSUME NEW i \in DOMAIN u PROVE (i \in 1..n /\ u[i] = e[i]) \/ (i = n + 1 /\ u[i] = new)
  BY <1>1, <1>5, <1>6
<1>9. ASSUME NEW i \in DOMAIN u PROVE u[i].file.fileNum = i - 1 /\ u[i].has = Chunks(u[i].file)
  <2>1. CASE i \in 1..n /\ u[i] = e[i]
    BY <1>1, <2>1 DEF IsSourceList
  <2>2. CASE i = n + 1 /\ u[i] = new
    BY <1>1, <1>3, <1>4, <2>2
  <2> QED
    BY <1>8, <2>1, <2>2
<1>10. ASSUME NEW i \in DOMAIN u, NEW j \in DOMAIN u, u[i].file.fileName = u[j].file.fileName
       PROVE  i = j
  <2>1. CASE i \in 1..n /\ u[i] = e[i] /\ j \in 1..n /\ u[j] = e[j]
    BY <1>1, <1>10, <2>1 DEF IsSourceList
  <2>2. ASSUME NEW k \in 1..n PROVE e[k].file.fileName # new.file.fileName
    BY <1>1, <1>3, <1>4
  <2> QED
    BY <1>8, <1>10, <2>1, <2>2
<1>11. IsSourceList(u)
  BY <1>5, <1>9, <1>10 DEF IsSourceList, E
<1> QED
  BY <1>2, <1>7, <1>11 DEF u, new

LEMMA InsertKeeps == ASSUME NEW f \in Name, Inv, Insert(f) PROVE Inv'
<1> DEFINE e == list["source"]
           size == Size(Content[f])
           file == [fileNum |-> Len(e), chunkCount |-> ChunkCount(size), fileSize |-> size, fileName |-> f]
           u == Append(e, Entry(file, Chunks(file)))
           disk == store["source"]
           more == [g \in DOMAIN disk \cup {f} |-> IF g = f THEN Content[f] ELSE disk[g]]
           m == NewFile(file)
<1>1. /\ \A i \in DOMAIN e : e[i].file.fileName # f
      /\ list' = [list EXCEPT !["source"] = u] /\ store' = [store EXCEPT !["source"] = more]
      /\ Broadcast("source", m, view, req)
      /\ remote' = remote /\ state' = state /\ view' = view /\ queued' = queued /\ rep' = rep
  BY DEF Insert
<1>2. file = Recorded(Len(e), f)
  BY DEF Recorded
<1>3. file.fileName = f
  OBVIOUS
<1>4. DOMAIN more = DOMAIN disk \cup {f} /\ more[f] = Content[f] /\ \A g \in DOMAIN disk : g # f => more[g] = disk[g]
  OBVIOUS
<1> HIDE DEF file, more, m
<1>5. IsSourceList(e)
  BY DEF Inv, SourceInv
<1>6. file \in Recordable /\ IsSourceList(u) /\ FilesIn(u) = FilesIn(e) \cup {file}
  <2>1. file \in Recordable
    BY <1>1, <1>2, <1>5, SourceGrows
  <2>2. IsSourceList(u)
    BY <1>1, <1>2, <1>5, SourceGrows
  <2>3. FilesIn(u) = FilesIn(e) \cup {file}
    BY <1>1, <1>2, <1>5, SourceGrows
  <2> QED
    BY <2>1, <2>2, <2>3
<1> HIDE DEF u
<1>7. OnNodes(list') /\ list'["source"] = u /\ list'["copy"] = list["copy"]
  <2>1. OnNodes(list)
    BY DEF Inv, Types
  <2> QED
    BY <1>1, <2>1, TheNodes DEF OnNodes
<1>8. OnNodes(store') /\ store'["source"] = more /\ store'["copy"] = store["copy"]
  <2>1. OnNodes(store)
    BY DEF Inv, Types
  <2> QED
    BY <1>1, <2>1, TheNodes DEF OnNodes
<1>9. /\ OnNodes(req') /\ req'["source"] = req["source"]
      /\ req'["copy"] \in {req["copy"], Append(req["copy"], InTransit(m))}
      /\ view["source"] # "ONLINE" => req' = req
  <2>1. OnNodes(req) /\ Other("source") = "copy" /\ "source" \in Node
    BY TheNodes DEF Inv, Types
  <2> QED
    BY <1>1, <2>1, BroadcastFacts
<1>10. Types'
  BY <1>1, <1>7, <1>8, <1>9 DEF Inv, Types
<1>11. SourceInv'
  BY <1>6, <1>7 DEF SourceInv
<1>12. CopyInv' /\ AnnouncedInv'
  <2>1. ASSUME NEW H, NEW s \in Seq(EntriesOf(FilesIn(e), H)) PROVE s \in Seq(EntriesOf(FilesIn(u), H))
    <3>1. EntriesOf(FilesIn(e), H) \subseteq EntriesOf(FilesIn(u), H)
      BY <1>6 DEF EntriesOf
    <3> QED
      BY <3>1, SeqMonotonic
  <2>2. CopyInv'
    BY <1>1, <1>7, <2>1 DEF Inv, CopyInv
  <2>3. AnnouncedInv'
    BY <1>1, <1>7, <2>1 DEF Inv, AnnouncedInv
  <2> QED
    BY <2>2, <2>3
<1>13. DiskInv'
  <2>1. ASSUME NEW n \in Node, NEW g \in DOMAIN store'[n] PROVE g \in Name /\ IsContent(store'[n][g])
    <3>1. CASE n = "source" /\ g = f
      BY <1>4, <1>8, <3>1, TransferAssumption
    <3>2. CASE n = "source" /\ g # f
      <4>1. g \in DOMAIN disk /\ store'[n][g] = disk[g]
        BY <1>4, <1>8, <2>1, <3>2
      <4> QED
        BY <4>1, TheNodes DEF Inv, DiskInv
    <3>3. CASE n = "copy"
      BY <1>8, <2>1, <3>3, TheNodes DEF Inv, DiskInv
    <3> QED
      BY <3>1, <3>2, <3>3 DEF Node
  <2>2. ASSUME NEW other \in FilesIn(u), other.fileName \notin Vanishing
        PROVE  other.fileName \in DOMAIN more /\ more[other.fileName] = Content[other.fileName]
    <3>1. CASE other = file
      BY <1>3, <1>4, <3>1
    <3>2. CASE other \in FilesIn(e)
      <4>1. other.fileName # f
        BY <1>1, <3>2 DEF FilesIn
      <4>2. other.fileName \in DOMAIN disk /\ disk[other.fileName] = Content[other.fileName]
        BY <2>2, <3>2 DEF Inv, DiskInv
      <4> QED
        BY <1>4, <4>1, <4>2
    <3> QED
      BY <1>6, <3>1, <3>2
  <2> QED
    BY <1>7, <1>8, <2>1, <2>2 DEF Inv, DiskInv
<1>14. Traffic'
  <2>1. /\ FilesIn(list["copy"]) \subseteq FilesIn(list'["copy"])
        /\ FilesIn(list["source"]) \subseteq FilesIn(list'["source"])
        /\ Held(list["copy"]) \subseteq Held(list'["copy"])
    BY <1>6, <1>7
  <2> DEFINE S == Transit(ToCopy(FilesIn(list'["source"])))
  <2>2. req["copy"] \in Seq(S)
    BY <2>1, TrafficGrows DEF Inv, Traffic
  <2>3. InTransit(m) \in S
    BY <1>6, <1>7 DEF Transit, ToCopy, m
  <2> HIDE DEF S
  <2>4. req'["copy"] \in Seq(S)
    BY <1>9, <2>2, <2>3, SentOrNot
  <2> QED
    BY <1>1, <1>9, <2>1, <2>4, TrafficGrows DEF Inv, Traffic, S
<1>15. Early'
  BY <1>1, <1>9 DEF Inv, Early
<1> QED
  BY <1>10, <1>11, <1>12, <1>13, <1>14, <1>15 DEF Inv

\* After a write of chunk c of file, its chunks that were there still are, and it is.
LEMMA StoredAfterWrite ==
    ASSUME NEW disk, NEW file \in Recordable, NEW c \in Chunks(file),
           NEW chunk \in [1..ChunkSize -> Byte], IsRight(file, c, chunk)
    PROVE  LET after == WriteChunk(disk, file.fileName, c, chunk, file.fileSize)
           IN  /\ IsStored(after, file, c)
               /\ \A d : IsStored(disk, file, d) => IsStored(after, file, d)
               /\ \A other, d : other.fileName # file.fileName /\ IsStored(disk, other, d)
                                  => IsStored(after, other, d)
<1> DEFINE name == file.fileName
           size == file.fileSize
           after == WriteChunk(disk, name, c, chunk, size)
<1>1. size \in Nat \ {0} /\ c \in ChunkNums(size)
  BY RecordedFacts
<1>2. IsWritten(after, disk, name, c, chunk, size)
  <2> HIDE DEF name, size
  <2> QED
    BY <1>1, WriteFacts
<1> HIDE DEF after
<1>3. DOMAIN after = DOMAIN disk \cup {name}
  BY <1>2 DEF IsWritten
<1>4. \A k \in Span(c, size) :
        k \in DOMAIN after[name] /\ after[name][k] = chunk[k - c * ChunkSize + 1]
  BY <1>2 DEF IsWritten
<1>5. /\ \A f \in DOMAIN disk \ {name} : after[f] = disk[f]
      /\ \A k : k \notin Span(c, size) /\ name \in DOMAIN disk /\ k \in DOMAIN disk[name]
                  => k \in DOMAIN after[name] /\ after[name][k] = disk[name][k]
  BY <1>2 DEF IsWritten
<1>6. ASSUME NEW k \in Span(c, size)
      PROVE  k \in DOMAIN after[name] /\ (name \notin Vanishing => after[name][k] = Content[name][k])
  BY <1>4 DEF IsRight
<1>7. IsStored(after, file, c)
  BY <1>3, <1>6 DEF IsStored
<1>8. ASSUME NEW d, IsStored(disk, file, d) PROVE IsStored(after, file, d)
  <2>1. ASSUME NEW k \in Span(d, size)
        PROVE  k \in DOMAIN after[name] /\ (name \notin Vanishing => after[name][k] = Content[name][k])
    <3>1. CASE k \in Span(c, size)
      BY <1>6, <3>1
    <3>2. CASE k \notin Span(c, size)
      <4>1. /\ name \in DOMAIN disk /\ k \in DOMAIN disk[name]
            /\ name \notin Vanishing => disk[name][k] = Content[name][k]
        BY <1>8 DEF IsStored
      <4> QED
        BY <1>5, <3>2, <4>1
    <3> QED
      BY <3>1, <3>2
  <2>2. d \in Chunks(file)
    BY <1>8 DEF IsStored
  <2> QED
    BY <1>3, <2>1, <2>2 DEF IsStored
<1>9. ASSUME NEW other, NEW d, other.fileName # name, IsStored(disk, other, d) PROVE IsStored(after, other, d)
  BY <1>3, <1>5, <1>9 DEF IsStored
<1> QED
  BY <1>7, <1>8, <1>9 DEF after

LEMMA ChunkKeeps == Inv /\ OnChunk => Inv'
<1> SUFFICES ASSUME Inv, OnChunk PROVE Inv'
  OBVIOUS
<1> DEFINE F == FilesIn(list["source"])
           S == Transit(Replies(F, FilesIn(list["copy"])))
           x == Head(rep)
           e == list["copy"]
           disk == store["copy"]
           file == e[FileOf(e, ReplyRead.fileNum)].file
           name == file.fileName
           size == file.fileSize
           num == ReplyRead.fileNum
           c == ReplyRead.chunkNum
           chunk == ReplyRead.chunk
           after == WriteChunk(disk, name, c, chunk, size)
           u == Marked(e, num, c)
           m == NewChunk(num, c)
<1>1. /\ Reply("CHUNK") /\ rep' = Tail(rep)
      /\ store' = [store EXCEPT !["copy"] = after] /\ list' = [list EXCEPT !["copy"] = u]
      /\ Broadcast("copy", m, view, req)
      /\ remote' = remote /\ state' = state /\ view' = view /\ queued' = queued
  BY DEF OnChunk
<1>2. state \notin {"UNKNOWN", "INITIALIZING"} /\ rep' \in Seq(S)
  BY <1>1, ReplyHead
<1>3. PICK r \in ReadsOf(FilesIn(e)) : ReplyRead = ChunkMessage(r.file.fileNum, r.c, r.chunk)
  <2>1. x \in S /\ x.message.type = "CHUNK" /\ ReplyRead = x.message
    BY <1>1, ReplyHead
  <2>2. F \in SUBSET Recordable /\ FilesIn(e) \in SUBSET Recordable
    BY CopyFiles
  <2> HIDE DEF x, F
  <2> QED
    BY <2>1, <2>2, ReplyReads
<1>4. num = r.file.fileNum /\ c = r.c /\ chunk = r.chunk
  BY <1>3 DEF ChunkMessage
<1>5. /\ r.file \in FilesIn(e) /\ c \in Numbers /\ chunk \in [1..ChunkSize -> Byte]
      /\ c \in Chunks(r.file) /\ IsRight(r.file, c, chunk)
  BY <1>4 DEF ReadsOf
<1> HIDE DEF c, chunk
<1>6. e \in Seq(EntriesOf(F, ChunkNumbers)) /\ IsSourceList(list["source"]) /\ FilesIn(e) \subseteq F
  BY CopyFiles DEF Inv, CopyInv, SourceInv
<1>7. num \in NumsIn(e)
  BY <1>4, <1>5 DEF FilesIn, NumsIn
<1> DEFINE place == FileOf(e, num)
<1>8. place \in DOMAIN e /\ file.fileNum = num /\ file \in FilesIn(e)
  <2> HIDE DEF F, e, num
  <2>1. FileOf(e, num) \in 1..Len(e)
    BY <1>6, <1>7, FileOfFound
  <2>2. e[FileOf(e, num)].file.fileNum = num
    BY <1>6, <1>7, FileOfFound
  <2>3. DOMAIN e = 1..Len(e)
    BY <1>6, LenProperties
  <2> QED
    BY <2>1, <2>2, <2>3 DEF FilesIn, num
<1>9. file = r.file
  <2>1. file \in F /\ r.file \in F
    BY <1>5, <1>6, <1>8
  <2> HIDE DEF file
  <2> QED
    BY <1>4, <1>6, <1>8, <2>1, SourceLookup DEF F
<1>10. file \in Recordable
  BY <1>8, CopyFiles
<1>11. c \in Chunks(file) /\ IsRight(file, c, chunk) /\ c \in ChunkNumbers /\ num \in Byte
  <2>1. file.fileNum \in Byte /\ Chunks(file) \subseteq ChunkNumbers
    BY <1>10, RecordedFacts
  <2>2. c \in Chunks(file) /\ IsRight(file, c, chunk)
    BY <1>5, <1>9
  <2> QED
    BY <1>8, <2>1, <2>2
<1> HIDE DEF e, num, file, F
<1>12. /\ u \in Seq(EntriesOf(F, ChunkNumbers)) /\ Len(u) = Len(e) /\ DOMAIN u = DOMAIN e
       /\ \A i \in DOMAIN e : /\ u[i].file = e[i].file
                             /\ u[i].has \subseteq e[i].has \cup {d \in {c} : i = place}
  <2>1. u \in Seq(EntriesOf(F, ChunkNumbers))
    BY <1>6, <1>7, <1>11, MarkedFacts
  <2>2. Len(u) = Len(e)
    BY <1>6, <1>7, <1>11, MarkedFacts
  <2>3. DOMAIN u = DOMAIN e
    BY <1>6, <1>7, <1>11, MarkedFacts
  <2>4. ASSUME NEW i \in DOMAIN e
        PROVE  u[i].file = e[i].file /\ u[i].has \subseteq e[i].has \cup {d \in {c} : i = place}
    BY <1>6, <1>7, <1>11, MarkedFacts
  <2> HIDE DEF u
  <2> QED
    BY <2>1, <2>2, <2>3, <2>4
<1>13. /\ FilesIn(u) = FilesIn(e) /\ NumsIn(u) = NumsIn(e) /\ Held(e) \subseteq Held(u)
       /\ <<num, c>> \in Held(u)
  <2>1. FilesIn(u) = FilesIn(e) /\ NumsIn(u) = NumsIn(e)
    <3> HIDE DEF u
    <3> QED
      BY <1>12 DEF FilesIn, NumsIn
  <2>3. Held(e) \subseteq Held(u)
    BY <1>6, <1>7, <1>11, MarkedLists
  <2>4. <<num, c>> \in Held(u)
    BY <1>5, <1>6, <1>7, <1>11, MarkedLists
  <2> QED
    BY <2>1, <2>3, <2>4
<1> HIDE DEF u
<1>14. /\ DOMAIN after = DOMAIN disk \cup {name}
       /\ \A g \in DOMAIN disk \ {name} : after[g] = disk[g]
       /\ DOMAIN after[name] \subseteq 0..(size - 1) \cup UNION {DOMAIN disk[f] : f \in DOMAIN disk \cap {name}}
       /\ (\A f \in DOMAIN disk : IsContent(disk[f])) => IsContent(after[name])
  <2>1. size \in Nat \ {0} /\ c \in ChunkNums(size)
    BY <1>10, <1>11, RecordedFacts
  <2>2. IsWritten(after, disk, name, c, chunk, size)
    <3> HIDE DEF name, size, disk
    <3> QED
      BY <1>5, <2>1, WriteFacts
  <2> HIDE DEF after
  <2> QED
    BY <2>2 DEF IsWritten
<1>15. /\ IsStored(after, file, c)
       /\ \A d : IsStored(disk, file, d) => IsStored(after, file, d)
       /\ \A other, d : other.fileName # file.fileName /\ IsStored(disk, other, d) => IsStored(after, other, d)
  <2> HIDE DEF disk
  <2>1. IsStored(after, file, c)
    BY <1>5, <1>10, <1>11, StoredAfterWrite
  <2>2. \A d : IsStored(disk, file, d) => IsStored(after, file, d)
    BY <1>5, <1>10, <1>11, StoredAfterWrite
  <2>3. \A other, d : other.fileName # file.fileName /\ IsStored(disk, other, d) => IsStored(after, other, d)
    BY <1>5, <1>10, <1>11, StoredAfterWrite
  <2> QED
    BY <2>1, <2>2, <2>3
<1> HIDE DEF after
<1>16. OnNodes(list') /\ list'["copy"] = u /\ list'["source"] = list["source"]
  <2>1. OnNodes(list)
    BY DEF Inv, Types
  <2> QED
    BY <1>1, <2>1, TheNodes DEF OnNodes
<1>17. OnNodes(store') /\ store'["copy"] = after /\ store'["source"] = store["source"]
  <2>1. OnNodes(store)
    BY DEF Inv, Types
  <2> QED
    BY <1>1, <2>1, TheNodes DEF OnNodes
<1>18. /\ OnNodes(req') /\ req'["copy"] = req["copy"]
       /\ req'["source"] \in {req["source"], Append(req["source"], InTransit(m))}
  <2>1. OnNodes(req) /\ Other("copy") = "source" /\ "copy" \in Node
    BY TheNodes DEF Inv, Types
  <2> QED
    BY <1>1, <2>1, BroadcastFacts
<1>19. Types'
  BY <1>1, <1>16, <1>17, <1>18 DEF Inv, Types
<1>20. SourceInv'
  BY <1>16 DEF Inv, SourceInv
<1>21. CopyInv'
  <2>1. /\ remote["copy"] \in Seq(EntriesOf(FilesIn(list["source"]), ChunkNumbers))
        /\ Len(remote["copy"]) = Len(e) /\ \A i \in DOMAIN e : remote["copy"][i].file = e[i].file
        /\ queued \subseteq NumsIn(e)
    BY DEF Inv, CopyInv, e
  <2> QED
    BY <1>1, <1>12, <1>13, <1>16, <2>1 DEF CopyInv, F
<1>22. AnnouncedInv'
  BY <1>1, <1>13, <1>16 DEF Inv, AnnouncedInv, e
<1>23. DiskInv'
  <2>1. /\ \A n \in Node : \A f \in DOMAIN store[n] : f \in Name /\ IsContent(store[n][f])
        /\ \A f \in DOMAIN disk : DOMAIN disk[f] \subseteq DOMAIN Content[f] \cup LeftOf(f)
    BY DEF Inv, DiskInv
  <2>2. name \in Name /\ DOMAIN Content[name] = 0..(size - 1)
    <3>1. Content[name] \in [0..(size - 1) -> Byte]
      BY <1>10, RecordedFacts
    <3> QED
      BY <1>10, <3>1, RecordedFacts
  <2>3. \A f \in DOMAIN disk : f \in Name /\ IsContent(disk[f])
    BY <2>1, TheNodes
  <2>4. ASSUME NEW n \in Node, NEW g \in DOMAIN store'[n] PROVE g \in Name /\ IsContent(store'[n][g])
    <3>1. CASE n = "copy" /\ g = name
      BY <1>14, <1>17, <2>2, <2>3, <3>1
    <3>2. CASE n = "copy" /\ g # name
      BY <1>14, <1>17, <2>3, <2>4, <3>2
    <3>3. CASE n = "source"
      BY <1>17, <2>1, <2>4, <3>3, TheNodes
    <3> QED
      BY <3>1, <3>2, <3>3 DEF Node
  <2>5. ASSUME NEW g \in DOMAIN after PROVE DOMAIN after[g] \subseteq DOMAIN Content[g] \cup LeftOf(g)
    <3>1. CASE g = name
      <4>1. UNION {DOMAIN disk[f] : f \in DOMAIN disk \cap {name}} \subseteq DOMAIN Content[name] \cup LeftOf(name)
        BY <2>1
      <4> QED
        BY <1>14, <2>2, <3>1, <4>1
    <3>2. CASE g # name
      BY <1>14, <2>1, <2>5, <3>2
    <3> QED
      BY <3>1, <3>2
  <2>6. ASSUME NEW i \in DOMAIN u, NEW d \in u[i].has PROVE IsStored(after, u[i].file, d)
    <3>1. u[i].file = e[i].file /\ i \in DOMAIN e
      BY <1>12
    <3>2. CASE d \in e[i].has
      <4>1. IsStored(disk, e[i].file, d)
        BY <3>1, <3>2 DEF Inv, DiskInv, e
      <4>2. CASE e[i].file.fileName # name
        BY <1>15, <3>1, <4>1, <4>2
      <4>3. CASE e[i].file.fileName = name
        <5>1. e[i].file \in F /\ file \in F
          BY <1>6, <1>8, <3>1 DEF FilesIn
        <5>2. e[i].file = file
          BY <1>6, <4>3, <5>1, SourceLookup DEF F
        <5> QED
          BY <1>15, <3>1, <4>1, <5>2
      <4> QED
        BY <4>2, <4>3
    <3>3. CASE d \notin e[i].has
      <4>1. d = c /\ i = place
        BY <1>12, <3>1, <3>3
      <4>2. e[i].file = file
        BY <4>1 DEF file, num
      <4> QED
        BY <1>15, <3>1, <4>1, <4>2
    <3> QED
      BY <3>2, <3>3
  <2>7. \A other \in FilesIn(list["source"]) : other.fileName \notin Vanishing =>
          /\ other.fileName \in DOMAIN store["source"]
          /\ store["source"][other.fileName] = Content[other.fileName]
    BY DEF Inv, DiskInv
  <2> QED
    BY <1>16, <1>17, <2>4, <2>5, <2>6, <2>7 DEF DiskInv
<1>24. Traffic'
  <2>1. /\ FilesIn(list["copy"]) \subseteq FilesIn(list'["copy"])
        /\ FilesIn(list["source"]) \subseteq FilesIn(list'["source"])
        /\ Held(list["copy"]) \subseteq Held(list'["copy"])
    BY <1>13, <1>16 DEF e
  <2> DEFINE T == Transit(ToSource(list'["copy"]))
  <2>2. req["source"] \in Seq(T)
    BY <2>1, TrafficGrows DEF Inv, Traffic
  <2>3. InTransit(m) \in T
    <3> DEFINE p == <<num, c>>
    <3>1. p \in Held(list'["copy"]) /\ m = NewChunk(p[1], p[2])
      BY <1>13, <1>16
    <3> HIDE DEF p, m
    <3>2. m \in ToSource(list'["copy"])
      BY <3>1 DEF ToSource
    <3> QED
      BY <3>2 DEF Transit
  <2> HIDE DEF T, m
  <2>4. req'["source"] \in Seq(T)
    BY <1>18, <2>2, <2>3, SentOrNot
  <2>5. rep' \in Seq(Transit(Replies(FilesIn(list'["source"]), FilesIn(list'["copy"]))))
    BY <1>2, <2>1, TrafficGrows DEF S, F
  <2>6. req'["copy"] \in Seq(Transit(ToCopy(FilesIn(list'["source"]))))
    BY <1>16, <1>18 DEF Inv, Traffic
  <2> QED
    BY <2>4, <2>5, <2>6 DEF Traffic, T
<1>25. Early'
  BY <1>1, <1>2 DEF Inv, Early
<1> QED
  BY <1>19, <1>20, <1>21, <1>22, <1>23, <1>24, <1>25 DEF Inv
-----------------------------------------------------------------------------
(***************************************************************************)
(* What follows.                                                           *)
(***************************************************************************)
LEMMA Inductive == Spec => []Inv
<1>1. Inv /\ [Next]_vars => Inv'
  <2> SUFFICES ASSUME Inv, [Next]_vars PROVE Inv'
    OBVIOUS
  <2>1. ASSUME NEW f \in Name, Insert(f) PROVE Inv'
    BY <2>1, InsertKeeps
  <2>2. ASSUME NEW f \in Name, Vanish(f) PROVE Inv'
    BY <2>2, VanishKeeps
  <2>3. CASE Join
    BY <2>3, JoinKeeps
  <2>4. CASE OnHandshakeRequest
    BY <2>4, HandshakeRequestKeeps
  <2>5. CASE OnFileListRequest
    BY <2>5, FileListRequestKeeps
  <2>6. CASE OnChunkInfoRequest
    BY <2>6, ChunkInfoRequestKeeps
  <2>7. CASE OnChunkRequest
    BY <2>7, ChunkRequestKeeps
  <2>8. CASE OnNewChunk
    BY <2>8, NewChunkKeeps
  <2>9. CASE OnJoinNotification
    BY <2>9, JoinNotificationKeeps
  <2>10. CASE OnHandshakeResponse
    BY <2>10, HandshakeResponseKeeps
  <2>11. CASE OnFileList
    BY <2>11, FileListKeeps
  <2>12. CASE OnChunkInfo
    BY <2>12, ChunkInfoKeeps
  <2>13. CASE OnNewFile
    BY <2>13, NewFileKeeps
  <2>14. CASE OnChunk
    BY <2>14, ChunkKeeps
  <2>15. ASSUME NEW num \in queued, RequestChunk(num) PROVE Inv'
    BY <2>15, RequestChunkKeeps
  <2>16. CASE UNCHANGED vars
    BY <2>16, Stutters
  <2> QED
    BY <2>1, <2>2, <2>3, <2>4, <2>5, <2>6, <2>7, <2>8, <2>9, <2>10, <2>11, <2>12, <2>13, <2>14,
       <2>15, <2>16 DEF Next
<1> QED
  BY Starts, <1>1, PTL DEF Spec

LEMMA FramesInTransit ==
    ASSUME Inv
    PROVE  /\ \A i \in DOMAIN req["source"] : req["source"][i] \in Transit(ToSource(list["copy"]))
           /\ \A i \in DOMAIN req["copy"] : req["copy"][i] \in Transit(ToCopy(FilesIn(list["source"])))
           /\ \A i \in DOMAIN rep : rep[i] \in Transit(Replies(FilesIn(list["source"]), FilesIn(list["copy"])))
<1>1. ASSUME NEW S, NEW s \in Seq(S), NEW i \in DOMAIN s PROVE s[i] \in S
  <2>1. i \in 1..Len(s)
    BY LenProperties
  <2> QED
    BY <2>1, ElementOfSeq
<1> QED
  BY <1>1 DEF Inv, Traffic

\* The variables have their types, every frame under way has the length of a
\* frame, and the copy goes through its states with the view it has of the
\* source (updateState() and the handlers of replies in peer.cpp).
THEOREM TypeCorrect == Spec => []TypeOK
<1>1. Inv => TypeOK
  <2> SUFFICES ASSUME Inv PROVE TypeOK
    OBVIOUS
  <2>1. \A n \in Node : \A f \in DOMAIN store[n] : f \in Name /\ IsContent(store[n][f])
    BY DEF Inv, DiskInv
  <2>2. ASSUME NEW n \in Node, NEW i \in DOMAIN list[n] PROVE list[n][i].has \subseteq 0..(MaxChunks - 1)
    <3>1. CASE n = "source"
      <4>1. list["source"] \in Seq(EntriesOf(Recordable, ChunkNumbers))
        BY DEF Inv, SourceInv, IsSourceList
      <4>2. \A j \in DOMAIN list["source"] : list["source"][j].has \subseteq ChunkNumbers
        BY <4>1, FilesInRange
      <4> QED
        BY <2>2, <3>1, <4>2 DEF ChunkNumbers
    <3>2. CASE n = "copy"
      <4>1. list["copy"] \in Seq(EntriesOf(FilesIn(list["source"]), ChunkNumbers))
        BY DEF Inv, CopyInv
      <4>2. \A j \in DOMAIN list["copy"] : list["copy"][j].has \subseteq ChunkNumbers
        BY <4>1, FilesInRange
      <4> QED
        BY <2>2, <3>2, <4>2 DEF ChunkNumbers
    <3> QED
      BY <3>1, <3>2 DEF Node
  <2>3. ASSUME NEW n \in Node, NEW i \in DOMAIN req[n] PROVE DOMAIN req[n][i].bytes = 0..(FrameLength - 1)
    <3>1. CASE n = "source"
      <4>1. req["source"][i] \in Transit(ToSource(list["copy"]))
        BY <2>3, <3>1, FramesInTransit
      <4>2. IsFrame(req["source"][i])
        BY <4>1, SourceReads
      <4> QED
        BY <3>1, <4>2 DEF IsFrame
    <3>2. CASE n = "copy"
      <4>1. req["copy"][i] \in Transit(ToCopy(FilesIn(list["source"])))
        BY <2>3, <3>2, FramesInTransit
      <4>2. IsFrame(req["copy"][i])
        BY <4>1, CopyFiles, CopyReads
      <4> QED
        BY <3>2, <4>2 DEF IsFrame
    <3> QED
      BY <3>1, <3>2 DEF Node
  <2>4. /\ state \in {"UNKNOWN", "INITIALIZING", "WAITING_FOR_FILE_LIST", "WAITING_FOR_CHUNK_INFO", "ONLINE"}
        /\ view \in [Node -> {"OFFLINE", "WAITING_FOR_HANDSHAKE", "ONLINE"}]
        /\ state \in {"WAITING_FOR_FILE_LIST", "WAITING_FOR_CHUNK_INFO", "ONLINE"} => view["copy"] = "ONLINE"
    BY DEF Inv, Types, Early
  <2>5. queued \subseteq NumsIn(list["copy"])
    BY DEF Inv, CopyInv
  <2> QED
    BY <2>1, <2>2, <2>3, <2>4, <2>5 DEF TypeOK
<1> QED
  BY Inductive, <1>1, PTL

\* Whichever of NEW_FILE_AVAILABLE and FILE_LIST told the copy of a file, it has
\* the name, the length and the number of chunks that the source has for it,
\* though the second lacks the number of chunks (handleFileListFrame()).
THEOREM ListsAlwaysAgree == Spec => []ListsAgree
<1>1. Inv => ListsAgree
  <2> SUFFICES ASSUME Inv, NEW i \in DOMAIN list["copy"]
               PROVE  \E j \in DOMAIN list["source"] : list["copy"][i].file = list["source"][j].file
    BY DEF ListsAgree
  <2>1. list["copy"][i].file \in FilesIn(list["source"])
    BY CopyFiles DEF FilesIn
  <2> QED
    BY <2>1 DEF FilesIn
<1> QED
  BY Inductive, <1>1, PTL

\* What the copy has marked of a file that nobody deleted from the source is on
\* its disk byte by byte, for all orders of frames, lengths of files and older
\* files of the same name (handleChunkFrame() and FileChunkIO::writeChunk()).
THEOREM CopyStaysIntact == Spec => []CopyIsIntact
<1>1. Inv => CopyIsIntact
  <2> SUFFICES ASSUME Inv, NEW i \in DOMAIN list["copy"], NEW c \in list["copy"][i].has,
                      list["copy"][i].file.fileName \notin Vanishing
               PROVE  c \in Chunks(list["copy"][i].file) /\ Holds(store["copy"], list["copy"][i].file, c)
    BY DEF CopyIsIntact
  <2>1. IsStored(store["copy"], list["copy"][i].file, c)
    BY DEF Inv, DiskInv
  <2> QED
    BY <2>1 DEF IsStored, Holds
<1> QED
  BY Inductive, <1>1, PTL

\* A file of which all chunks are marked has all its bytes, and no byte after
\* its end that an older file did not have: the chunks cover the file, and the
\* last is written no further than the file goes (FileChunkIO::writeChunk()).
THEOREM LengthStaysRight == Spec => []LengthIsRight
<1>1. Inv => LengthIsRight
  <2> SUFFICES ASSUME Inv, NEW i \in DOMAIN list["copy"],
                      list["copy"][i].has = Chunks(list["copy"][i].file)
               PROVE  LET name == list["copy"][i].file.fileName
                      IN  /\ DOMAIN Content[name] \subseteq DOMAIN store["copy"][name]
                          /\ DOMAIN store["copy"][name] \subseteq DOMAIN Content[name] \cup LeftOf(name)
    BY DEF LengthIsRight, LeftOf
  <2> DEFINE file == list["copy"][i].file
             name == file.fileName
             size == file.fileSize
             disk == store["copy"]
  <2>1. file \in Recordable
    BY CopyFiles DEF FilesIn
  <2>2. \A c \in Chunks(file) : IsStored(disk, file, c)
    BY DEF Inv, DiskInv
  <2>3. \A f \in DOMAIN disk : DOMAIN disk[f] \subseteq DOMAIN Content[f] \cup LeftOf(f)
    BY DEF Inv, DiskInv
  <2> HIDE DEF file, disk
  <2>4. /\ size \in Nat \ {0} /\ Content[name] \in [0..(size - 1) -> Byte]
        /\ Chunks(file) = ChunkNums(size)
    BY <2>1, RecordedFacts
  <2>5. ASSUME NEW k \in 0..(size - 1) PROVE name \in DOMAIN disk /\ k \in DOMAIN disk[name]
    <3>1. PICK c \in ChunkNums(size) : k \in Span(c, size)
      BY <2>4, SpansCover
    <3>2. IsStored(disk, file, c)
      BY <2>2, <2>4, <3>1
    <3> QED
      BY <3>1, <3>2 DEF IsStored
  <2>6. DOMAIN Content[name] = 0..(size - 1) /\ 0 \in 0..(size - 1)
    BY <2>4
  <2> QED
    BY <2>3, <2>5, <2>6 DEF file, disk
<1> QED
  BY Inductive, <1>1, PTL

\* If the NUL of the port of the copy stays in its field, every frame is read as
\* it was meant, whatever numbers, names, chunks and lists it carries, and in
\* all states of the two nodes (the create, parse and get functions of Frames.cpp).
THEOREM FramesAreRead == ASSUME PortFits PROVE Spec => []WireIsFaithful
<1>1. Inv => WireIsFaithful
  <2> SUFFICES ASSUME Inv PROVE WireIsFaithful
    OBVIOUS
  <2>1. ASSUME NEW n \in Node, NEW i \in DOMAIN req[n] PROVE Decode(req[n][i].bytes) = req[n][i].message
    <3>1. CASE n = "source"
      <4>1. req["source"][i] \in Transit(ToSource(list["copy"]))
        BY <2>1, <3>1, FramesInTransit
      <4>2. Decode(req["source"][i].bytes) = req["source"][i].message
        BY <4>1, PortFits, SourceReads
      <4> QED
        BY <3>1, <4>2
    <3>2. CASE n = "copy"
      <4>1. req["copy"][i] \in Transit(ToCopy(FilesIn(list["source"])))
        BY <2>1, <3>2, FramesInTransit
      <4>2. Decode(req["copy"][i].bytes) = req["copy"][i].message
        BY <4>1, CopyFiles, CopyReads
      <4> QED
        BY <3>2, <4>2
    <3> QED
      BY <3>1, <3>2 DEF Node
  <2>2. ASSUME NEW i \in DOMAIN rep PROVE Decode(rep[i].bytes) = rep[i].message
    <3>1. rep[i] \in Transit(Replies(FilesIn(list["source"]), FilesIn(list["copy"])))
      BY FramesInTransit
    <3>2. FilesIn(list["source"]) \in SUBSET Recordable /\ FilesIn(list["copy"]) \in SUBSET Recordable
      BY CopyFiles
    <3> QED
      BY <3>1, <3>2, ReplyReads
  <2> QED
    BY <2>1, <2>2 DEF WireIsFaithful
<1> QED
  BY Inductive, <1>1, PTL

\* If the NUL of the port of the copy stays in its field, the source takes the
\* copy to have no chunk that the copy does not have: the number in an
\* announcement is that of the file that was written (handleChunkFrame() and
\* handleNewChunkAvailableFrame()).
THEOREM AnnouncementsAreHeld == ASSUME PortFits PROVE Spec => []AnnouncedIsHeld
<1>1. Inv => AnnouncedIsHeld
  <2> SUFFICES ASSUME Inv, NEW i \in DOMAIN remote["source"], NEW c \in remote["source"][i].has
               PROVE  \E j \in DOMAIN list["copy"] :
                          /\ list["copy"][j].file.fileNum = remote["source"][i].file.fileNum
                          /\ c \in list["copy"][j].has
    BY DEF AnnouncedIsHeld
  <2> DEFINE num == remote["source"][i].file.fileNum
             p == <<num, c>>
  <2>1. remote["source"] \in Seq(EntriesOf(FilesIn(list["source"]), Numbers))
    BY DEF Inv, AnnouncedInv
  <2>2. remote["source"][i].file \in FilesIn(list["source"]) /\ c \in Numbers
    BY <2>1, FilesInRange
  <2>3. num \in Byte
    BY <2>2, CopyFiles, RecordedFacts
  <2>4. p \in Byte \X Numbers /\ p[1] = num /\ p[2] = c
    BY <2>2, <2>3
  <2> HIDE DEF p
  <2>5. p \in Held(remote["source"])
    BY <2>4 DEF Held
  <2>6. p \in Held(list["copy"])
    BY <2>5, PortFits DEF Inv, AnnouncedInv
  <2> QED
    BY <2>4, <2>6 DEF Held
<1> QED
  BY Inductive, <1>1, PTL
=============================================================================
