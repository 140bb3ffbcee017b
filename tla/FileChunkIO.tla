---------------------------- MODULE FileChunkIO ----------------------------
(***************************************************************************)
(* Chunks of files on disk, src/src/FileChunkIO.cpp.  A store is the       *)
(* directory localStorage: a function from the names of the files that     *)
(* exist to what they hold, and that a function from 0..(length - 1) to    *)
(* bytes.  Chunks, as in frames, are sequences of ChunkSize bytes.         *)
(***************************************************************************)
EXTENDS Globals, Integers, Sequences

\* The number of chunks of a file, counted in four places of the code.
ChunkCount(size) == size \div ChunkSize + (IF size % ChunkSize = 0 THEN 0 ELSE 1)

\* Mistake: the last chunk is written as it came.
WriteSizeFull(chunkNum, size) == ChunkSize

\* The last chunk is written as far as the file goes.
WriteSize(chunkNum, size) ==
    IF chunkNum = ChunkCount(size) - 1 THEN size - (ChunkCount(size) - 1) * ChunkSize ELSE ChunkSize

\* Positions of a chunk in the file.
Span(chunkNum, size) == (chunkNum * ChunkSize)..(chunkNum * ChunkSize + WriteSize(chunkNum, size) - 1)

\* A missing file is made with its full size, by one byte at its end.
CreateFileIfNotExists(store, name, size) ==
    IF name \in DOMAIN store THEN store
    ELSE [f \in DOMAIN store \cup {name} |-> IF f = name THEN [i \in 0..(size - 1) |-> 0] ELSE store[f]]

\* Mistake: the offset counts bytes, not chunks.
OverwriteUnscaled(content, chunkNum, chunk, size) ==
    LET written == chunkNum..(chunkNum + WriteSize(chunkNum, size) - 1)
    IN  [i \in DOMAIN content \cup written |->
            IF i \in written THEN chunk[i - chunkNum + 1] ELSE content[i]]

\* A file that exists keeps what it has outside the chunk; it only grows, and
\* then has zeros up to the chunk.
Overwrite(content, chunkNum, chunk, size) ==
    LET written == Span(chunkNum, size)
        first == chunkNum * ChunkSize
    IN  [i \in DOMAIN content \cup 0..(first + WriteSize(chunkNum, size) - 1) |->
            CASE i \in written -> chunk[i - first + 1]
              [] i \in DOMAIN content \ written -> content[i]
              [] OTHER -> 0]

WriteChunk(store, name, chunkNum, chunk, size) ==
    LET made == CreateFileIfNotExists(store, name, size)
    IN  [made EXCEPT ![name] = Overwrite(@, chunkNum, chunk, size)]

\* What is in buffer after a read: where the file is missing or ends, what was.
ReadChunk(store, name, chunkNum, buffer) ==
    [k \in 1..ChunkSize |->
        LET i == chunkNum * ChunkSize + k - 1
        IN  IF name \in DOMAIN store /\ i \in DOMAIN store[name] THEN store[name][i] ELSE buffer[k]]
=============================================================================
