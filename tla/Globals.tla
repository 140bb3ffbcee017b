------------------------------ MODULE Globals ------------------------------
(***************************************************************************)
(* The sizes of src/src/Globals.h that more than one part uses.            *)
(***************************************************************************)
EXTENDS Naturals

CONSTANTS ChunkSize,  \* chunkSize: 65536
          MaxChunks   \* maxChunksPerFile: 32768, where unsigned long has 32 bits

ASSUME GlobalsAssumption == ChunkSize \in Nat \ {0} /\ MaxChunks \in Nat \ {0}
=============================================================================
