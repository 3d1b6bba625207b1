------------------------------ MODULE GgufFile ------------------------------
(***************************************************************************)
(* A GGUF file from mlmc_map_file to mlmc_unmap_file: gguf_load over the   *)
(* mapping it makes and keeps in out->file (src/gguf.c, src/platform.c).   *)
(***************************************************************************)
EXTENDS GgufLoad

CONSTANT Platforms

VARIABLES platform, map_pc, disk, stat, held, view, out

mapping == <<platform, map_pc, disk, stat, held, view, out>>

M == INSTANCE MappedFile WITH pc <- map_pc, file <- disk

ASSUME GgufFileAssumption == Platforms \subseteq {"posix", "windows"}

FileInit == Init /\ M!Init

\* mlmc_map_file runs, while another process may resize the file.
Mapping == pc = "map" /\ (M!MapStep \/ M!Resize) /\ UNCHANGED vars

\* It returns; its own failure ends the load with nothing to unmap.  Nothing asks for
\* the file's size again, so that disk is forgotten.
MapFile ==
  /\ \/ map_pc = "mapped" /\ Mapped(out.size)
     \/ map_pc = "failed" /\ NotMapped
  /\ disk' = 0 /\ UNCHANGED <<platform, map_pc, stat, held, view, out>>

\* gguf_free, after a failure or a success, unmaps the file.
Loading ==
  /\ LoadStep
  /\ IF pc' \in {"failed", "freed"} THEN M!Unmap ELSE UNCHANGED mapping

Done == pc \in {"failed", "freed"} /\ UNCHANGED <<vars, mapping>>

Next == Mapping \/ MapFile \/ Loading \/ Done

Spec == FileInit /\ [][Next]_<<vars, mapping>>
-----------------------------------------------------------------------------
\* A failed load and a freed file leave no block, descriptor or view behind, and a
\* struct that may be freed again (gguf.c:254-263, 473-492, platform.c:16-79, 92-140).
AllReleased == EverythingFreed /\ M!NothingHeld
               /\ (pc \in {"failed", "freed"} => held = {} /\ out = M!Zeroed)

\* Every pointer in *out, its mapped file's too, is to something still held, and all
\* that is held is reached by one (gguf.c:219-227, 310-328, platform.c:57-79).
PointersExact == OwnershipExact /\ M!PointsToHeld

\* The bytes of every loaded tensor are mapped, whatever the offsets, and whatever
\* becomes of the file while it is opened; and they are what the accessor hands out
\* (gguf.c:423-466, 519-542, platform.c:33-60, 100-124).
TensorsMapped ==
  /\ LoadedRangesValid /\ M!SizeIsMapped
  /\ pc = "loaded" => \A n \in 1 .. tensor_count :
                        LET at == tensor_data_offset + tensors[n].offset IN
                        /\ at + tensors[n].storage <= view
                        /\ TensorData(tensors[n]) = {[at |-> at, size |-> tensors[n].storage]}
=============================================================================
