----------------------------- MODULE MappedFile -----------------------------
(***************************************************************************)
(* mlmc_map_file and mlmc_unmap_file (src/platform.c), as built for POSIX  *)
(* and for Windows.  What the system hands out is held until it is given   *)
(* back; every step may fail and then undoes the earlier ones by hand.     *)
(* Another process may resize the file, which Windows keeps it from while  *)
(* it is open (FILE_SHARE_READ).                                           *)
(***************************************************************************)
EXTENDS Integers, FiniteSets

CONSTANTS Platforms,   \* "posix" or "windows", or both
          SizeMax,     \* SIZE_MAX
          FileSizes    \* sizes of the file, as the system counts them

VARIABLES platform,   \* what the program was built for
          pc,
          file,       \* the size of the file
          stat,       \* what fstat or GetFileSizeEx said of it
          held,       \* "impl", "fd" or "handle", "mapping", "view"
          view,       \* bytes that are mapped
          out         \* the caller's mlmc_mapped_file_t: what it points to, and size

vars == <<platform, pc, file, stat, held, view, out>>

Zeroed == [points |-> {}, size |-> 0]

\* The struct may hold anything before the call.
Init == /\ platform \in Platforms
        /\ pc = "start" /\ file \in FileSizes /\ stat = 0
        /\ held = {} /\ view = 0
        /\ out \in {Zeroed, [points |-> {"garbage"}, size |-> 1]}

Posix   == platform = "posix"
Windows == platform = "windows"

\* A step fails, and what it names is released.
Fails(released) ==
  /\ pc' = "failed"
  /\ held' = held \ released
  /\ view' = IF "view" \in released THEN 0 ELSE view
  /\ UNCHANGED <<platform, file, stat, out>>

Acquires(resource, then) ==
  /\ pc' = then
  /\ held' = held \cup {resource}
  /\ UNCHANGED <<platform, file, stat, out>>

\* memset comes first, so that every way out leaves it zeroed or filled.
Clear ==
  /\ pc = "start"
  /\ out' = Zeroed
  /\ pc' = IF Posix THEN "open" ELSE "impl"
  /\ UNCHANGED <<platform, file, stat, held, view>>

AllocateImpl ==
  /\ Windows /\ pc = "impl"
  /\ (Acquires("impl", "open") /\ UNCHANGED view) \/ Fails({})

Open ==
  /\ pc = "open"
  /\ \/ Acquires(IF Posix THEN "fd" ELSE "handle", "stat") /\ UNCHANGED view
     \/ Fails(IF Posix THEN {} ELSE {"impl"})

\* An empty file is refused.
Stat ==
  /\ pc = "stat"
  /\ \/ /\ file > 0 /\ stat' = file
        /\ pc' = IF Posix THEN "map" ELSE "mapping"
        /\ UNCHANGED <<platform, file, held, view, out>>
     \/ Fails(IF Posix THEN {"fd"} ELSE {"handle", "impl"})

CreateMapping ==
  /\ Windows /\ pc = "mapping"
  /\ (Acquires("mapping", "map") /\ UNCHANGED view) \/ Fails({"handle", "impl"})

AsSize(n) == n % (SizeMax + 1)

\* mmap takes a number of bytes, MapViewOfFile all of the file or nothing.
Map ==
  /\ pc = "map"
  /\ \/ /\ view' = IF Posix THEN AsSize(stat) ELSE file
        /\ view' \in 1 .. SizeMax
        /\ Acquires("view", IF Posix THEN "impl" ELSE "fill")
     \/ Fails(IF Posix THEN {"fd"} ELSE {"mapping", "handle", "impl"})

\* Mutant: the view stays when malloc fails.
KeepDescriptorLeaks ==
  /\ Posix /\ pc = "impl"
  /\ (Acquires("impl", "fill") /\ UNCHANGED view) \/ Fails({"fd"})

KeepDescriptor ==
  /\ Posix /\ pc = "impl"
  /\ (Acquires("impl", "fill") /\ UNCHANGED view) \/ Fails({"view", "fd"})

\* Mutant: the size is what the file has now.
FillTooMuch ==
  /\ pc = "fill"
  /\ out' = [points |-> {"view", "impl"}, size |-> AsSize(file)]
  /\ pc' = "mapped"
  /\ UNCHANGED <<platform, file, stat, held, view>>

Fill ==
  /\ pc = "fill"
  /\ out' = [points |-> {"view", "impl"}, size |-> AsSize(stat)]
  /\ pc' = "mapped"
  /\ UNCHANGED <<platform, file, stat, held, view>>

\* Mutant: the struct is not cleared after the release.
UnmapKeepsPointers ==
  /\ pc \in {"mapped", "failed", "unmapped"}
  /\ pc' = "unmapped"
  /\ held' = IF "impl" \in out.points
             THEN held \ ({"mapping", "fd", "handle", "impl"} \cup (out.points \cap {"view"}))
             ELSE held
  /\ view' = IF "impl" \in out.points /\ "view" \in out.points THEN 0 ELSE view
  /\ UNCHANGED <<platform, file, stat, out>>

\* Releases through the struct what it points to, and all that impl_ holds.
Unmap ==
  /\ pc \in {"mapped", "failed", "unmapped"}
  /\ pc' = "unmapped" /\ out' = Zeroed
  /\ held' = IF "impl" \in out.points
             THEN held \ ({"mapping", "fd", "handle", "impl"} \cup (out.points \cap {"view"}))
             ELSE held
  /\ view' = IF "impl" \in out.points /\ "view" \in out.points THEN 0 ELSE view
  /\ UNCHANGED <<platform, file, stat>>

Resize ==
  /\ "handle" \notin held
  /\ file' \in FileSizes
  /\ UNCHANGED <<platform, pc, stat, held, view, out>>

MapStep == \/ Clear \/ AllocateImpl \/ Open \/ Stat \/ CreateMapping \/ Map
           \/ KeepDescriptor \/ Fill
-----------------------------------------------------------------------------
\* Nothing is held after a failure or an unmap, and the struct is then zeroed
\* (platform.c:16-79, 92-140).
NothingHeld == pc \in {"failed", "unmapped"} => held = {} /\ view = 0 /\ out = Zeroed

\* The struct never points to what is no longer, or not yet, held, so that nothing
\* is read or given back twice through it (platform.c:57-79, 121-140).
PointsToHeld == pc # "start" => out.points \subseteq held

\* What the struct says may be read was mapped, whatever becomes of the file
\* between fstat, mmap and the answer (platform.c:33-60, 100-124).
SizeIsMapped == pc = "mapped" => out.size = view
=============================================================================
