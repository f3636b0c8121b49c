------------------------------ MODULE MCLibrary ------------------------------
(***************************************************************************)
(* The parts of tools/ that are used by one thread or behind one lock, the *)
(* data port and the compressor, in one model: they do not interact, so a  *)
(* behaviour is one of a single part, its subject, and the others stay as  *)
(* they were made.                                                         *)
(***************************************************************************)
EXTENDS LinearHashMap, HeapAllocator, Frames, NodeList, CallbackKeeper,
        ObjectsCache, DataPort, Lzo

VARIABLE subject

Subjects == {"map", "heap", "frames", "spline", "list", "keeper",
             "cache", "port", "lzo"}

(* Where a part can be made in several ways, one is enough while it is not *)
(* the subject.                                                            *)
LibraryInit ==
  /\ subject \in Subjects
  /\ MapInit /\ HeapInit /\ FramesInit /\ ListInit
  /\ KeeperInit /\ CacheInit /\ PortInit /\ LzoInit
  /\ subject # "frames" => frame.static /\ frame.f.sz = 1
  /\ subject # "lzo" => plain = <<>> /\ enc.pc # "none"

\* What is not about the subject stays.
Rest ==
  /\ UNCHANGED subject
  /\ subject # "map" => UNCHANGED mapVars
  /\ subject # "heap" => UNCHANGED heapVars
  /\ subject \notin {"frames", "spline"} => UNCHANGED frameVars
  /\ subject # "list" => UNCHANGED listVars
  /\ subject # "keeper" => UNCHANGED keeperVars
  /\ subject # "cache" => UNCHANGED cacheVars
  /\ subject # "port" => UNCHANGED portVars
  /\ subject # "lzo" => UNCHANGED lzoVars

LibraryNext ==
  /\ Rest
  /\ \/ subject = "map" /\ MapNext
     \/ subject = "heap" /\ HeapNext
     \/ subject = "frames" /\ FramesNext
     \/ subject = "spline" /\ SplineNext
     \/ subject = "list" /\ ListNext
     \/ subject = "keeper" /\ KeeperNext
     \/ subject = "cache" /\ CacheNext
     \/ subject = "port" /\ PortNext
     \/ subject = "lzo" /\ LzoNext

libraryVars == <<subject, mapVars, heapVars, frameVars, listVars,
                 keeperVars, cacheVars, portVars, lzoVars>>

LibrarySpec == LibraryInit /\ [][LibraryNext]_libraryVars

(* Frames show the newest values whatever is moved and grown               *)
(* (static_frame.hpp:54), and rings of nodes stay rings of living nodes    *)
(* whatever is linked and taken out (list.hpp:35).                         *)
StoresExact == FramesExact /\ RingsIntact

-----------------------------------------------------------------------------
\* Texts of n bytes with period p, and one that repeats a part of itself.
Periodic(n, p) == [i \in 1 .. n |-> (i - 1) % p]
MCPlain ==
  {Periodic(n, p) : n \in {0, 1, 3, 4, 18, 19, 21, 27, 40, 60}, p \in {1, 3, 5, 7}}
    \cup {Periodic(60, 97), Periodic(300, 97)}
    \cup {Periodic(20, 97) \o Periodic(30, 97) \o Periodic(30, 4)}
MCMatches ==
  {4, 8, 9, 10, 33, 34, 264, 265, 288, 289, 600} \X
  {1, 8, 9, 2048, 2049, 16384, 16385, 20000, 32768, 32769, 49151}
\* Line feeds, carriage returns and end-of-file marks among the data.
MCPortData == {<<0>>, <<10, 26>>, <<13, 10>>}
=============================================================================
