------------------------------- MODULE Verify -------------------------------
(***************************************************************************)
(* `tracebridge debug verify [--t32]`: the loadable content of each image  *)
(* of the project against target memory (verify and verify_one in          *)
(* commands.rs, compare and load_segments in elf.rs), which is read in     *)
(* chunks (memory_read of t32rcl), then TRACE32's own comparison.          *)
(*                                                                         *)
(* The core may run and write its memory between any two reads, and the    *)
(* result of Data.LOAD /DIFF, FOUND(), belongs to PowerView: a search of   *)
(* another client replaces it.                                             *)
(***************************************************************************)
EXTENDS Positions

CONSTANTS
  Images,     (* the images that may be verified: sequences of segments    *)
  MaxImages,  (* bound: project.elf and its extra_elf                      *)
  READ_CHUNK_SIZE, (* bytes of one read                                    *)
  Memory,     (* the addresses of target memory                            *)
  Bytes,      (* what a byte may be                                        *)
  MaxWrites   (* bound: writes of the running core                         *)

ASSUME VerifyAssumption ==
  /\ Images \subseteq Seq([load : BOOLEAN, paddr : Nat, data : Seq(Bytes)])
  /\ READ_CHUNK_SIZE \in Nat \ {0} /\ MaxImages \in Nat \ {0} /\ MaxWrites \in Nat

VARIABLES
  verifyAt,   (* the next step                                             *)
  images,     (* the images to verify                                      *)
  with_t32,   (* --t32                                                     *)
  image,      (* the image under way                                       *)
  segment,    (* its segment under way                                     *)
  bytes,      (* memory_read's result so far                               *)
  differing,  (* bytes of the image that differ                            *)
  code,       (* the exit code so far                                      *)
  memory,     (* target memory                                             *)
  found,      (* PowerView's FOUND()                                       *)
  writes,     (* number of writes of the core                              *)
  equal,      (* history: all bytes compared were equal when read          *)
  denied      (* history: FOUND() was true when asked                      *)

verifyVars ==
  <<verifyAt, images, with_t32, image, segment, bytes, differing, code, memory, found,
    writes, equal, denied>>

-----------------------------------------------------------------------------

(* load_segments: PT_LOAD with content in the file.                        *)
Loadable(s) == s.load /\ s.data # <<>>
Segments ==
  LET segments == images[image]
  IN  Picked(segments, {i \in DOMAIN segments : Loadable(segments[i])})
Segment  == Segments[segment]

(* Bytes of the next chunk, of those of the segment that are left.         *)
ChunkSize(rest) == IF rest < READ_CHUNK_SIZE THEN rest ELSE READ_CHUNK_SIZE

VerifyInit ==
  /\ verifyAt = "image" /\ image = 1 /\ segment = 1 /\ bytes = <<>>
  /\ images \in UNION {[1 .. n -> Images] : n \in 1 .. MaxImages}
  /\ with_t32 \in BOOLEAN /\ differing = 0 /\ code = 0
  /\ memory \in [Memory -> Bytes] /\ found \in BOOLEAN /\ writes = 0
  /\ equal = TRUE /\ denied = FALSE

VerifyFails ==
  /\ verifyAt' = "failed" /\ code' = 1
  /\ UNCHANGED <<image, segment, bytes, differing, equal, denied>>

VerifyQuiet == UNCHANGED <<images, with_t32, memory, found, writes>>

(* verify_one reads the file and its program headers.                      *)
ReadImage ==
  /\ verifyAt = "image"
  /\ \/ /\ Segments # <<>>
        /\ verifyAt' = "read" /\ segment' = 1 /\ bytes' = <<>> /\ differing' = 0
        /\ UNCHANGED <<image, code, equal, denied>>
     \/ VerifyFails
  /\ VerifyQuiet

(* One chunk of memory_read; a short answer is an error.                   *)
ReadChunk ==
  /\ verifyAt = "read" /\ Len(bytes) < Len(Segment.data)
  /\ LET chunk == ChunkSize(Len(Segment.data) - Len(bytes))
         data  == [k \in 1 .. chunk |-> memory[Segment.paddr + Len(bytes) + k - 1]]
     IN  \/ /\ bytes' = bytes \o data
            /\ equal' = (equal /\ data = SubSeq(Segment.data, Len(bytes) + 1, Len(bytes) + chunk))
            /\ UNCHANGED <<verifyAt, image, segment, differing, code, denied>>
         \/ VerifyFails
  /\ VerifyQuiet

(* compare: byte by byte, when the whole segment has been read.            *)
CompareSegment ==
  /\ verifyAt = "read" /\ Len(bytes) = Len(Segment.data)
  /\ differing' = differing + Cardinality({k \in DOMAIN bytes : bytes[k] # Segment.data[k]})
  /\ bytes' = <<>>
  /\ IF segment < Len(Segments) THEN segment' = segment + 1 /\ UNCHANGED verifyAt
     ELSE verifyAt' = (IF with_t32 THEN "diff" ELSE "image_done") /\ UNCHANGED segment
  /\ UNCHANGED <<image, code, equal, denied>> /\ VerifyQuiet

(* Data.LOAD.Elf /DIFF.                                                    *)
Diff ==
  /\ verifyAt = "diff"
  /\ \/ /\ found' = \E s \in DOMAIN Segments : \E k \in DOMAIN Segments[s].data :
                      memory[Segments[s].paddr + k - 1] # Segments[s].data[k]
        /\ verifyAt' = "found"
        /\ UNCHANGED <<image, segment, bytes, differing, code, equal, denied>>
     \/ VerifyFails /\ found' \in BOOLEAN
  /\ UNCHANGED <<images, with_t32, memory, writes>>

(* FOUND(), and TRACK.ADDRESS() when it is true.                           *)
AskFound ==
  /\ verifyAt = "found"
  /\ \/ /\ verifyAt' = "image_done" /\ denied' = (denied \/ found)
        /\ code' = IF found THEN 3 ELSE code
        /\ UNCHANGED <<image, segment, bytes, differing, equal>>
     \/ VerifyFails
  /\ VerifyQuiet

(* Mutant: the latest image decides.                                       *)
LatestOnly(others, differ) == IF differ # 0 THEN 3 ELSE 0

(* The outcome of an image joins that of the others.                       *)
Joined(others, differ) == IF differ # 0 THEN 3 ELSE others

ImageDone ==
  /\ verifyAt = "image_done"
  /\ code' = Joined(code, differing)
  /\ IF image < Len(images) THEN image' = image + 1 /\ verifyAt' = "image"
                            ELSE verifyAt' = "reported" /\ UNCHANGED image
  /\ UNCHANGED <<segment, bytes, differing, equal, denied>> /\ VerifyQuiet

(* The core runs, and another client searches.                             *)
CoreWrites ==
  /\ verifyAt \notin {"reported", "failed"} /\ writes < MaxWrites
  /\ \E a \in Memory, b \in Bytes : memory' = [memory EXCEPT ![a] = b]
  /\ writes' = writes + 1
  /\ UNCHANGED <<verifyAt, images, with_t32, image, segment, bytes, differing, code, found,
                 equal, denied>>

OthersSearch ==
  /\ verifyAt = "found" /\ found' \in BOOLEAN
  /\ UNCHANGED <<verifyAt, images, with_t32, image, segment, bytes, differing, code, memory,
                 writes, equal, denied>>

VerifyNext ==
  \/ ReadImage \/ ReadChunk \/ CompareSegment \/ Diff \/ AskFound \/ ImageDone
  \/ CoreWrites \/ OthersSearch

VerifySpec == VerifyInit /\ [][VerifyNext]_verifyVars

-----------------------------------------------------------------------------

(* Property: `verify` matches (exit code 0) if and only if every byte of   *)
(* every loadable segment of every image was equal to target memory when   *)
(* it was read, and TRACE32 found no difference when asked (README: "the   *)
(* result matches only if every one does").                                *)
MatchMeansAllEqual ==
  verifyAt = "reported" => (code = 0 <=> equal /\ ~denied)
=============================================================================
