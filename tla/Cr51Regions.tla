------------------------------ MODULE Cr51Regions -----------------------------
(***************************************************************************)
(* validate_payload_regions() of libcr51sign: the regions of a payload are *)
(* checked, and those that are static are hashed in chunks, the area of    *)
(* the image descriptor left out.  A byte stands for a unit of flash.      *)
(* What Cr51Sign sees of it is a RegionCall.                               *)
(***************************************************************************)
EXTENDS RegionCall

CONSTANTS
  FlashSize,     \* reads that end beyond it fail
  Word,          \* 2^32: sizes are uint32_t
  Chunk          \* MAX_READ_SIZE

Region == [offset : 0..(Word - 1), size : 0..(Word - 1), static : BOOLEAN]

ASSUME RegionAssumption ==
  /\ FlashSize \in Nat \ {0} /\ Word \in Nat /\ 2 * FlashSize < Word
  /\ Align \in Nat \ {0} /\ Chunk \in Nat \ {0}
  /\ \A in \in RegionInput :
       /\ in.regions \in Seq(Region) /\ in.regions # <<>>
       /\ in.d \in 0..FlashSize /\ in.area \in 1..FlashSize
       /\ in.d + in.area <= FlashSize
       /\ in.image_size \in 0..FlashSize
       /\ in.hooked \in BOOLEAN /\ in.magic \in BOOLEAN

VARIABLES
  rg_pc,        \* "call", "check", "region", "piece", "read", "final", "done"
  rg_i,         \* regions seen by the loop under way
  byte_count,   \* where the next region must begin
  d_region_num, \* the region of the descriptor
  hash_start,   \* the piece to be hashed next
  read_at, read_left,  \* offset and size in read_and_hash_update()
  hashed,       \* the bytes the digest covers
  hash_end      \* history: where the last chunk ended

rgCheck == <<byte_count, d_region_num>>
rgHash == <<hash_start, read_at, read_left, hashed, hash_end>>
rgVars == <<rg_in, rg_pc, rg_verdict, rg_i, rgCheck, rgHash>>

(* uint32_t subtraction.                                                   *)
Sub(a, b) == IF a >= b THEN a - b ELSE a - b + Word

RgInit ==
  /\ rg_in \in RegionInput
  /\ rg_pc = "call"
  /\ rg_verdict = "none"
  /\ rg_i = 0
  /\ byte_count = 0
  /\ d_region_num = 1
  /\ hash_start = 0
  /\ read_at = 0
  /\ read_left = 0
  /\ hashed = {}
  /\ hash_end = 0

-------------------------------------------------------------------------------
RgReturns(verdict) ==
  /\ rg_pc' = "done"
  /\ rg_verdict' = verdict
  /\ UNCHANGED <<rg_in, rg_i, rgCheck, rgHash>>

(* The region array is read.                                               *)
ReadArray ==
  /\ rg_pc = "call"
  /\ \/ RgReturns("RUNTIME_FAILURE")
     \/ /\ rg_pc' = "check"
        /\ UNCHANGED <<rg_in, rg_verdict, rg_i, rgCheck, rgHash>>

Checking == rg_in.regions[rg_i + 1]

RegionAligned == Checking.offset % Align = 0 /\ Checking.size % Align = 0

(* Mutant of RegionFollows: gaps are let through.                          *)
RegionFollowsGap ==
  /\ Checking.offset >= byte_count
  /\ Checking.size <= Sub(rg_in.image_size, byte_count)

RegionFollows ==
  /\ Checking.offset = byte_count
  /\ Checking.size <= Sub(rg_in.image_size, byte_count)

(* The descriptor's area does not leave its region, which is static.       *)
DescriptorFits ==
  /\ rg_in.area <= Sub(EndOf(Checking), rg_in.d)
  /\ Checking.static

(* The first loop over the regions.  d_region_num keeps its first value if *)
(* no region contains the descriptor.                                      *)
CheckRegion ==
  /\ rg_pc = "check"
  /\ rg_i < Len(rg_in.regions)
  /\ IF /\ RegionAligned
        /\ RegionFollows
        /\ InRegion(Checking, rg_in.d) => DescriptorFits
     THEN /\ byte_count' = byte_count + Checking.size
          /\ d_region_num' = IF InRegion(Checking, rg_in.d) THEN rg_i + 1
                             ELSE d_region_num
          /\ rg_i' = rg_i + 1
          /\ UNCHANGED <<rg_in, rg_pc, rg_verdict, rgHash>>
     ELSE RgReturns("INVALID_DESCRIPTOR")

(* What comes between the loops: reading the digest, of which the magic is *)
(* checked, and hash_init(), each of which may fail.                       *)
BeginHash ==
  /\ rg_pc = "check"
  /\ rg_i = Len(rg_in.regions)
  /\ \/ byte_count # rg_in.image_size /\ RgReturns("INVALID_DESCRIPTOR")
     \/ byte_count = rg_in.image_size /\ RgReturns("RUNTIME_FAILURE")
     \/ /\ byte_count = rg_in.image_size
        /\ ~rg_in.magic
        /\ RgReturns("INVALID_DESCRIPTOR")
     \/ /\ byte_count = rg_in.image_size
        /\ rg_in.magic
        /\ rg_pc' = "region"
        /\ rg_i' = 0
        /\ UNCHANGED <<rg_in, rg_verdict, rgCheck, rgHash>>

Current == rg_in.regions[rg_i]

(* The second loop, past the regions that are not static.                  *)
NextRegion ==
  /\ rg_pc = "region"
  /\ rg_i < Len(rg_in.regions)
  /\ rg_i' = rg_i + 1
  /\ IF Checking.static
     THEN rg_pc' = "piece" /\ hash_start' = Checking.offset
     ELSE UNCHANGED <<rg_pc, hash_start>>
  /\ UNCHANGED <<rg_in, rg_verdict, rgCheck, read_at, read_left, hashed,
                 hash_end>>

EndRegions ==
  /\ rg_pc = "region"
  /\ rg_i = Len(rg_in.regions)
  /\ rg_pc' = "final"
  /\ UNCHANGED <<rg_in, rg_verdict, rg_i, rgCheck, rgHash>>

(* Mutant of SkipDescriptor: the descriptor is not left out.               *)
SkipNothing ==
  IF Sub(rg_in.d, hash_start) # 0
  THEN read_at' = hash_start /\ read_left' = Sub(rg_in.d, hash_start)
  ELSE read_at' = hash_start /\ read_left' = Sub(EndOf(Current), hash_start)

(* Mutant of SkipDescriptor: an empty piece is not told apart.             *)
SkipEmptyToo == read_at' = hash_start /\ read_left' = Sub(rg_in.d, hash_start)

(* The piece before the descriptor; if there is none, or it has been       *)
(* hashed, the rest of the region after the descriptor's area.             *)
SkipDescriptor ==
  LET before == Sub(rg_in.d, hash_start)
      after == hash_start + rg_in.area
  IN IF before # 0
     THEN read_at' = hash_start /\ read_left' = before
     ELSE read_at' = after /\ read_left' = Sub(EndOf(Current), after)

StartPiece ==
  /\ rg_pc = "piece"
  /\ IF rg_i = d_region_num
     THEN SkipDescriptor
     ELSE read_at' = hash_start /\ read_left' = Current.size
  /\ rg_pc' = "read"
  /\ UNCHANGED <<rg_in, rg_verdict, rg_i, rgCheck, hash_start, hashed, hash_end>>

(* read_and_hash_update() reads at least once, if only nothing.            *)
ReadSize == IF rg_in.hooked \/ read_left < Chunk THEN read_left ELSE Chunk

Advance(n) ==
  /\ read_at' = read_at + n
  /\ read_left' = read_left - n

HashChunk ==
  /\ rg_pc = "read"
  /\ read_at + ReadSize <= FlashSize
  /\ hashed' = hashed \cup Bytes(read_at, ReadSize)
  /\ hash_end' = read_at + ReadSize
  /\ Advance(ReadSize)
  /\ IF read_left' > 0
     THEN UNCHANGED <<rg_pc, hash_start>>
     ELSE /\ hash_start' = read_at'
          /\ rg_pc' = IF hash_start' = EndOf(Current) THEN "region"
                      ELSE "piece"
  /\ UNCHANGED <<rg_in, rg_verdict, rg_i, rgCheck>>

(* A read fails, as one beyond the flash does, or hash_update() does.      *)
ChunkFails ==
  /\ rg_pc = "read"
  /\ RgReturns("RUNTIME_FAILURE")

(* hash_final() and the comparison with the digest.  Two digests are the   *)
(* same if they cover the same bytes, which are hashed in ascending order  *)
(* (HashedOnceInOrder).                                                    *)
FinishHash ==
  /\ rg_pc = "final"
  /\ \/ RgReturns("RUNTIME_FAILURE")
     \/ RgReturns(IF hashed = rg_in.signed THEN "SUCCESS" ELSE "INVALID_HASH")

RgNext ==
  \/ ReadArray
  \/ CheckRegion
  \/ BeginHash
  \/ NextRegion
  \/ EndRegions
  \/ StartPiece
  \/ HashChunk
  \/ ChunkFails
  \/ FinishHash

RgSpec == RgInit /\ [][RgNext]_rgVars

(* The validation is a sequential program that is not stopped.             *)
RgFairness == WF_rgVars(RgNext)

-------------------------------------------------------------------------------
(* The loops over regions, pieces and chunks return the verdict that       *)
(* Cr51Sign takes from the first check that fails: an array that does not  *)
(* tile the image, or leaves the descriptor outside of a static region, is *)
(* never hashed and a proper one never refused; and the signature counts   *)
(* for the bytes it was made for and no others.                            *)
ImplementsRegionCall == RgCallSpec

StaticBytes(n) == StaticOf(rg_in, n)

(* What is compared with the digest covers every byte of every static      *)
(* region but those of the descriptor's area, and no other byte, wherever  *)
(* the descriptor lies and at every boundary of a region or a chunk.       *)
HashedExactly ==
  rg_pc = "final" =>
    hashed = StaticBytes(Len(rg_in.regions)) \ Bytes(rg_in.d, rg_in.area)

(* No byte is hashed twice or before one that precedes it.                 *)
HashedOnceInOrder == rg_pc = "read" /\ read_left > 0 => read_at >= hash_end

(* The digest is that of the bytes it should cover, each once, in order.   *)
DigestCovers == HashedExactly /\ HashedOnceInOrder

(* The call ends: the loop that hashes the two pieces of the descriptor's    *)
(* region comes to the region's end, whichever piece is empty.             *)
HashingEnds == rg_pc = "region" ~> rg_pc = "done"

-------------------------------------------------------------------------------
Array == rg_in.regions
Area == Bytes(rg_in.d, rg_in.area)

RgTypeOK ==
  /\ rg_in \in RegionInput
  /\ rg_pc \in {"call", "check", "region", "piece", "read", "final", "done"}
  /\ rg_verdict \in {"none", "RUNTIME_FAILURE", "INVALID_DESCRIPTOR",
                     "INVALID_HASH", "SUCCESS"}
  /\ rg_i \in 0..Len(Array)
  /\ byte_count \in 0..rg_in.image_size
  /\ d_region_num \in 1..Len(Array)
  /\ hash_start \in Nat /\ read_at \in Nat /\ read_left \in Nat
  /\ hash_end \in Nat

(* The first k regions lie one behind the other from 0 to byte_count.      *)
Tiled(k) ==
  /\ k = 0 => byte_count = 0
  /\ k > 0 => Array[1].offset = 0 /\ EndOf(Array[k]) = byte_count
  /\ \A i \in 1..k : /\ Array[i].offset % Align = 0 /\ Array[i].size % Align = 0
                    /\ EndOf(Array[i]) <= byte_count
  /\ \A i, j \in 1..k : i < j => EndOf(Array[i]) <= Array[j].offset
  /\ \A n \in 0..(byte_count - 1) : \E i \in 1..k : InRegion(Array[i], n)

(* One of them holds the descriptor's area, or none its first byte.        *)
Located(k) ==
  \/ /\ d_region_num \in 1..k
     /\ InRegion(Array[d_region_num], rg_in.d)
     /\ Array[d_region_num].static
     /\ rg_in.d + rg_in.area <= EndOf(Array[d_region_num])
  \/ /\ d_region_num = 1
     /\ \A i \in 1..k : ~InRegion(Array[i], rg_in.d)

(* The digest when everything before byte n of the region under way, and   *)
(* nothing after it, has been hashed.                                      *)
CoveredTo(n) ==
  (StaticBytes(rg_i - 1) \cup Bytes(Array[rg_i].offset, n - Array[rg_i].offset))
    \ Area

PieceBegins ==
  /\ hashed = CoveredTo(hash_start)
  /\ Array[rg_i].offset <= hash_start
  /\ hash_end <= hash_start
  /\ IF rg_i = d_region_num THEN hash_start <= rg_in.d
     ELSE hash_start = Array[rg_i].offset

(* The piece under way ends before the descriptor, or with the region.     *)
PieceUnderWay ==
  /\ hashed = CoveredTo(read_at)
  /\ Array[rg_i].offset <= read_at
  /\ \/ rg_i = d_region_num /\ read_at + read_left = rg_in.d
     \/ /\ read_at + read_left = EndOf(Array[rg_i])
        /\ rg_i = d_region_num => read_at >= rg_in.d + rg_in.area

(* A descriptor in no region leads to a piece that goes beyond the flash,  *)
(* which cannot be read to its end.                                        *)
PieceTooLong == read_at + read_left > FlashSize /\ read_left > 0

HashedSoFar ==
  /\ rg_pc = "region" =>
       /\ hashed = StaticBytes(rg_i) \ Area
       /\ \A j \in (rg_i + 1)..Len(Array) : hash_end <= Array[j].offset
  /\ rg_pc \in {"piece", "read"} => rg_i >= 1 /\ Array[rg_i].static
  /\ rg_pc = "piece" => PieceBegins
  /\ rg_pc = "read" =>
       hash_end <= read_at /\ (PieceUnderWay \/ PieceTooLong)
  /\ rg_pc = "final" => hashed = StaticBytes(Len(Array)) \ Area

(* The inductive invariant of the validation of the regions.               *)
RgIInv ==
  /\ RgTypeOK
  /\ rg_pc \in {"call", "check"} =>
       /\ hashed = {} /\ hash_end = 0
       /\ Tiled(rg_i) /\ Located(rg_i)
  /\ rg_pc = "call" => rg_i = 0
  /\ rg_pc \in {"region", "piece", "read", "final"} =>
       /\ byte_count = rg_in.image_size
       /\ Tiled(Len(Array)) /\ Located(Len(Array))
  /\ HashedSoFar
===============================================================================
