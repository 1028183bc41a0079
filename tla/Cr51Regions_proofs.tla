--------------------------- MODULE Cr51Regions_proofs --------------------------
(***************************************************************************)
(* Cr51Regions for every region array, flash and chunk size: what is       *)
(* hashed is every static region less the area of the descriptor, and the  *)
(* loops implement RegionCall, the one verdict that Cr51Sign takes.        *)
(***************************************************************************)
EXTENDS Cr51Regions, TLAPS

(* The arguments of the call, with what the assumption says of them.       *)
LEMMA Arguments ==
  ASSUME rg_in \in RegionInput
  PROVE  /\ Array \in Seq(Region) /\ Len(Array) \in Nat /\ Len(Array) >= 1
         /\ rg_in.d \in Nat /\ rg_in.area \in Nat /\ rg_in.area >= 1
         /\ rg_in.d + rg_in.area <= FlashSize
         /\ rg_in.image_size \in Nat /\ rg_in.image_size <= FlashSize
         /\ FlashSize \in Nat /\ Word \in Nat /\ 2 * FlashSize < Word
         /\ Chunk \in Nat /\ Chunk >= 1
<1>2. /\ rg_in.regions \in Seq(Region) /\ rg_in.regions # <<>>
      /\ rg_in.d \in 0..FlashSize /\ rg_in.area \in 1..FlashSize
      /\ rg_in.d + rg_in.area <= FlashSize
      /\ rg_in.image_size \in 0..FlashSize
      /\ FlashSize \in Nat \ {0} /\ Word \in Nat /\ 2 * FlashSize < Word
      /\ Chunk \in Nat \ {0}
  BY RegionAssumption
<1>3. Len(Array) \in Nat /\ Len(Array) >= 1
  BY <1>2 DEF Array
<1> QED
  BY <1>2, <1>3 DEF Array

LEMMA RegionTypes ==
  ASSUME RgTypeOK, NEW i \in 1..Len(Array)
  PROVE  /\ Array[i].offset \in Nat /\ Array[i].size \in Nat
         /\ EndOf(Array[i]) \in Nat /\ Array[i].offset <= EndOf(Array[i])
         /\ EndOf(Array[i]) = Array[i].offset + Array[i].size
<1>1. Array \in Seq(Region) /\ Word \in Nat
  BY Arguments DEF RgTypeOK
<1>2. Array[i] \in Region
  BY <1>1
<1>3. Array[i].offset \in 0..(Word - 1) /\ Array[i].size \in 0..(Word - 1)
  BY <1>2 DEF Region
<1> QED
  BY <1>1, <1>3 DEF EndOf

LEMMA SubType ==
  ASSUME Word \in Nat, NEW a \in Nat, NEW b \in Nat, b <= Word
  PROVE  Sub(a, b) \in Nat
  BY DEF Sub

-------------------------------------------------------------------------------
(* The bytes of the static regions.                                        *)
LEMMA StaticNone == StaticBytes(0) = {}
  BY DEF StaticBytes, StaticOf

(* One more region adds its bytes if it is static, and nothing if not.     *)
LEMMA StaticNext ==
  ASSUME NEW k \in Nat
  PROVE  StaticBytes(k + 1) =
           StaticBytes(k) \cup
             (IF Array[k + 1].static
              THEN Bytes(Array[k + 1].offset, Array[k + 1].size) ELSE {})
<1>1. 1..(k + 1) = 1..k \cup {k + 1}
  OBVIOUS
<1>2. {j \in 1..(k + 1) : Array[j].static} =
        {j \in 1..k : Array[j].static}
          \cup (IF Array[k + 1].static THEN {k + 1} ELSE {})
  BY <1>1
<1> QED
  BY <1>2 DEF StaticBytes, StaticOf, Array

-------------------------------------------------------------------------------
(* A region under way without the descriptor shares no byte with its area. *)
LEMMA OtherRegionDisjoint ==
  ASSUME RgTypeOK, Tiled(Len(Array)), Located(Len(Array)),
         byte_count = rg_in.image_size,
         NEW i \in 1..Len(Array), i # d_region_num,
         NEW n \in Int, Array[i].offset <= n, n < EndOf(Array[i])
  PROVE  n \notin Area
<1>0. /\ rg_in.d \in Nat /\ rg_in.area \in Nat /\ rg_in.area >= 1
      /\ rg_in.image_size \in Nat /\ Len(Array) \in Nat
      /\ d_region_num \in 1..Len(Array)
  BY Arguments DEF RgTypeOK
<1>1. n \in Area => rg_in.d <= n /\ n < rg_in.d + rg_in.area
  BY <1>0 DEF Area, Bytes
<1>2. /\ \A j \in 1..Len(Array) : EndOf(Array[j]) \in Nat /\ Array[j].offset \in Nat
      /\ \A j, k \in 1..Len(Array) : j < k => EndOf(Array[j]) <= Array[k].offset
      /\ EndOf(Array[i]) <= rg_in.image_size
  BY RegionTypes DEF Tiled
<1>3. CASE /\ InRegion(Array[d_region_num], rg_in.d)
           /\ rg_in.d + rg_in.area <= EndOf(Array[d_region_num])
  <2>1. i < d_region_num \/ d_region_num < i
    BY <1>0
  <2>2. Array[d_region_num].offset <= rg_in.d
    BY <1>3 DEF InRegion
  <2>3. CASE i < d_region_num
    <3>1. EndOf(Array[i]) <= Array[d_region_num].offset
      BY <1>0, <1>2, <2>3
    <3>2. n < rg_in.d
      BY <1>0, <1>2, <2>2, <3>1
    <3> QED
      BY <1>0, <1>1, <3>2
  <2>4. CASE d_region_num < i
    <3>1. EndOf(Array[d_region_num]) <= Array[i].offset
      BY <1>0, <1>2, <2>4
    <3>2. n >= rg_in.d + rg_in.area
      BY <1>0, <1>2, <1>3, <3>1
    <3> QED
      BY <1>0, <1>1, <3>2
  <2> QED
    BY <2>1, <2>3, <2>4
<1>4. CASE \A j \in 1..Len(Array) : ~InRegion(Array[j], rg_in.d)
  <2>1. rg_in.d \notin 0..(byte_count - 1)
    BY <1>4 DEF Tiled
  <2>2. rg_in.d >= rg_in.image_size
    BY <1>0, <2>1
  <2> QED
    BY <1>0, <1>1, <1>2, <2>2
<1>5. \/ /\ InRegion(Array[d_region_num], rg_in.d)
         /\ rg_in.d + rg_in.area <= EndOf(Array[d_region_num])
      \/ \A j \in 1..Len(Array) : ~InRegion(Array[j], rg_in.d)
  BY DEF Located
<1> QED
  BY <1>3, <1>4, <1>5

(* The bytes of the descriptor's region up to the descriptor, or behind    *)
(* its area, are not of its area.                                          *)
LEMMA CoveredGrows ==
  ASSUME RgTypeOK, Tiled(Len(Array)), Located(Len(Array)),
         byte_count = rg_in.image_size, rg_i >= 1,
         NEW a \in Nat, NEW b \in Nat, a <= b, Array[rg_i].offset <= a,
         \/ rg_i = d_region_num /\ (b <= rg_in.d \/ a >= rg_in.d + rg_in.area)
         \/ rg_i # d_region_num /\ b <= EndOf(Array[rg_i])
  PROVE  CoveredTo(b) = CoveredTo(a) \cup Bytes(a, b - a)
<1>0. /\ rg_i \in 1..Len(Array) /\ rg_i \in Nat
      /\ rg_in.d \in Nat /\ rg_in.area \in Nat
  BY Arguments DEF RgTypeOK
<1>1. Array[rg_i].offset \in Nat /\ EndOf(Array[rg_i]) \in Nat
  BY <1>0, RegionTypes
<1>2. \A n \in Bytes(a, b - a) : n \in Int /\ a <= n /\ n < b
  BY DEF Bytes
<1>3. \A n \in Bytes(a, b - a) : n \notin Area
  <2>1. CASE rg_i = d_region_num /\ (b <= rg_in.d \/ a >= rg_in.d + rg_in.area)
    BY <1>0, <1>2, <2>1 DEF Area, Bytes
  <2>2. CASE rg_i # d_region_num /\ b <= EndOf(Array[rg_i])
    <3>1. \A n \in Bytes(a, b - a) :
            n \in Int /\ Array[rg_i].offset <= n /\ n < EndOf(Array[rg_i])
      BY <1>1, <1>2, <2>2
    <3> QED
      BY <1>0, <2>2, <3>1, OtherRegionDisjoint
  <2> QED
    BY <2>1, <2>2
<1>4. Bytes(Array[rg_i].offset, b - Array[rg_i].offset)
        = Bytes(Array[rg_i].offset, a - Array[rg_i].offset) \cup Bytes(a, b - a)
  <2>1. \A o \in Int : o <= a =>
          Bytes(o, b - o) = Bytes(o, a - o) \cup Bytes(a, b - a)
    BY DEF Bytes
  <2>2. Array[rg_i].offset \in Int /\ Array[rg_i].offset <= a
    BY <1>1
  <2> QED
    BY <2>1, <2>2, Zenon
<1> QED
  BY <1>3, <1>4 DEF CoveredTo

(* A stretch of bytes is cut in two anywhere.                              *)
LEMMA BytesCut ==
  ASSUME NEW o \in Int, NEW d \in Int, NEW e \in Int, o <= d, d <= e
  PROVE  Bytes(o, e - o) = Bytes(o, d - o) \cup Bytes(d, e - d)
<1>1. o + (e - o) - 1 = e - 1 /\ o + (d - o) - 1 = d - 1 /\ d + (e - d) - 1 = e - 1
  OBVIOUS
<1>2. o .. e - 1 = (o .. d - 1) \cup (d .. e - 1)
  OBVIOUS
<1> QED
  BY <1>1, <1>2 DEF Bytes

(* Leaving out the descriptor's area changes nothing of what is covered.   *)
LEMMA CoveredSkips ==
  ASSUME RgTypeOK, rg_i >= 1, Array[rg_i].offset <= rg_in.d
  PROVE  CoveredTo(rg_in.d + rg_in.area) = CoveredTo(rg_in.d)
<1>0. /\ rg_i \in 1..Len(Array)
      /\ rg_in.d \in Nat /\ rg_in.area \in Nat
  BY Arguments DEF RgTypeOK
<1>1. Array[rg_i].offset \in Nat
  BY <1>0, RegionTypes
<1> DEFINE e == rg_in.d + rg_in.area
<1>2. Bytes(Array[rg_i].offset, e - Array[rg_i].offset)
        = Bytes(Array[rg_i].offset, rg_in.d - Array[rg_i].offset)
            \cup Bytes(rg_in.d, e - rg_in.d)
  <2>1. /\ Array[rg_i].offset \in Int /\ Array[rg_i].offset <= rg_in.d
        /\ rg_in.d \in Int /\ e \in Int /\ rg_in.d <= e
    BY <1>0, <1>1
  <2> HIDE DEF e
  <2> QED
    BY <2>1, BytesCut, SMT
<1>3. Bytes(rg_in.d, e - rg_in.d) = Area
  BY <1>0 DEF Area, Bytes
<1> QED
  BY <1>2, <1>3 DEF CoveredTo

(* When the region's end is reached, the region is done.                   *)
LEMMA CoveredRegion ==
  ASSUME RgTypeOK, rg_i >= 1, Array[rg_i].static
  PROVE  CoveredTo(EndOf(Array[rg_i])) = StaticBytes(rg_i) \ Area
<1>0. rg_i \in 1..Len(Array) /\ rg_i - 1 \in Nat /\ (rg_i - 1) + 1 = rg_i
  BY Arguments DEF RgTypeOK
<1>1. Array[rg_i].offset \in Nat /\ Array[rg_i].size \in Nat
  BY <1>0, RegionTypes
<1>2. EndOf(Array[rg_i]) - Array[rg_i].offset = Array[rg_i].size
  BY <1>1 DEF EndOf
<1>3. StaticBytes(rg_i) = StaticBytes(rg_i - 1)
                            \cup Bytes(Array[rg_i].offset, Array[rg_i].size)
  BY <1>0, StaticNext
<1> QED
  BY <1>2, <1>3 DEF CoveredTo

(* Where the descriptor lies in relation to the region named for it.       *)
LEMMA DescriptorRegion ==
  ASSUME RgTypeOK, Tiled(Len(Array)), Located(Len(Array)),
         byte_count = rg_in.image_size
  PROVE  /\ Array[d_region_num].offset <= rg_in.d
         /\ \/ rg_in.d + rg_in.area <= EndOf(Array[d_region_num])
            \/ EndOf(Array[d_region_num]) <= rg_in.d
<1>0. /\ rg_in.d \in Nat /\ rg_in.image_size \in Nat
      /\ d_region_num \in 1..Len(Array)
  BY Arguments DEF RgTypeOK
<1>1. /\ Array[d_region_num].offset \in Nat
      /\ EndOf(Array[d_region_num]) \in Nat
      /\ Array[d_region_num].offset <= EndOf(Array[d_region_num])
  BY <1>0, RegionTypes
<1>2. EndOf(Array[d_region_num]) <= rg_in.image_size
  BY <1>0 DEF Tiled
<1>3. CASE /\ InRegion(Array[d_region_num], rg_in.d)
           /\ rg_in.d + rg_in.area <= EndOf(Array[d_region_num])
  BY <1>3 DEF InRegion
<1>4. CASE \A j \in 1..Len(Array) : ~InRegion(Array[j], rg_in.d)
  <2>1. rg_in.d \notin 0..(byte_count - 1)
    BY <1>4 DEF Tiled
  <2>2. rg_in.d >= rg_in.image_size
    BY <1>0, <2>1
  <2> QED
    BY <1>0, <1>1, <1>2, <2>2
<1>5. \/ /\ InRegion(Array[d_region_num], rg_in.d)
         /\ rg_in.d + rg_in.area <= EndOf(Array[d_region_num])
      \/ \A j \in 1..Len(Array) : ~InRegion(Array[j], rg_in.d)
  BY DEF Located
<1> QED
  BY <1>3, <1>4, <1>5

-------------------------------------------------------------------------------
LEMMA InitRgIInv == RgInit => RgIInv
<1> SUFFICES ASSUME RgInit PROVE RgIInv
  OBVIOUS
<1>1. /\ Len(Array) \in Nat /\ Len(Array) >= 1 /\ rg_in.image_size \in Nat
      /\ rg_in \in RegionInput
  BY Arguments DEF RgInit
<1>2. RgTypeOK
  BY <1>1 DEF RgInit, RgTypeOK
<1>3. Tiled(0) /\ Located(0)
  BY <1>1 DEF RgInit, Tiled, Located
<1> QED
  BY <1>2, <1>3 DEF RgInit, RgIInv, HashedSoFar

(* Any call that returns, with or without success.                         *)
LEMMA ReturnsRgIInv ==
  ASSUME RgIInv,
         NEW verdict \in {"RUNTIME_FAILURE", "INVALID_DESCRIPTOR",
                          "INVALID_HASH", "SUCCESS"},
         RgReturns(verdict)
  PROVE  RgIInv'
<1>1. RgTypeOK'
  BY DEF RgIInv, RgTypeOK, RgReturns, rgCheck, rgHash, Array
<1> QED
  BY <1>1 DEF RgIInv, HashedSoFar, RgReturns

(* What does not change with the region array.                             *)
LEMMA SameArray ==
  ASSUME rg_in' = rg_in
  PROVE  /\ Array' = Array /\ Area' = Area
         /\ \A n : StaticBytes(n)' = StaticBytes(n)
  BY DEF Array, Area, StaticBytes, StaticOf

LEMMA SameTiling ==
  ASSUME rg_in' = rg_in, UNCHANGED rgCheck
  PROVE  \A k : (Tiled(k) => Tiled(k)') /\ (Located(k) => Located(k)')
  BY DEF rgCheck, Tiled, Located, Array

LEMMA ReadArrayRgIInv == RgIInv /\ ReadArray => RgIInv'
<1> SUFFICES ASSUME RgIInv, ReadArray PROVE RgIInv'
  OBVIOUS
<1>1. CASE RgReturns("RUNTIME_FAILURE")
  BY <1>1, ReturnsRgIInv
<1>2. CASE rg_pc' = "check" /\ UNCHANGED <<rg_in, rg_verdict, rg_i, rgCheck, rgHash>>
  <2>1. RgTypeOK'
    BY <1>2 DEF RgIInv, RgTypeOK, rgCheck, rgHash, Array
  <2>2. Tiled(rg_i)' /\ Located(rg_i)'
    BY <1>2, SameTiling DEF RgIInv, ReadArray
  <2> QED
    BY <1>2, <2>1, <2>2 DEF RgIInv, ReadArray, HashedSoFar, rgHash
<1> QED
  BY <1>1, <1>2 DEF ReadArray

LEMMA CheckRegionRgIInv == RgIInv /\ CheckRegion => RgIInv'
<1> SUFFICES ASSUME RgIInv, CheckRegion PROVE RgIInv'
  OBVIOUS
<1> DEFINE k == rg_i + 1
<1>0. /\ rg_in.d \in Nat /\ rg_in.area \in Nat /\ Len(Array) \in Nat
      /\ rg_in.image_size \in Nat /\ Word \in Nat
      /\ rg_i \in Nat /\ byte_count \in Nat /\ byte_count <= rg_in.image_size
      /\ d_region_num \in 1..Len(Array)
      /\ rg_in.image_size <= FlashSize /\ FlashSize \in Nat
      /\ 2 * FlashSize < Word /\ rg_in.d <= FlashSize
      /\ rg_in \in RegionInput
  BY Arguments DEF RgIInv, RgTypeOK
<1>1. RgTypeOK /\ Tiled(rg_i) /\ Located(rg_i) /\ rg_pc = "check"
  BY DEF RgIInv, CheckRegion
<1>2. CASE RgReturns("INVALID_DESCRIPTOR")
  BY <1>2, ReturnsRgIInv
<1>3. CASE /\ RegionAligned
           /\ RegionFollows
           /\ InRegion(Checking, rg_in.d) => DescriptorFits
           /\ byte_count' = byte_count + Checking.size
           /\ d_region_num' = IF InRegion(Checking, rg_in.d) THEN rg_i + 1
                              ELSE d_region_num
           /\ rg_i' = rg_i + 1
           /\ UNCHANGED <<rg_in, rg_pc, rg_verdict, rgHash>>
  <2>1. k \in 1..Len(Array) /\ Checking = Array[k] /\ k \in Nat /\ k >= 1
    BY <1>0 DEF CheckRegion, Checking, Array
  <2>2. /\ Array[k].offset \in Nat /\ Array[k].size \in Nat
        /\ EndOf(Array[k]) = Array[k].offset + Array[k].size
    BY <1>1, <2>1, RegionTypes
  <2>3. Array[k].offset = byte_count /\ byte_count' = EndOf(Array[k])
    BY <1>0, <1>3, <2>1, <2>2 DEF RegionFollows
  <2>4. byte_count' \in 0..rg_in.image_size /\ byte_count <= byte_count'
    <3>1. Sub(rg_in.image_size, byte_count) = rg_in.image_size - byte_count
      BY <1>0 DEF Sub
    <3>2. Array[k].size <= rg_in.image_size - byte_count
      BY <1>3, <2>1, <3>1 DEF RegionFollows
    <3>3. byte_count' = byte_count + Array[k].size
      BY <1>3, <2>1
    <3>4. /\ byte_count \in Nat /\ rg_in.image_size \in Nat
          /\ byte_count <= rg_in.image_size
      BY <1>0
    <3>5. Array[k].size \in Nat
      BY <2>2
    <3> HIDE DEF k
    <3> QED
      BY <3>2, <3>3, <3>4, <3>5
  <2>5. Array' = Array /\ rg_i' = k /\ rg_in' = rg_in
    BY <1>3 DEF Array
  <2>6. d_region_num' \in 1..Len(Array)
    BY <1>0, <1>3, <2>1
  <2>7. RgTypeOK'
    BY <1>0, <1>1, <1>3, <2>1, <2>4, <2>5, <2>6 DEF RgTypeOK, rgHash
  <2>8. Tiled(rg_i)'
    <3>1. k = 1 => Array[1].offset = 0
      BY <1>0, <1>1, <2>3 DEF Tiled
    <3>2. k # 1 => Array[1].offset = 0
      BY <1>0, <1>1 DEF Tiled
    <3>3. \A i \in 1..k : i = k \/ i \in 1..rg_i
      BY <1>0
    <3>4. \A i \in 1..rg_i : EndOf(Array[i]) <= byte_count /\ EndOf(Array[i]) \in Nat
      <4> TAKE i \in 1..rg_i
      <4>1. i \in 1..Len(Array)
        BY <1>0, <2>1
      <4> QED
        BY <1>1, <4>1, RegionTypes DEF Tiled
    <3>5. \A i \in 1..k : EndOf(Array[i]) <= byte_count'
      BY <1>0, <2>2, <2>3, <2>4, <3>3, <3>4
    <3>6. \A i, j \in 1..k : i < j => EndOf(Array[i]) <= Array[j].offset
      <4> SUFFICES ASSUME NEW i \in 1..k, NEW j \in 1..k, i < j
                   PROVE  EndOf(Array[i]) <= Array[j].offset
        OBVIOUS
      <4>1. i \in 1..rg_i
        BY <1>0
      <4>2. CASE j = k
        BY <2>3, <3>4, <4>1, <4>2
      <4>3. CASE j \in 1..rg_i
        BY <1>1, <4>1, <4>3 DEF Tiled
      <4> QED
        BY <3>3, <4>2, <4>3
    <3>7. \A n \in 0..(byte_count' - 1) : \E i \in 1..k : InRegion(Array[i], n)
      <4> SUFFICES ASSUME NEW n \in 0..(byte_count' - 1)
                   PROVE  \E i \in 1..k : InRegion(Array[i], n)
        OBVIOUS
      <4>1. CASE n < byte_count
        <5>1. n \in 0..(byte_count - 1)
          BY <1>0, <4>1
        <5>2. PICK i \in 1..rg_i : InRegion(Array[i], n)
          BY <1>1, <5>1 DEF Tiled
        <5>3. i \in 1..k
          BY <1>0
        <5> QED
          BY <5>2, <5>3
      <4>2. CASE n >= byte_count
        <5>1. InRegion(Array[k], n)
          BY <1>0, <2>3, <2>4, <4>2 DEF InRegion
        <5> QED
          BY <1>0, <5>1
      <4> QED
        BY <1>0, <4>1, <4>2
    <3>9. \A i \in 1..k : Array[i].offset % Align = 0 /\ Array[i].size % Align = 0
      BY <1>1, <1>3, <2>1, <3>3 DEF Tiled, RegionAligned
    <3>8. Array[1].offset = 0 /\ EndOf(Array[k]) = byte_count' /\ k # 0
      BY <1>0, <2>3, <3>1, <3>2
    <3> HIDE DEF k
    <3> QED
      BY <2>5, <3>5, <3>6, <3>7, <3>8, <3>9 DEF Tiled
  <2>9. Located(rg_i)'
    <3>1. CASE InRegion(Checking, rg_in.d)
      <4>1. d_region_num' = k /\ InRegion(Array[k], rg_in.d) /\ Array[k].static
        BY <1>3, <2>1, <3>1 DEF DescriptorFits
      <4>2. rg_in.d < EndOf(Array[k])
        BY <4>1 DEF InRegion
      <4>3. rg_in.area <= Sub(EndOf(Array[k]), rg_in.d)
        BY <1>3, <2>1, <3>1 DEF DescriptorFits
      <4>4. rg_in.d + rg_in.area <= EndOf(Array[k])
        <5>1. EndOf(Array[k]) \in Nat
          BY <2>2
        <5>2. Sub(EndOf(Array[k]), rg_in.d) = EndOf(Array[k]) - rg_in.d
          BY <1>0, <4>2, <5>1 DEF Sub
        <5> HIDE DEF k
        <5> QED
          BY <1>0, <4>3, <5>1, <5>2
      <4>5. k \in 1..k
        BY <2>1
      <4> HIDE DEF k
      <4> QED
        BY <2>5, <4>1, <4>4, <4>5 DEF Located
    <3>2. CASE ~InRegion(Checking, rg_in.d)
      <4>1. d_region_num' = d_region_num
        BY <1>3, <3>2
      <4>2. \A i \in 1..k : i = k \/ i \in 1..rg_i
        BY <1>0
      <4>3. \A i \in 1..rg_i : i \in 1..k
        BY <1>0
      <4>4. ~InRegion(Array[k], rg_in.d)
        BY <2>1, <3>2
      <4> HIDE DEF k
      <4> QED
        BY <1>1, <2>5, <4>1, <4>2, <4>3, <4>4 DEF Located
    <3> QED
      BY <3>1, <3>2
  <2>10. rg_pc' = "check" /\ hashed' = {} /\ hash_end' = 0
    BY <1>1, <1>3 DEF RgIInv, rgHash
  <2> QED
    BY <2>5, <2>7, <2>8, <2>9, <2>10 DEF RgIInv, HashedSoFar
<1> QED
  BY <1>2, <1>3 DEF CheckRegion

-------------------------------------------------------------------------------
Hashing == {"region", "piece", "read", "final"}

(* While the regions are hashed, their array stays as it was checked.      *)
LEMMA HashingRgIInv ==
  ASSUME Tiled(Len(Array)), Located(Len(Array)), byte_count = rg_in.image_size,
         UNCHANGED <<rg_in, rgCheck>>, rg_pc' \in Hashing,
         RgTypeOK', HashedSoFar'
  PROVE  RgIInv'
<1>1. Array' = Array /\ byte_count' = rg_in'.image_size
  BY DEF Array, rgCheck
<1>2. Tiled(Len(Array))' /\ Located(Len(Array))'
  BY <1>1, SameTiling
<1> QED
  BY <1>1, <1>2 DEF RgIInv, Hashing

(* What the invariant says while the regions are hashed.                   *)
LEMMA HashingFacts ==
  ASSUME RgIInv, rg_pc \in Hashing
  PROVE  /\ RgTypeOK /\ byte_count = rg_in.image_size
         /\ Tiled(Len(Array)) /\ Located(Len(Array)) /\ HashedSoFar
  BY DEF RgIInv, Hashing

LEMMA BeginHashRgIInv == RgIInv /\ BeginHash => RgIInv'
<1> SUFFICES ASSUME RgIInv, BeginHash PROVE RgIInv'
  OBVIOUS
<1>1. CASE \E verdict \in {"INVALID_DESCRIPTOR", "RUNTIME_FAILURE"} :
             RgReturns(verdict)
  BY <1>1, ReturnsRgIInv
<1>2. CASE /\ byte_count = rg_in.image_size
           /\ rg_pc' = "region"
           /\ rg_i' = 0
           /\ UNCHANGED <<rg_in, rg_verdict, rgCheck, rgHash>>
  <2>1. /\ RgTypeOK /\ rg_i = Len(Array) /\ hashed = {} /\ hash_end = 0
        /\ Tiled(Len(Array)) /\ Located(Len(Array))
    BY DEF RgIInv, BeginHash, Array
  <2>2. Len(Array) \in Nat /\ Array' = Array
    BY <1>2, <2>1, Arguments DEF RgTypeOK, Array
  <2>3. RgTypeOK'
    BY <1>2, <2>1, <2>2 DEF RgTypeOK, rgCheck, rgHash
  <2>4. \A j \in 1..Len(Array) : Array[j].offset \in Nat
    BY <2>1, RegionTypes
  <2>5. hashed' = {} /\ hash_end' = 0
    BY <1>2, <2>1 DEF rgHash
  <2>6. \A j \in (rg_i' + 1)..Len(Array) : hash_end' <= Array[j].offset
    BY <1>2, <2>2, <2>4, <2>5
  <2>7. HashedSoFar'
    <3>1. StaticBytes(0)' = {} /\ StaticBytes(rg_i)' = {}
      BY <1>2, StaticNone, SameArray
    <3> QED
      BY <1>2, <2>2, <2>5, <2>6, <3>1 DEF HashedSoFar
  <2> QED
    BY <1>2, <2>1, <2>3, <2>7, HashingRgIInv DEF Hashing
<1> QED
  BY <1>1, <1>2 DEF BeginHash

LEMMA NextRegionRgIInv == RgIInv /\ NextRegion => RgIInv'
<1> SUFFICES ASSUME RgIInv, NextRegion PROVE RgIInv'
  OBVIOUS
<1>1. /\ RgTypeOK /\ byte_count = rg_in.image_size
      /\ Tiled(Len(Array)) /\ Located(Len(Array)) /\ HashedSoFar
      /\ rg_pc = "region"
  BY HashingFacts DEF NextRegion, Hashing
<1>2. /\ Len(Array) \in Nat /\ rg_i \in Nat /\ rg_i < Len(Array)
      /\ Array' = Array /\ rg_i' = rg_i + 1 /\ rg_in \in RegionInput
      /\ Checking = Array[rg_i + 1] /\ rg_i + 1 \in 1..Len(Array)
      /\ hash_end \in Nat
  BY <1>1, Arguments DEF RgTypeOK, NextRegion, Array, Checking
<1>3. /\ Array[rg_i + 1].offset \in Nat /\ EndOf(Array[rg_i + 1]) \in Nat
  BY <1>1, <1>2, RegionTypes
<1>4. /\ hashed = StaticBytes(rg_i) \ Area
      /\ \A j \in (rg_i + 1)..Len(Array) : hash_end <= Array[j].offset
  BY <1>1 DEF HashedSoFar
<1>5. /\ hashed' = hashed /\ hash_end' = hash_end /\ rg_in' = rg_in
      /\ UNCHANGED rgCheck
  BY DEF NextRegion
<1>6. RgTypeOK'
  BY <1>1, <1>2, <1>3 DEF RgTypeOK, NextRegion, rgCheck
<1>7. CASE Checking.static
  <2>1. rg_pc' = "piece" /\ hash_start' = Array[rg_i + 1].offset
    BY <1>2, <1>7 DEF NextRegion
  <2>2. hash_end <= Array[rg_i + 1].offset
    BY <1>2, <1>4
  <2>3. Bytes(Array[rg_i + 1].offset, hash_start' - Array[rg_i + 1].offset) = {}
    BY <1>3, <2>1 DEF Bytes
  <2>4. (rg_i + 1) - 1 = rg_i
    BY <1>2
  <2>5. hashed' = CoveredTo(hash_start)'
    <3>1. StaticBytes(rg_i - 1)' = StaticBytes(rg_i) /\ Area' = Area
      BY <1>2, <1>5, <2>4, SameArray
    <3>2. Bytes(Array[rg_i].offset, hash_start - Array[rg_i].offset)' = {}
      BY <1>2, <2>3
    <3> QED
      BY <1>4, <1>5, <3>1, <3>2 DEF CoveredTo
  <2>6. rg_i' = d_region_num' => hash_start' <= rg_in'.d
    BY <1>1, <1>2, <1>5, <2>1, DescriptorRegion DEF rgCheck
  <2>7. PieceBegins'
    BY <1>2, <1>3, <1>5, <2>1, <2>2, <2>5, <2>6 DEF PieceBegins
  <2>8. Array'[rg_i'].static /\ rg_i' >= 1
    BY <1>2, <1>7
  <2>9. HashedSoFar'
    BY <2>1, <2>7, <2>8 DEF HashedSoFar
  <2> QED
    BY <1>1, <1>5, <1>6, <2>1, <2>9, HashingRgIInv DEF Hashing
<1>8. CASE ~Checking.static
  <2>1. rg_pc' = "region"
    BY <1>1, <1>8 DEF NextRegion
  <2>2. StaticBytes(rg_i + 1) = StaticBytes(rg_i)
    BY <1>2, <1>8, StaticNext
  <2>3. \A j \in (rg_i' + 1)..Len(Array) : hash_end' <= Array[j].offset
    BY <1>2, <1>4, <1>5
  <2>4. (StaticBytes(rg_i) \ Area)' = StaticBytes(rg_i) \ Area
    BY <1>2, <1>5, <2>2, SameArray
  <2>5. HashedSoFar'
    BY <1>2, <1>4, <1>5, <2>1, <2>3, <2>4 DEF HashedSoFar
  <2> QED
    BY <1>1, <1>5, <1>6, <2>1, <2>5, HashingRgIInv DEF Hashing
<1> QED
  BY <1>7, <1>8

LEMMA EndRegionsRgIInv == RgIInv /\ EndRegions => RgIInv'
<1> SUFFICES ASSUME RgIInv, EndRegions PROVE RgIInv'
  OBVIOUS
<1>1. /\ RgTypeOK /\ byte_count = rg_in.image_size
      /\ Tiled(Len(Array)) /\ Located(Len(Array)) /\ HashedSoFar
      /\ rg_pc = "region"
  BY HashingFacts DEF EndRegions, Hashing
<1>2. /\ rg_in' = rg_in /\ rg_i = Len(Array) /\ rg_pc' = "final"
      /\ hashed' = hashed /\ Array' = Array /\ UNCHANGED rgCheck
  BY DEF EndRegions, rgHash, Array
<1>3. RgTypeOK'
  BY <1>1 DEF RgTypeOK, EndRegions, rgCheck, rgHash, Array
<1>4. hashed = StaticBytes(Len(Array)) \ Area
  BY <1>1, <1>2 DEF HashedSoFar
<1>5. (StaticBytes(Len(Array)) \ Area)' = StaticBytes(Len(Array)) \ Area
  BY <1>2, SameArray
<1>6. HashedSoFar'
  BY <1>2, <1>4, <1>5 DEF HashedSoFar
<1> QED
  BY <1>1, <1>2, <1>3, <1>6, HashingRgIInv DEF Hashing

(* The part of the invariant about a piece, whatever the step.             *)
LEMMA SameCovered ==
  ASSUME UNCHANGED <<rg_in, rg_i>>
  PROVE  \A n : CoveredTo(n)' = CoveredTo(n)
<1>1. /\ Array' = Array /\ Area' = Area
      /\ \A n : StaticBytes(n)' = StaticBytes(n)
  BY SameArray
<1> QED
  BY <1>1 DEF CoveredTo

LEMMA StartPieceRgIInv == RgIInv /\ StartPiece => RgIInv'
<1> SUFFICES ASSUME RgIInv, StartPiece PROVE RgIInv'
  OBVIOUS
<1>1. /\ RgTypeOK /\ byte_count = rg_in.image_size
      /\ Tiled(Len(Array)) /\ Located(Len(Array)) /\ HashedSoFar
      /\ rg_pc = "piece"
  BY HashingFacts DEF StartPiece, Hashing
<1>2. /\ rg_in' = rg_in /\ rg_i' = rg_i /\ rg_pc' = "read" /\ Array' = Array
      /\ UNCHANGED rgCheck /\ d_region_num' = d_region_num
      /\ hash_start' = hash_start /\ hashed' = hashed /\ hash_end' = hash_end
      /\ rg_verdict' = rg_verdict
  BY DEF StartPiece, Array, rgCheck
<1>3. rg_i >= 1 /\ Array[rg_i].static /\ PieceBegins
  BY <1>1 DEF HashedSoFar
<1>4. /\ rg_i \in 1..Len(Array) /\ hash_start \in Nat /\ hash_end \in Nat
      /\ rg_in.d \in Nat /\ rg_in.area \in Nat /\ Word \in Nat
      /\ FlashSize \in Nat /\ rg_in.d + rg_in.area <= FlashSize
      /\ 2 * FlashSize < Word /\ rg_in.area >= 1
      /\ Current = Array[rg_i]
  BY <1>1, <1>3, Arguments DEF RgTypeOK, Current, Array
<1>5. /\ Array[rg_i].offset \in Nat /\ Array[rg_i].size \in Nat
      /\ EndOf(Array[rg_i]) \in Nat
      /\ EndOf(Array[rg_i]) = Array[rg_i].offset + Array[rg_i].size
      /\ EndOf(Array[rg_i]) <= FlashSize
  <2>1. EndOf(Array[rg_i]) <= byte_count /\ byte_count <= FlashSize
    BY <1>1, <1>4, Arguments DEF Tiled, RgTypeOK
  <2>2. byte_count \in Nat
    BY <1>1, Arguments DEF RgTypeOK
  <2> QED
    BY <1>1, <1>4, <2>1, <2>2, RegionTypes
<1>6. hashed = CoveredTo(hash_start) /\ Array[rg_i].offset <= hash_start
      /\ hash_end <= hash_start
  BY <1>3 DEF PieceBegins
<1>7. SUFFICES /\ read_at' \in Nat /\ read_left' \in Nat /\ hash_end <= read_at'
               /\ \/ /\ hashed = CoveredTo(read_at') /\ Array[rg_i].offset <= read_at'
                     /\ \/ rg_i = d_region_num /\ read_at' + read_left' = rg_in.d
                        \/ /\ read_at' + read_left' = EndOf(Array[rg_i])
                           /\ rg_i = d_region_num => read_at' >= rg_in.d + rg_in.area
                  \/ PieceTooLong'
  <2>1. RgTypeOK'
    BY <1>1, <1>2, <1>7 DEF RgTypeOK, rgCheck
  <2>2. CoveredTo(read_at)' = CoveredTo(read_at')
    BY <1>2, SameCovered
  <2>3. PieceUnderWay' \/ PieceTooLong'
    BY <1>2, <1>7, <2>2 DEF PieceUnderWay
  <2>4. HashedSoFar'
    BY <1>2, <1>3, <1>7, <2>3 DEF HashedSoFar
  <2> QED
    BY <1>1, <1>2, <2>1, <2>4, HashingRgIInv DEF Hashing
<1>8. CASE rg_i # d_region_num
  <2>1. /\ hash_start = Array[rg_i].offset
        /\ read_at' = hash_start /\ read_left' = Array[rg_i].size
    BY <1>3, <1>4, <1>8 DEF PieceBegins, StartPiece
  <2> QED
    BY <1>4, <1>5, <1>6, <1>8, <2>1
<1>9. CASE rg_i = d_region_num
  <2>1. hash_start <= rg_in.d /\ SkipDescriptor
    BY <1>3, <1>9 DEF PieceBegins, StartPiece
  <2>2. Sub(rg_in.d, hash_start) = rg_in.d - hash_start
    BY <1>4, <2>1 DEF Sub
  <2>3. CASE hash_start < rg_in.d
    <3>1. read_at' = hash_start /\ read_left' = rg_in.d - hash_start
      BY <1>4, <2>1, <2>2, <2>3 DEF SkipDescriptor
    <3>2. read_at' + read_left' = rg_in.d /\ read_left' \in Nat
      BY <1>4, <2>3, <3>1
    <3> QED
      BY <1>4, <1>6, <1>9, <3>1, <3>2
  <2>4. CASE hash_start = rg_in.d
    <3> DEFINE after == rg_in.d + rg_in.area
    <3>1. /\ read_at' = after
          /\ read_left' = Sub(EndOf(Array[rg_i]), after)
      BY <1>4, <2>1, <2>2, <2>4 DEF SkipDescriptor
    <3>2. hashed = CoveredTo(after)
      BY <1>1, <1>3, <1>6, <2>4, CoveredSkips
    <3>3. CASE after <= EndOf(Array[rg_i])
      <4>1. read_left' = EndOf(Array[rg_i]) - after
        BY <1>4, <1>5, <3>1, <3>3 DEF Sub
      <4>2. after \in Nat /\ Array[rg_i].offset <= after /\ hash_end <= after
        BY <1>4, <1>5, <1>6, <2>4
      <4>3. read_left' \in Nat /\ after + read_left' = EndOf(Array[rg_i])
        BY <1>5, <3>3, <4>1, <4>2
      <4>4. after >= rg_in.d + rg_in.area
        BY <4>2
      <4>5. hashed = CoveredTo(read_at')
        BY <3>1, <3>2
      <4> HIDE DEF after
      <4> QED
        BY <3>1, <4>2, <4>3, <4>4, <4>5
    <3>4. CASE ~(after <= EndOf(Array[rg_i]))
      <4>1. read_left' = EndOf(Array[rg_i]) - after + Word
        BY <1>4, <1>5, <3>1, <3>4 DEF Sub
      <4>2. read_at' + read_left' > FlashSize /\ read_left' > 0 /\ read_left' \in Nat
        BY <1>4, <1>5, <3>1, <4>1
      <4>3. read_at' \in Nat /\ hash_end <= read_at'
        BY <1>4, <1>6, <2>4, <3>1
      <4> QED
        BY <4>2, <4>3 DEF PieceTooLong
    <3> QED
      BY <3>3, <3>4
  <2> QED
    BY <1>4, <2>1, <2>3, <2>4
<1> QED
  BY <1>8, <1>9

(* A chunk is no longer than what is left.                                 *)
LEMMA ReadSizeFits ==
  ASSUME RgTypeOK
  PROVE  ReadSize \in Nat /\ ReadSize <= read_left
<1>1. read_left \in Nat /\ Chunk \in Nat
  BY Arguments DEF RgTypeOK
<1> QED
  BY <1>1 DEF ReadSize

LEMMA HashChunkRgIInv == RgIInv /\ HashChunk => RgIInv'
<1> SUFFICES ASSUME RgIInv, HashChunk PROVE RgIInv'
  OBVIOUS
<1> DEFINE next == read_at + ReadSize
           last == read_at + read_left
<1>1. /\ RgTypeOK /\ byte_count = rg_in.image_size
      /\ Tiled(Len(Array)) /\ Located(Len(Array)) /\ HashedSoFar
      /\ rg_pc = "read"
  BY HashingFacts DEF HashChunk, Hashing
<1>2. /\ rg_in' = rg_in /\ rg_i' = rg_i /\ Array' = Array /\ UNCHANGED rgCheck
      /\ d_region_num' = d_region_num /\ rg_verdict' = rg_verdict
      /\ read_at' = next /\ hash_end' = next /\ read_left' = read_left - ReadSize
      /\ hashed' = hashed \cup Bytes(read_at, ReadSize)
      /\ next <= FlashSize
  BY DEF HashChunk, Array, rgCheck, Advance
<1>3. /\ rg_i >= 1 /\ Array[rg_i].static /\ hash_end <= read_at
      /\ PieceUnderWay \/ PieceTooLong
  BY <1>1 DEF HashedSoFar
<1>4. /\ rg_i \in 1..Len(Array) /\ read_at \in Nat /\ read_left \in Nat
      /\ ReadSize \in Nat /\ ReadSize <= read_left
      /\ rg_in.d \in Nat /\ rg_in.area \in Nat /\ FlashSize \in Nat
      /\ Current = Array[rg_i] /\ Len(Array) \in Nat /\ hash_start \in Nat
  BY <1>1, <1>3, Arguments, ReadSizeFits DEF RgTypeOK, Current, Array
<1>5. /\ Array[rg_i].offset \in Nat /\ EndOf(Array[rg_i]) \in Nat
  BY <1>1, <1>4, RegionTypes
<1>6. /\ next \in Nat /\ read_left' \in Nat /\ last \in Nat
      /\ read_at' + read_left' = last /\ read_at <= next /\ next <= last
      /\ next - read_at = ReadSize
  BY <1>2, <1>4
<1>7. /\ read_left' > 0 => rg_pc' = "read" /\ hash_start' = hash_start
      /\ ~(read_left' > 0) =>
           /\ hash_start' = next /\ next = last
           /\ rg_pc' = IF last = EndOf(Array[rg_i]) THEN "region" ELSE "piece"
  <2>1. ~(read_left' > 0) => next = last
    BY <1>2, <1>4, <1>6
  <2>2. /\ read_left' > 0 => rg_pc' = rg_pc /\ hash_start' = hash_start
        /\ ~(read_left' > 0) =>
             /\ hash_start' = read_at'
             /\ rg_pc' = IF hash_start' = EndOf(Current) THEN "region" ELSE "piece"
    BY DEF HashChunk
  <2> QED
    BY <1>1, <1>2, <1>4, <2>1, <2>2
<1> HIDE DEF next, last
<1>8. rg_pc' \in Hashing
  BY <1>7 DEF Hashing
<1>9. RgTypeOK'
  <2>1. hash_start' \in Nat /\ rg_pc' \in Hashing
    BY <1>4, <1>6, <1>7, <1>8
  <2> QED
    BY <1>1, <1>2, <1>6, <2>1 DEF RgTypeOK, rgCheck, Hashing
<1>10. CASE PieceTooLong
  <2>1. read_left' > 0
    BY <1>2, <1>4, <1>6, <1>10 DEF PieceTooLong, last
  <2>2. PieceTooLong'
    BY <1>6, <1>10, <2>1 DEF PieceTooLong, last
  <2>3. HashedSoFar'
    BY <1>2, <1>3, <1>6, <1>7, <2>1, <2>2 DEF HashedSoFar
  <2> QED
    BY <1>1, <1>2, <1>8, <1>9, <2>3, HashingRgIInv
<1>11. CASE PieceUnderWay
  <2>1. /\ hashed = CoveredTo(read_at) /\ Array[rg_i].offset <= read_at
        /\ \/ rg_i = d_region_num /\ last = rg_in.d
           \/ /\ last = EndOf(Array[rg_i])
              /\ rg_i = d_region_num => read_at >= rg_in.d + rg_in.area
    BY <1>11 DEF PieceUnderWay, last
  <2>2. CoveredTo(next) = CoveredTo(read_at) \cup Bytes(read_at, ReadSize)
    <3>1. \/ /\ rg_i = d_region_num
             /\ next <= rg_in.d \/ read_at >= rg_in.d + rg_in.area
          \/ rg_i # d_region_num /\ next <= EndOf(Array[rg_i])
      BY <1>6, <2>1
    <3>2. CoveredTo(next) = CoveredTo(read_at) \cup Bytes(read_at, next - read_at)
      BY <1>1, <1>3, <1>4, <1>6, <2>1, <3>1, CoveredGrows
    <3> QED
      BY <1>6, <3>2
  <2>3. hashed' = CoveredTo(next) /\ \A n : CoveredTo(n)' = CoveredTo(n)
    BY <1>2, <2>1, <2>2, SameCovered
  <2>4. Array[rg_i].offset <= next
    BY <1>4, <1>5, <1>6, <2>1
  <2>5. CASE read_left' > 0
    <3>1. PieceUnderWay'
      <4>1. hashed' = CoveredTo(read_at)'
        BY <1>2, <2>3
      <4>2. \/ rg_i = d_region_num /\ read_at' + read_left' = rg_in.d
            \/ /\ read_at' + read_left' = EndOf(Array[rg_i])
               /\ rg_i = d_region_num => read_at' >= rg_in.d + rg_in.area
        BY <1>2, <1>4, <1>6, <2>1
      <4> QED
        BY <1>2, <2>4, <4>1, <4>2 DEF PieceUnderWay
    <3>2. HashedSoFar'
      BY <1>2, <1>3, <1>6, <1>7, <2>5, <3>1 DEF HashedSoFar
    <3> QED
      BY <1>1, <1>2, <1>8, <1>9, <3>2, HashingRgIInv
  <2>6. CASE ~(read_left' > 0) /\ last = EndOf(Array[rg_i])
    <3>1. rg_pc' = "region" /\ hashed' = CoveredTo(EndOf(Array[rg_i]))
      BY <1>7, <2>3, <2>6
    <3>2. hashed' = StaticBytes(rg_i) \ Area
      BY <1>1, <1>3, <3>1, CoveredRegion
    <3>3. (StaticBytes(rg_i) \ Area)' = StaticBytes(rg_i) \ Area
      BY <1>2, SameArray
    <3>4. \A j \in (rg_i + 1)..Len(Array) : hash_end' <= Array[j].offset
      <4> TAKE j \in (rg_i + 1)..Len(Array)
      <4>1. j \in 1..Len(Array) /\ rg_i < j
        BY <1>4
      <4> QED
        BY <1>1, <1>2, <1>4, <1>7, <2>6, <4>1 DEF Tiled
    <3>5. HashedSoFar'
      BY <1>2, <3>1, <3>2, <3>3, <3>4 DEF HashedSoFar
    <3> QED
      BY <1>1, <1>2, <1>8, <1>9, <3>5, HashingRgIInv
  <2>7. CASE ~(read_left' > 0) /\ last # EndOf(Array[rg_i])
    <3>1. /\ rg_pc' = "piece" /\ hash_start' = next /\ next = last
          /\ rg_i = d_region_num /\ next = rg_in.d
      BY <1>7, <2>1, <2>7
    <3>2. hashed' = CoveredTo(hash_start)'
      BY <2>3, <3>1
    <3>3. PieceBegins'
      BY <1>2, <1>4, <1>6, <2>4, <3>1, <3>2 DEF PieceBegins
    <3>4. HashedSoFar'
      BY <1>2, <1>3, <3>1, <3>3 DEF HashedSoFar
    <3> QED
      BY <1>1, <1>2, <1>8, <1>9, <3>4, HashingRgIInv
  <2> QED
    BY <2>5, <2>6, <2>7
<1> QED
  BY <1>3, <1>10, <1>11

LEMMA StutterRgIInv == RgIInv /\ UNCHANGED rgVars => RgIInv'
<1> SUFFICES ASSUME RgIInv, UNCHANGED rgVars PROVE RgIInv'
  OBVIOUS
<1> USE DEF rgVars, rgCheck, rgHash
<1>1. RgTypeOK'
  BY DEF RgIInv, RgTypeOK, Array
<1> QED
  BY <1>1 DEF RgIInv, Array, Area, Tiled, Located, HashedSoFar, StaticBytes, StaticOf,
     CoveredTo, PieceBegins, PieceUnderWay, PieceTooLong

-------------------------------------------------------------------------------
(* The inductive invariant holds in every reachable state, for every       *)
(* region array, position of the descriptor, flash and chunk size.         *)
THEOREM RgInvariance == RgSpec => []RgIInv
<1>1. RgIInv /\ [RgNext]_rgVars => RgIInv'
  <2> SUFFICES ASSUME RgIInv, [RgNext]_rgVars PROVE RgIInv'
    OBVIOUS
  <2>1. CASE ReadArray
    BY <2>1, ReadArrayRgIInv
  <2>2. CASE CheckRegion
    BY <2>2, CheckRegionRgIInv
  <2>3. CASE BeginHash
    BY <2>3, BeginHashRgIInv
  <2>4. CASE NextRegion
    BY <2>4, NextRegionRgIInv
  <2>5. CASE EndRegions
    BY <2>5, EndRegionsRgIInv
  <2>6. CASE StartPiece
    BY <2>6, StartPieceRgIInv
  <2>7. CASE HashChunk
    BY <2>7, HashChunkRgIInv
  <2>8. CASE ChunkFails
    BY <2>8, ReturnsRgIInv DEF ChunkFails
  <2>9. CASE FinishHash
    BY <2>9, ReturnsRgIInv DEF FinishHash
  <2>10. CASE UNCHANGED rgVars
    BY <2>10, StutterRgIInv
  <2> QED
    BY <2>1, <2>2, <2>3, <2>4, <2>5, <2>6, <2>7, <2>8, <2>9, <2>10 DEF RgNext
<1> QED
  BY <1>1, InitRgIInv, PTL DEF RgSpec

(* What is compared with the digest covers every static byte outside the   *)
(* descriptor's area, and no other, each once and in order.                *)
THEOREM RgDigest == RgSpec => []DigestCovers
<1>1. RgIInv => HashedExactly
  BY DEF RgIInv, HashedSoFar, HashedExactly, Array, Area
<1>2. RgIInv => HashedOnceInOrder
  <2> SUFFICES ASSUME RgIInv, rg_pc = "read" PROVE read_at >= hash_end
    BY DEF HashedOnceInOrder
  <2>1. read_at \in Nat /\ hash_end \in Nat
    BY DEF RgIInv, RgTypeOK
  <2>2. hash_end <= read_at
    BY DEF RgIInv, HashedSoFar
  <2> QED
    BY <2>1, <2>2
<1>3. RgIInv => DigestCovers
  BY <1>1, <1>2 DEF DigestCovers
<1> QED
  BY <1>3, RgInvariance, PTL

-------------------------------------------------------------------------------
(* The reason of a chain of checks is that of the first that fails.        *)
LEMMA FirstReasonGiven ==
  ASSUME NEW checks, NEW n \in Nat, DOMAIN checks = 1..n, NEW k \in 1..n,
         ~checks[k][1], \A j \in 1..(k - 1) : checks[j][1]
  PROVE  FirstFailure(checks) = checks[k][2]
<1> DEFINE IsFirst(i) == ~checks[i][1] /\ \A j \in 1..(i - 1) : checks[j][1]
           first == CHOOSE i \in DOMAIN checks : IsFirst(i)
<1>1. first \in 1..n /\ IsFirst(first)
  <2>1. \E i \in DOMAIN checks : IsFirst(i)
    OBVIOUS
  <2> QED
    BY <2>1
<1> HIDE DEF first
<1>2. ~(first < k) /\ ~(k < first)
  <2>1. first < k => first \in 1..(k - 1)
    BY <1>1
  <2>2. k < first => k \in 1..(first - 1)
    BY <1>1
  <2> QED
    BY <1>1, <2>1, <2>2
<1>3. first = k
  BY <1>1, <1>2
<1>4. FirstFailure(checks) = checks[first][2]
  BY DEF FirstFailure, first
<1> QED
  BY <1>3, <1>4

(* The verdict on the regions by the check that fails, and by the read     *)
(* that does.                                                              *)
LEMMA RegionVerdicts ==
  ASSUME NEW b
  PROVE  /\ RegionVerdict(b, "regions") = "RUNTIME_FAILURE"
         /\ b.fails = "regions" =>
              RegionVerdict(b, "none") = "INVALID_DESCRIPTOR"
         /\ b.fails # "regions" => RegionVerdict(b, "hash") = "RUNTIME_FAILURE"
         /\ b.fails = "hash_magic" =>
              RegionVerdict(b, "none") = "INVALID_DESCRIPTOR"
         /\ b.fails = "image_hash" => RegionVerdict(b, "none") = "INVALID_HASH"
         /\ b.fails = "none" => RegionVerdict(b, "none") = "SUCCESS"
<1> DEFINE Checks(fault) == <<
      <<fault # "regions", "RUNTIME_FAILURE">>,
      <<b.fails # "regions", Reason[b.fails]>>,
      <<fault # "hash", "RUNTIME_FAILURE">>,
      <<b.fails \notin HashChecks, Reason[b.fails]>> >>
<1>1. ASSUME NEW fault
      PROVE  /\ RegionVerdict(b, fault) = FirstFailure(Checks(fault))
             /\ DOMAIN Checks(fault) = 1..4
             /\ Checks(fault)[1][1] <=> fault # "regions"
             /\ Checks(fault)[1][2] = "RUNTIME_FAILURE"
             /\ Checks(fault)[2][1] <=> b.fails # "regions"
             /\ Checks(fault)[2][2] = Reason[b.fails]
             /\ Checks(fault)[3][1] <=> fault # "hash"
             /\ Checks(fault)[3][2] = "RUNTIME_FAILURE"
             /\ Checks(fault)[4][1] <=> b.fails \notin HashChecks
             /\ Checks(fault)[4][2] = Reason[b.fails]
  <2>1. RegionVerdict(b, fault) = FirstFailure(Checks(fault))
    BY DEF RegionVerdict
  <2>2. /\ DOMAIN Checks(fault) = 1..4
        /\ Checks(fault)[1] = <<fault # "regions", "RUNTIME_FAILURE">>
        /\ Checks(fault)[2] = <<b.fails # "regions", Reason[b.fails]>>
        /\ Checks(fault)[3] = <<fault # "hash", "RUNTIME_FAILURE">>
        /\ Checks(fault)[4] = <<b.fails \notin HashChecks, Reason[b.fails]>>
    OBVIOUS
  <2> HIDE DEF Checks
  <2>3. /\ Checks(fault)[1][1] = (fault # "regions")
        /\ Checks(fault)[1][2] = "RUNTIME_FAILURE"
        /\ Checks(fault)[2][1] = (b.fails # "regions")
        /\ Checks(fault)[2][2] = Reason[b.fails]
        /\ Checks(fault)[3][1] = (fault # "hash")
        /\ Checks(fault)[3][2] = "RUNTIME_FAILURE"
        /\ Checks(fault)[4][1] = (b.fails \notin HashChecks)
        /\ Checks(fault)[4][2] = Reason[b.fails]
    BY <2>2, SMT
  <2> QED
    BY ONLY <2>1, <2>2, <2>3, Zenon
<1> HIDE DEF Checks
<1>2. ASSUME NEW fault, NEW k \in 1..4, ~Checks(fault)[k][1],
             \A j \in 1..(k - 1) : Checks(fault)[j][1]
      PROVE  RegionVerdict(b, fault) = Checks(fault)[k][2]
  <2>1. DOMAIN Checks(fault) = 1..4
    BY <1>1
  <2>2. FirstFailure(Checks(fault)) = Checks(fault)[k][2]
    <3> DEFINE checks == Checks(fault)
    <3>1. /\ DOMAIN checks = 1..4 /\ 4 \in Nat
          /\ ~checks[k][1] /\ \A j \in 1..(k - 1) : checks[j][1]
      BY <1>2, <2>1
    <3> HIDE DEF checks
    <3>2. FirstFailure(checks) = checks[k][2]
      BY ONLY <3>1, FirstReasonGiven, k \in 1..4
    <3> QED
      BY <3>2 DEF checks
  <2> QED
    BY <1>1, <2>2
<1>3. RegionVerdict(b, "regions") = "RUNTIME_FAILURE"
  <2>1. ~Checks("regions")[1][1] /\ \A j \in 1..(1 - 1) : Checks("regions")[j][1]
    BY <1>1
  <2> QED
    BY <1>1, <1>2, <2>1
<1>4. b.fails = "regions" => RegionVerdict(b, "none") = "INVALID_DESCRIPTOR"
  <2> SUFFICES ASSUME b.fails = "regions"
               PROVE  RegionVerdict(b, "none") = Reason[b.fails]
    BY DEF Reason
  <2>1. \A j \in 1..(2 - 1) : Checks("none")[j][1]
    BY <1>1
  <2> QED
    BY <1>1, <1>2, <2>1
<1>5. b.fails # "regions" => RegionVerdict(b, "hash") = "RUNTIME_FAILURE"
  <2> SUFFICES ASSUME b.fails # "regions"
               PROVE  RegionVerdict(b, "hash") = "RUNTIME_FAILURE"
    OBVIOUS
  <2>1. \A j \in 1..(3 - 1) : Checks("hash")[j][1]
    BY <1>1
  <2> QED
    BY <1>1, <1>2, <2>1
<1>6. b.fails \in HashChecks => RegionVerdict(b, "none") = Reason[b.fails]
  <2> SUFFICES ASSUME b.fails \in HashChecks
               PROVE  RegionVerdict(b, "none") = Reason[b.fails]
    OBVIOUS
  <2>1. \A j \in 1..(4 - 1) : Checks("none")[j][1]
    BY <1>1 DEF HashChecks
  <2> QED
    BY <1>1, <1>2, <2>1
<1>7. b.fails = "none" => RegionVerdict(b, "none") = "SUCCESS"
  <2> SUFFICES ASSUME b.fails = "none"
               PROVE  FirstFailure(Checks("none")) = "SUCCESS"
    BY <1>1
  <2>1. \A i \in DOMAIN Checks("none") : Checks("none")[i][1]
    BY <1>1 DEF HashChecks
  <2> QED
    BY <2>1 DEF FirstFailure
<1> QED
  BY <1>3, <1>4, <1>5, <1>6, <1>7 DEF HashChecks, Reason

(* What the first of the candidate's checks that fails is.                 *)
LEMMA CandidateFails ==
  /\ ~ProperArray(rg_in) => Candidate(rg_in).fails = "regions"
  /\ ProperArray(rg_in) => Candidate(rg_in).fails # "regions"
  /\ ProperArray(rg_in) /\ ~rg_in.magic => Candidate(rg_in).fails = "hash_magic"
  /\ ProperArray(rg_in) /\ rg_in.magic =>
       Candidate(rg_in).fails =
         IF rg_in.signed # SignedBytes(rg_in) THEN "image_hash" ELSE "none"
<1> DEFINE fails == IF ~ProperArray(rg_in) THEN "regions"
                    ELSE IF ~rg_in.magic THEN "hash_magic"
                    ELSE IF rg_in.signed # SignedBytes(rg_in) THEN "image_hash"
                    ELSE "none"
<1>1. Candidate(rg_in).fails = fails
  BY DEF Candidate
<1>2. CASE ~ProperArray(rg_in)
  BY <1>1, <1>2
<1>3. CASE ProperArray(rg_in) /\ ~rg_in.magic
  BY <1>1, <1>3
<1>4. CASE ProperArray(rg_in) /\ rg_in.magic
  BY <1>1, <1>4
<1> QED
  BY <1>2, <1>3, <1>4

(* An array that the first loop has gone through is a proper one.          *)
LEMMA CheckedIsProper ==
  ASSUME RgTypeOK, Tiled(Len(Array)), Located(Len(Array)),
         byte_count = rg_in.image_size
  PROVE  ProperArray(rg_in)
<1>0. /\ rg_in.d \in Nat /\ rg_in.area \in Nat /\ Len(Array) \in Nat
      /\ Len(Array) >= 1 /\ DOMAIN Array = 1..Len(Array)
      /\ d_region_num \in 1..Len(Array)
  BY Arguments DEF RgTypeOK
<1>1. \A i \in DOMAIN Array :
        Array[i].offset % Align = 0 /\ Array[i].size % Align = 0
  BY <1>0 DEF Tiled
<1>2. Array[1].offset = 0 /\ EndOf(Array[Len(Array)]) = rg_in.image_size
  BY <1>0 DEF Tiled
<1>3. \A i, j \in DOMAIN Array : i < j => EndOf(Array[i]) <= Array[j].offset
  BY <1>0 DEF Tiled
<1>4. \A n \in 0..(rg_in.image_size - 1) :
        \E i \in DOMAIN Array : InRegion(Array[i], n)
  BY <1>0 DEF Tiled
<1>5. \A i \in DOMAIN Array : InRegion(Array[i], rg_in.d) =>
        Array[i].static /\ rg_in.d + rg_in.area <= EndOf(Array[i])
  <2> SUFFICES ASSUME NEW i \in DOMAIN Array, InRegion(Array[i], rg_in.d)
               PROVE  Array[i].static /\ rg_in.d + rg_in.area <= EndOf(Array[i])
    OBVIOUS
  <2>1. /\ InRegion(Array[d_region_num], rg_in.d)
        /\ Array[d_region_num].static
        /\ rg_in.d + rg_in.area <= EndOf(Array[d_region_num])
    BY <1>0 DEF Located
  <2>2. \A j \in 1..Len(Array) : EndOf(Array[j]) \in Nat /\ Array[j].offset \in Nat
    BY RegionTypes
  <2>3. i = d_region_num
    <3>1. /\ Array[i].offset <= rg_in.d /\ rg_in.d < EndOf(Array[i])
          /\ Array[d_region_num].offset <= rg_in.d
          /\ rg_in.d < EndOf(Array[d_region_num])
      BY <2>1 DEF InRegion
    <3>2. ~(i < d_region_num)
      BY <1>0, <1>3, <2>2, <3>1
    <3>3. ~(d_region_num < i)
      BY <1>0, <1>3, <2>2, <3>1
    <3> QED
      BY <1>0, <3>2, <3>3
  <2> QED
    BY <2>1, <2>3
<1> QED
  BY <1>1, <1>2, <1>3, <1>4, <1>5 DEF ProperArray, Array

(* What a proper array is, of a region each.                               *)
LEMMA ProperRegions ==
  ASSUME RgTypeOK, ProperArray(rg_in)
  PROVE  /\ \A i \in 1..Len(Array) : /\ Array[i].offset % Align = 0
                                    /\ Array[i].size % Align = 0
                                    /\ EndOf(Array[i]) <= rg_in.image_size
         /\ Array[1].offset = 0 /\ EndOf(Array[Len(Array)]) = rg_in.image_size
         /\ \A i, j \in 1..Len(Array) :
              i < j => EndOf(Array[i]) <= Array[j].offset
         /\ \A n \in 0..(rg_in.image_size - 1) :
              \E i \in 1..Len(Array) : InRegion(Array[i], n)
         /\ \A i \in 1..Len(Array) : InRegion(Array[i], rg_in.d) =>
              Array[i].static /\ rg_in.d + rg_in.area <= EndOf(Array[i])
<1>0. Len(Array) \in Nat /\ Len(Array) >= 1 /\ DOMAIN Array = 1..Len(Array)
  BY Arguments DEF RgTypeOK
<1>1. /\ \A i \in 1..Len(Array) : /\ Array[i].offset % Align = 0
                                 /\ Array[i].size % Align = 0
      /\ Array[1].offset = 0 /\ EndOf(Array[Len(Array)]) = rg_in.image_size
      /\ \A i, j \in 1..Len(Array) :
           i < j => EndOf(Array[i]) <= Array[j].offset
      /\ \A n \in 0..(rg_in.image_size - 1) :
           \E i \in 1..Len(Array) : InRegion(Array[i], n)
      /\ \A i \in 1..Len(Array) : InRegion(Array[i], rg_in.d) =>
           Array[i].static /\ rg_in.d + rg_in.area <= EndOf(Array[i])
  BY <1>0 DEF ProperArray, Array
<1>2. ASSUME NEW i \in 1..Len(Array)
      PROVE  EndOf(Array[i]) <= rg_in.image_size
  <2>1. /\ Array[Len(Array)].offset \in Nat /\ EndOf(Array[i]) \in Nat
        /\ EndOf(Array[Len(Array)]) \in Nat
        /\ Array[Len(Array)].offset <= EndOf(Array[Len(Array)])
    BY <1>0, RegionTypes
  <2>2. CASE i = Len(Array)
    BY <1>1, <2>1, <2>2
  <2>3. CASE i < Len(Array)
    <3>1. EndOf(Array[i]) <= Array[Len(Array)].offset
      BY <1>0, <1>1, <2>3
    <3> QED
      BY <1>1, <2>1, <3>1
  <2>4. i = Len(Array) \/ i < Len(Array)
    <3>1. \A n \in Nat : \A m \in 1..n : m = n \/ m < n
      OBVIOUS
    <3> QED
      BY <1>0, <3>1, Zenon
  <2> QED
    BY <2>2, <2>3, <2>4
<1> QED
  BY <1>1, <1>2

(* The first loop lets every region of a proper array through.             *)
LEMMA ProperPasses ==
  ASSUME RgIInv, rg_pc = "check", rg_i < Len(Array), ProperArray(rg_in)
  PROVE  /\ RegionAligned /\ RegionFollows
         /\ InRegion(Checking, rg_in.d) => DescriptorFits
<1> DEFINE k == rg_i + 1
<1>0. /\ rg_in.d \in Nat /\ rg_in.area \in Nat /\ Len(Array) \in Nat
      /\ rg_in.image_size \in Nat /\ rg_i \in Nat
      /\ byte_count \in Nat /\ byte_count <= rg_in.image_size
      /\ RgTypeOK /\ Tiled(rg_i)
  BY Arguments DEF RgIInv, RgTypeOK
<1>1. k \in 1..Len(Array) /\ Checking = Array[k] /\ k \in Nat
  BY <1>0 DEF Checking, Array
<1>2. \A i \in 1..Len(Array) :
        /\ Array[i].offset \in Nat /\ Array[i].size \in Nat
        /\ EndOf(Array[i]) = Array[i].offset + Array[i].size
        /\ EndOf(Array[i]) \in Nat
  BY <1>0, RegionTypes
<1>3. RegionAligned
  BY <1>0, <1>1, ProperRegions DEF RegionAligned
<1>4. EndOf(Array[k]) <= rg_in.image_size
  BY <1>0, <1>1, ProperRegions
<1>5. byte_count <= Array[k].offset
  <2>1. CASE rg_i = 0
    BY <1>0, <1>1, <1>2, <2>1 DEF Tiled
  <2>2. CASE rg_i > 0
    <3>1. EndOf(Array[rg_i]) = byte_count
      BY <1>0, <2>2 DEF Tiled
    <3>2. rg_i \in 1..Len(Array) /\ rg_i < k
      BY <1>0, <1>1, <2>2
    <3> QED
      BY <1>0, <1>1, <3>1, <3>2, ProperRegions
  <2> QED
    BY <1>0, <2>1, <2>2
<1>6. ~(byte_count < Array[k].offset)
  <2> SUFFICES ASSUME byte_count < Array[k].offset PROVE FALSE
    OBVIOUS
  <2>1. byte_count \in 0..(rg_in.image_size - 1)
    BY <1>0, <1>1, <1>2, <1>4
  <2>2. PICK i \in 1..Len(Array) : InRegion(Array[i], byte_count)
    BY <1>0, <2>1, ProperRegions
  <2>3. Array[i].offset <= byte_count /\ byte_count < EndOf(Array[i])
    BY <2>2 DEF InRegion
  <2>4. ~(i < k)
    <3>1. i < k => i \in 1..rg_i
      BY <1>0
    <3>2. i < k => EndOf(Array[i]) <= byte_count
      BY <1>0, <3>1 DEF Tiled
    <3>3. EndOf(Array[i]) \in Nat
      BY <1>2
    <3> QED
      BY <1>0, <2>3, <3>2, <3>3
  <2>5. i # k
    BY <1>0, <1>1, <1>2, <2>3
  <2>6. ~(k < i)
    <3>1. k < i => EndOf(Array[k]) <= Array[i].offset
      BY <1>0, <1>1, ProperRegions
    <3>2. /\ Array[k].offset \in Nat /\ EndOf(Array[k]) \in Nat
          /\ Array[i].offset \in Nat /\ Array[k].offset <= EndOf(Array[k])
      BY <1>0, <1>1, RegionTypes
    <3> HIDE DEF k
    <3> QED
      BY <1>0, <2>3, <3>1, <3>2
  <2> QED
    BY <1>0, <1>1, <2>4, <2>5, <2>6
<1>7. RegionFollows
  <2>1. Sub(rg_in.image_size, byte_count) = rg_in.image_size - byte_count
    BY <1>0 DEF Sub
  <2>2. Array[k].offset = byte_count
    BY <1>0, <1>1, <1>2, <1>5, <1>6
  <2>3. Array[k].size <= rg_in.image_size - byte_count
    BY <1>0, <1>1, <1>2, <1>4, <2>2
  <2> QED
    BY <1>1, <2>1, <2>2, <2>3 DEF RegionFollows
<1>8. ASSUME InRegion(Checking, rg_in.d) PROVE DescriptorFits
  <2>0. InRegion(Array[k], rg_in.d)
    BY <1>1, <1>8
  <2>1. /\ Array[k].static /\ rg_in.d + rg_in.area <= EndOf(Array[k])
        /\ rg_in.d < EndOf(Array[k]) /\ EndOf(Array[k]) \in Nat
    <3>1. Array[k].static /\ rg_in.d + rg_in.area <= EndOf(Array[k])
      BY <1>0, <1>1, <2>0, ProperRegions
    <3> QED
      BY <1>1, <1>2, <2>0, <3>1 DEF InRegion
  <2>2. Sub(EndOf(Array[k]), rg_in.d) = EndOf(Array[k]) - rg_in.d
    BY <1>0, <2>1 DEF Sub
  <2>3. rg_in.area <= EndOf(Array[k]) - rg_in.d
    BY <1>0, <2>1
  <2> QED
    BY <1>1, <2>1, <2>2, <2>3 DEF DescriptorFits
<1> QED
  BY <1>3, <1>7, <1>8

(* The verdict is given when the call returns, and hashing begins with a   *)
(* digest that has its magic.                                              *)
VerdictPending ==
  /\ rg_pc # "done" => rg_verdict = "none"
  /\ rg_pc \in Hashing \cup {"final"} => rg_in.magic

LEMMA VerdictIsPending == RgSpec => []VerdictPending
<1>1. RgInit => VerdictPending
  BY DEF RgInit, VerdictPending, Hashing
<1>2. VerdictPending /\ [RgNext]_rgVars => VerdictPending'
  <2> SUFFICES ASSUME VerdictPending, [RgNext]_rgVars PROVE VerdictPending'
    OBVIOUS
  <2> USE DEF VerdictPending, Hashing
  <2>1. ASSUME NEW verdict, RgReturns(verdict) PROVE VerdictPending'
    BY <2>1 DEF RgReturns
  <2>2. CASE ReadArray
    BY <2>1, <2>2 DEF ReadArray
  <2>3. CASE CheckRegion
    BY <2>1, <2>3 DEF CheckRegion
  <2>4. CASE BeginHash
    BY <2>1, <2>4 DEF BeginHash
  <2>5. CASE NextRegion
    BY <2>5 DEF NextRegion
  <2>6. CASE EndRegions
    BY <2>6 DEF EndRegions
  <2>7. CASE StartPiece
    BY <2>7 DEF StartPiece
  <2>8. CASE HashChunk
    BY <2>8 DEF HashChunk
  <2>9. CASE ChunkFails
    BY <2>1, <2>9 DEF ChunkFails
  <2>10. CASE FinishHash
    BY <2>1, <2>10 DEF FinishHash
  <2>11. CASE UNCHANGED rgVars
    BY <2>11 DEF rgVars
  <2> QED
    BY <2>2, <2>3, <2>4, <2>5, <2>6, <2>7, <2>8, <2>9, <2>10, <2>11 DEF RgNext
<1> QED
  BY <1>1, <1>2, PTL DEF RgSpec

(* A return is that of the call if the verdict is, with some read failing  *)
(* or none.                                                                *)
LEMMA ReturnsAreCalls ==
  ASSUME VerdictPending, rg_pc # "done", NEW verdict, RgReturns(verdict),
         NEW fault \in RegionRead \cup {"none"},
         verdict = RegionVerdict(Candidate(rg_in), fault)
  PROVE  RgCallReturns
  BY DEF VerdictPending, RgReturns, RgCallReturns

(* Every step of the validation is the return of the call, or no step of   *)
(* it.                                                                     *)
LEMMA StepsAreCalls ==
  ASSUME RgIInv, VerdictPending, [RgNext]_rgVars
  PROVE  [RgCallReturns]_rgCallVars
<1> DEFINE b == Candidate(rg_in)
<1>0. /\ {"regions", "hash", "none"} = RegionRead \cup {"none"}
      /\ RegionVerdict(b, "regions") = "RUNTIME_FAILURE"
      /\ ~ProperArray(rg_in) => RegionVerdict(b, "none") = "INVALID_DESCRIPTOR"
      /\ ProperArray(rg_in) => RegionVerdict(b, "hash") = "RUNTIME_FAILURE"
      /\ ProperArray(rg_in) /\ ~rg_in.magic =>
           RegionVerdict(b, "none") = "INVALID_DESCRIPTOR"
      /\ ProperArray(rg_in) /\ rg_in.magic =>
           RegionVerdict(b, "none") =
             IF rg_in.signed # SignedBytes(rg_in) THEN "INVALID_HASH" ELSE "SUCCESS"
  <2>1. {"regions", "hash", "none"} = RegionRead \cup {"none"}
    BY DEF RegionRead
  <2>2. /\ RegionVerdict(b, "regions") = "RUNTIME_FAILURE"
        /\ b.fails = "regions" => RegionVerdict(b, "none") = "INVALID_DESCRIPTOR"
        /\ b.fails # "regions" => RegionVerdict(b, "hash") = "RUNTIME_FAILURE"
        /\ b.fails = "hash_magic" =>
             RegionVerdict(b, "none") = "INVALID_DESCRIPTOR"
        /\ b.fails = "image_hash" => RegionVerdict(b, "none") = "INVALID_HASH"
        /\ b.fails = "none" => RegionVerdict(b, "none") = "SUCCESS"
    BY RegionVerdicts
  <2>3. /\ ~ProperArray(rg_in) => b.fails = "regions"
        /\ ProperArray(rg_in) => b.fails # "regions"
        /\ ProperArray(rg_in) /\ ~rg_in.magic => b.fails = "hash_magic"
        /\ ProperArray(rg_in) /\ rg_in.magic =>
             b.fails =
               IF rg_in.signed # SignedBytes(rg_in) THEN "image_hash" ELSE "none"
    BY CandidateFails
  <2> HIDE DEF b
  <2> QED
    BY <2>1, <2>2, <2>3
<1> HIDE DEF b
<1>1. ASSUME NEW verdict, rg_pc # "done", RgReturns(verdict),
             NEW fault \in {"regions", "hash", "none"},
             verdict = RegionVerdict(b, fault)
      PROVE  RgCallReturns
  BY <1>0, <1>1, ReturnsAreCalls DEF b
<1>2. ASSUME rg_pc \in Hashing \cup {"final"} PROVE ProperArray(rg_in)
  BY <1>2, CheckedIsProper DEF RgIInv, Hashing
<1>3. CASE ReadArray
  <2>1. rg_pc # "done"
    BY <1>3 DEF ReadArray
  <2>2. CASE RgReturns("RUNTIME_FAILURE")
    BY <1>0, <1>1, <2>1, <2>2
  <2> QED
    BY <1>3, <2>2 DEF ReadArray, rgCallVars
<1>4. CASE CheckRegion
  <2>1. rg_pc = "check" /\ rg_i < Len(Array)
    BY <1>4 DEF CheckRegion, Array
  <2>2. CASE /\ RegionAligned /\ RegionFollows
             /\ InRegion(Checking, rg_in.d) => DescriptorFits
    BY <1>4, <2>2 DEF CheckRegion, rgCallVars
  <2>3. CASE ~(/\ RegionAligned /\ RegionFollows
               /\ InRegion(Checking, rg_in.d) => DescriptorFits)
    <3>1. RgReturns("INVALID_DESCRIPTOR")
      BY <1>4, <2>3 DEF CheckRegion
    <3>2. ~ProperArray(rg_in)
      BY <2>1, <2>3, ProperPasses
    <3> QED
      BY <1>0, <1>1, <2>1, <3>1, <3>2
  <2> QED
    BY <2>2, <2>3
<1>5. CASE BeginHash
  <2>1. /\ rg_pc = "check" /\ rg_i = Len(Array)
        /\ RgTypeOK /\ Tiled(Len(Array)) /\ Located(Len(Array))
    BY <1>5 DEF BeginHash, Array, RgIInv
  <2>2. CASE byte_count # rg_in.image_size /\ RgReturns("INVALID_DESCRIPTOR")
    <3>1. EndOf(Array[Len(Array)]) = byte_count
      BY <2>1, Arguments DEF Tiled, RgTypeOK
    <3>2. ~ProperArray(rg_in)
      BY <2>1, <2>2, <3>1, ProperRegions
    <3> QED
      BY <1>0, <1>1, <2>1, <2>2, <3>2
  <2>3. ASSUME byte_count = rg_in.image_size PROVE ProperArray(rg_in)
    BY <2>1, <2>3, CheckedIsProper
  <2>4. CASE byte_count = rg_in.image_size /\ RgReturns("RUNTIME_FAILURE")
    BY <1>0, <1>1, <2>1, <2>3, <2>4
  <2>5. CASE /\ byte_count = rg_in.image_size /\ ~rg_in.magic
             /\ RgReturns("INVALID_DESCRIPTOR")
    BY <1>0, <1>1, <2>1, <2>3, <2>5
  <2>6. CASE UNCHANGED <<rg_in, rg_verdict, rgCheck, rgHash>>
    BY <2>6 DEF rgCallVars
  <2> QED
    BY <1>5, <2>2, <2>4, <2>5, <2>6 DEF BeginHash
<1>6. CASE ChunkFails
  <2>1. rg_pc = "read" /\ RgReturns("RUNTIME_FAILURE")
    BY <1>6 DEF ChunkFails
  <2> QED
    BY <1>0, <1>1, <1>2, <2>1 DEF Hashing
<1>7. CASE FinishHash
  <2>1. rg_pc = "final" /\ ProperArray(rg_in) /\ rg_in.magic
    BY <1>2, <1>7 DEF FinishHash, VerdictPending
  <2>2. hashed = SignedBytes(rg_in)
    BY <2>1 DEF RgIInv, HashedSoFar, SignedBytes, StaticBytes, Area, Array
  <2>3. CASE RgReturns("RUNTIME_FAILURE")
    BY <1>0, <1>1, <2>1, <2>3
  <2>4. CASE RgReturns(IF hashed = rg_in.signed THEN "SUCCESS"
                       ELSE "INVALID_HASH")
    <3>1. RegionVerdict(b, "none") =
            IF hashed = rg_in.signed THEN "SUCCESS" ELSE "INVALID_HASH"
      BY <1>0, <2>1, <2>2
    <3> QED
      BY <1>1, <2>1, <2>4, <3>1
  <2> QED
    BY <1>7, <2>3, <2>4 DEF FinishHash
<1>8. CASE NextRegion \/ EndRegions \/ StartPiece \/ HashChunk \/ UNCHANGED rgVars
  BY <1>8 DEF NextRegion, EndRegions, StartPiece, HashChunk, rgVars, rgCallVars
<1> QED
  BY <1>3, <1>4, <1>5, <1>6, <1>7, <1>8 DEF RgNext

(* The loops of validate_payload_regions() return the verdict that         *)
(* Cr51Sign takes from the first check that fails, for every region array, *)
(* flash and chunk size.                                                   *)
THEOREM RegionsImplementCall == RgSpec => ImplementsRegionCall
<1>1. RgInit => RgCallInit
  BY DEF RgInit, RgCallInit
<1>2. RgIInv /\ VerdictPending /\ [RgNext]_rgVars => [RgCallReturns]_rgCallVars
  BY StepsAreCalls
<1>3. RgSpec => RgInit /\ [][RgNext]_rgVars
  BY DEF RgSpec
<1> QED
  BY <1>1, <1>2, <1>3, RgInvariance, VerdictIsPending, PTL
     DEF ImplementsRegionCall, RgCallSpec
===============================================================================
