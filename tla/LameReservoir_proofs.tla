------------------------ MODULE LameReservoir_proofs ------------------------
(***************************************************************************)
(* The reservoir, main_data_begin and the stream agree, and every header   *)
(* finds its place, for every table of frame sizes, every reservoir limit  *)
(* and every size the quantiser may give a granule, if the header ring has *)
(* a slot more than the frames a full reservoir spans.                     *)
(***************************************************************************)
EXTENDS LameReservoir, TLAPS

----------------------------------------------------------------------------
(* Arithmetic. *)

LEMMA TimesSucc == \A a, b \in Int : (a + 1) * b = a * b + b
  OBVIOUS

LEMMA TimesPred == \A a, b \in Int : (a - 1) * b = a * b - b
  OBVIOUS

LEMMA TimesMinus == \A a, b, c \in Int : a * (b - c) = a * b - a * c
  OBVIOUS

LEMMA Balanced ==
  \A r, a, t, d, b, room \in Int :
    8 * a + t = r => r - b + room - d - t = 8 * a + room - b - d
  OBVIOUS

LEMMA Moves ==
  \A a, b, c, d, x \in Int : a - b = c - d /\ c = x + d => a = x + b
  OBVIOUS

LEMMA ZeroPlus == \A x \in Nat : 0 + x = x
  OBVIOUS

LEMMA LessStays ==
  \A a, b, t, most \in Nat :
    8 * a + t = 8 * b /\ 8 * b <= most => 8 * a \in 0..most
  OBVIOUS

LEMMA TimesMono == \A a, b, c \in Nat : a <= b => a * c <= b * c
  OBVIOUS

----------------------------------------------------------------------------
(* Sizes of frames. *)

LEMMA FrameFacts ==
  ASSUME NEW i \in 1..VbrMax, NEW p \in BOOLEAN
  PROVE  /\ FrameLength(i, p) \in Nat /\ FrameLength(i, p) % 8 = 0
         /\ FrameLength(i, p) >= FrameBits[1]
         /\ RoomOf(i, p) = FrameLength(i, p) - SideBits
         /\ RoomOf(i, p) \in Nat /\ RoomOf(i, p) % 8 = 0
         /\ MeanBits(i, p) \in Nat
         /\ MeanBits(i, p) * ModeGr = RoomOf(i, p)
         /\ ModeGr = 1 => MeanBits(i, p) = RoomOf(i, p)
         /\ ModeGr = 2 => 2 * MeanBits(i, p) = RoomOf(i, p)
<1>1. 1 \in 1..VbrMax /\ FrameBits[1] <= FrameBits[i] /\ FrameBits[i] > SideBits
  BY ReservoirAssumption
<1>2. /\ FrameBits[i] \in Nat /\ FrameBits[i] % 8 = 0
      /\ FrameBits[1] \in Nat
      /\ SideBits \in Nat /\ SideBits % 8 = 0
  BY ReservoirAssumption, <1>1 DEF Bytes
<1>3. /\ FrameLength(i, p) \in Nat /\ FrameLength(i, p) % 8 = 0
      /\ FrameLength(i, p) >= FrameBits[i]
  BY <1>2 DEF FrameLength
<1>4. RoomOf(i, p) = FrameLength(i, p) - SideBits /\ RoomOf(i, p) \in Nat
        /\ RoomOf(i, p) % 8 = 0
  BY <1>1, <1>2, <1>3 DEF RoomOf
<1>5. ModeGr = 1 \/ ModeGr = 2
  BY ReservoirAssumption
<1>6. /\ MeanBits(i, p) \in Nat
      /\ ModeGr = 1 => MeanBits(i, p) = RoomOf(i, p)
      /\ ModeGr = 2 => 2 * MeanBits(i, p) = RoomOf(i, p)
  BY <1>4, <1>5 DEF MeanBits
<1>7. MeanBits(i, p) * ModeGr = RoomOf(i, p)
  BY <1>4, <1>5, <1>6
<1>8. QED
  BY <1>1, <1>2, <1>3, <1>4, <1>6, <1>7

LEMMA SideFacts ==
  /\ SideBits \in Nat /\ SideBits > 0 /\ SideBits % 8 = 0
  /\ FrameBits[1] \in Nat /\ FrameBits[1] > SideBits
  /\ ResvLimit \in Nat /\ ResvLimit % 8 = 0 /\ ResvLimit = 8 * MdbMax
  /\ MdbMax \in Nat
  /\ HeaderBuf \in Nat /\ HeaderBuf > 1
<1>1. 1 \in 1..VbrMax
  BY ReservoirAssumption
<1>2. FrameBits[1] \in Bytes /\ FrameBits[1] > SideBits
  BY <1>1, ReservoirAssumption
<1>3. QED
  BY <1>2, ReservoirAssumption DEF Bytes, ResvLimit

LEMMA ResvMaxFacts ==
  ASSUME NEW i \in 1..VbrMax, NEW p \in BOOLEAN
  PROVE  /\ ResvMaxOf(i, p) \in Nat /\ ResvMaxOf(i, p) % 8 = 0
         /\ ResvMaxOf(i, p) <= ResvLimit
<1>1. Constraint \in Nat /\ Constraint % 8 = 0
  BY ReservoirAssumption DEF Bytes
<1>2. FrameLength(i, p) \in Nat /\ FrameLength(i, p) % 8 = 0
  BY FrameFacts
<1>3. QED
  BY <1>1, <1>2, SideFacts DEF ResvMaxOf, Lesser

LEMMA UnpaddedFacts ==
  ASSUME NEW j \in 1..VbrMax
  PROVE  /\ MeanBits(j, FALSE) * ModeGr = RoomOf(j, FALSE)
         /\ MeanBits(j, FALSE) * ModeGr \in Nat
         /\ ResvMaxOf(j, FALSE) \in Nat /\ ResvMaxOf(j, FALSE) % 8 = 0
         /\ ResvMaxOf(j, FALSE) <= ResvLimit
<1>1. /\ MeanBits(j, FALSE) * ModeGr = RoomOf(j, FALSE)
      /\ RoomOf(j, FALSE) \in Nat
  BY FrameFacts
<1>2. MeanBits(j, FALSE) * ModeGr \in Nat
  BY <1>1
<1>3. QED
  BY <1>1, <1>2, ResvMaxFacts

(* A granule never takes more than its share and the reservoir it is given. *)
LEMMA MaxBitsBound ==
  ASSUME NEW g \in {0, 1}, NEW mean \in Nat,
         ResvSize \in Int, ResvMax \in Nat,
         (IF g = 0 THEN ResvSize ELSE ResvSize + mean) >= 0
  PROVE  MaxBits(g, mean) <= mean + (IF g = 0 THEN ResvSize ELSE ResvSize + mean)
<1> DEFINE size  == IF g = 0 THEN ResvSize ELSE ResvSize + mean
           nine  == (ResvMax * 9) \div 10
           six   == (ResvMax * 6) \div 10
           full  == size * 10 > ResvMax * 9
           add   == IF full THEN size - nine ELSE 0
           targ  == IF full THEN mean + add
                    ELSE IF cfg.disable_reservoir THEN mean ELSE (mean * 9) \div 10
           extra == Lesser(size, six) - add
<1>1. size \in Int /\ size >= 0 /\ nine \in Nat /\ six \in Nat
  OBVIOUS
<1>2. GranuleMax \in Nat
  BY ReservoirAssumption
<1>3. (mean * 9) \div 10 <= mean /\ (mean * 9) \div 10 \in Int
  OBVIOUS
<1>4. MaxBits(g, mean) = Lesser(targ + (IF extra < 0 THEN 0 ELSE extra), GranuleMax)
  BY DEF MaxBits
<1> HIDE DEF size, nine, six
<1>5. targ + (IF extra < 0 THEN 0 ELSE extra) <= mean + size
  <2>1. CASE full
    BY <1>1, <2>1 DEF Lesser
  <2>2. CASE ~full
    BY <1>1, <1>3, <2>2 DEF Lesser
  <2>3. QED
    BY <2>1, <2>2
<1>6. targ + (IF extra < 0 THEN 0 ELSE extra) \in Int
  BY <1>1, <1>3 DEF Lesser
<1>7. MaxBits(g, mean) <= mean + size
  BY <1>1, <1>2, <1>4, <1>5, <1>6 DEF Lesser
<1>8. QED
  BY <1>7 DEF size

----------------------------------------------------------------------------
(* The ring. *)

InRing(s) == Dist(s, h_ptr) <= Pending

LEMMA DistFacts ==
  /\ \A s, p \in Slots : Dist(s, p) \in Slots /\ (Dist(s, p) = 0 <=> s = p)
  /\ \A s \in Slots : NextSlot(s) \in Slots
  /\ \A s, p \in Slots : Dist(s, p) < HeaderBuf - 1
                          => Dist(s, NextSlot(p)) = Dist(s, p) + 1
  /\ \A s, p \in Slots : Dist(s, p) = HeaderBuf - 1 <=> s = NextSlot(p)
  /\ \A s, p \in Slots : s # p => Dist(NextSlot(s), p) = Dist(s, p) - 1
  BY SideFacts DEF Dist, Slots, NextSlot

(* Where the headers of the ring belong: whole bytes, each at least a      *)
(* smallest frame behind the one before, and the one that is due next not  *)
(* passed by the stream.  The last one is the furthest.                    *)
RingInv ==
  /\ \A s \in Slots : InRing(s) =>
       /\ write_timing[s] % 8 = 0
       /\ write_timing[h_ptr] - write_timing[s] >= Dist(s, h_ptr) * FrameBits[1]
       /\ s # h_ptr =>
            /\ write_timing[NextSlot(s)] - write_timing[s] >= FrameBits[1]
            /\ write_timing[s] <= write_timing[LastSlot]
  /\ w_ptr # h_ptr => totbit <= write_timing[w_ptr]

Room == RoomOf(bitrate_index, padding)
Mean == MeanBits(bitrate_index, padding)

(* No header has ever been encoded.                                        *)
Virgin == /\ h_ptr = 0 /\ w_ptr = 0
          /\ \A s \in Slots : write_timing[s] = totbit

(* The place behind the last encoded frame, and when that frame's header   *)
(* is in the stream, the stream is behind it.                              *)
LastFrame ==
  /\ write_timing[h_ptr] =
       write_timing[LastSlot] + FrameLength(bitrate_index, padding)
  /\ w_ptr = h_ptr => totbit >= write_timing[LastSlot] + SideBits

(* What the frame being written leaves, as main_data_begin will count it.  *)
Balance == ResvSize = 8 * main_data_begin + Room - used - resvDrain_post

AtIdle ==
  /\ todo = 0 /\ used = 0 /\ resvDrain_post = 0 /\ gr = 0
  /\ ResvSize = 8 * main_data_begin
  /\ ResvSize \in 0..ResvMax
  /\ Space = ResvSize
  /\ totbit % 8 = 0
  /\ Virgin \/ LastFrame
  /\ Virgin => fresh

AtGranules ==
  /\ ~cfg.vbr
  /\ todo = 0 /\ resvDrain_post = 0
  /\ ResvMax = ResvMaxOf(bitrate_index, padding)
  /\ ResvSize = 8 * main_data_begin - used
  /\ 8 * main_data_begin \in 0..ResvLimit
  /\ Space = 8 * main_data_begin
  /\ totbit % 8 = 0
  /\ gr = 0 => ResvSize >= 0
  /\ gr = 1 => ResvSize + Mean >= 0
  /\ gr = 2 => ResvSize + 2 * Mean >= 0

Quantised ==
  /\ Balance
  /\ ResvSize \in 0..ResvMax /\ ResvSize % 8 = 0
  /\ resvDrain_post \in Nat

AtPre ==
  /\ Quantised
  /\ 8 * main_data_begin \in 0..ResvLimit
  /\ Space = 8 * main_data_begin + todo

AtMain ==
  /\ Quantised /\ LastFrame
  /\ Space = ResvSize + resvDrain_post + todo

AtPost ==
  /\ Quantised /\ LastFrame
  /\ Space = ResvSize + todo

AtFlush ==
  /\ used = 0 /\ resvDrain_post = 0 /\ gr = 0
  /\ LastFrame
  /\ Space = todo

IInv ==
  /\ TypeOK /\ todo \in Nat
  /\ ResvMax <= ResvLimit /\ ResvMax % 8 = 0
  /\ RingInv
  /\ pc = "idle" => AtIdle
  /\ pc = "granules" => AtGranules
  /\ pc = "pre" => AtPre
  /\ pc = "main" => AtMain
  /\ pc = "post" => AtPost
  /\ pc = "flush" => AtFlush

----------------------------------------------------------------------------
(* What the pieces of a step do. *)

LEMMA TimesMod ==
  ASSUME NEW a \in Int, NEW b \in Nat, b % 8 = 0
  PROVE  (a * b) % 8 = 0
<1> DEFINE k == b \div 8
           c == a * k
<1>1. k \in Nat /\ b = k * 8
  OBVIOUS
<1>2. c \in Int
  BY <1>1
<1>3. a * b = c * 8
  BY <1>1
<1> HIDE DEF c
<1>4. (c * 8) % 8 = 0
  BY <1>2
<1>5. QED
  BY <1>3, <1>4

(* Stuffing leaves whole bytes within the maximum; what goes behind the    *)
(* previous frame comes off main_data_begin.                               *)
LEMMA FrameEndFacts ==
  ASSUME NEW size \in Nat, NEW max \in Nat, max % 8 = 0,
         main_data_begin \in Nat, ResvFrameEnd(size, max)
  PROVE  /\ ResvSize' \in 0..max /\ ResvSize' % 8 = 0
         /\ main_data_begin' \in Nat /\ main_data_begin' <= main_data_begin
         /\ todo' \in Nat /\ resvDrain_post' \in Nat
         /\ 8 * main_data_begin' + todo' = 8 * main_data_begin
         /\ ResvSize' = size - resvDrain_post' - todo'
<1> DEFINE over     == size - (size % 8) - max
           stuffing == (size % 8) + IF over > 0 THEN over ELSE 0
           pre      == Lesser(8 * main_data_begin, stuffing) \div 8
<1>1. /\ ResvSize' = size - stuffing
      /\ main_data_begin' = main_data_begin - pre
      /\ resvDrain_post' = stuffing - 8 * pre
      /\ todo' = 8 * pre
  BY DEF ResvFrameEnd
<1>2. /\ stuffing \in Nat /\ stuffing <= size
      /\ size - stuffing <= max /\ (size - stuffing) % 8 = 0
  OBVIOUS
<1> HIDE DEF stuffing
<1>3. pre \in Nat /\ pre <= main_data_begin /\ 8 * pre <= stuffing
  BY <1>2 DEF Lesser
<1> HIDE DEF pre
<1>4. QED
  BY <1>1, <1>2, <1>3

LEMMA FullMono ==
  ASSUME NEW i \in 1..VbrMax, NEW j \in 1..VbrMax, i <= j, ResvSize \in Nat
  PROVE  FullFrameBits(i, FALSE) <= FullFrameBits(j, FALSE)
<1>1. /\ FrameBits[i] \in Nat /\ FrameBits[j] \in Nat
      /\ FrameBits[i] <= FrameBits[j]
      /\ Constraint \in Nat /\ FrameBits[j] <= Constraint
  BY ReservoirAssumption DEF Bytes
<1>2. FrameLength(i, FALSE) = FrameBits[i] /\ FrameLength(j, FALSE) = FrameBits[j]
  BY <1>1 DEF FrameLength
<1>3. /\ MeanBits(i, FALSE) * ModeGr = RoomOf(i, FALSE)
      /\ MeanBits(j, FALSE) * ModeGr = RoomOf(j, FALSE)
      /\ RoomOf(i, FALSE) \in Nat /\ RoomOf(j, FALSE) \in Nat
  BY FrameFacts
<1>4. RoomOf(i, FALSE) = FrameBits[i] - SideBits
        /\ RoomOf(j, FALSE) = FrameBits[j] - SideBits
  BY <1>2 DEF RoomOf
<1>5. /\ FullFrameBits(i, FALSE) =
           Lesser(FrameBits[i] - SideBits + Lesser(ResvSize, ResvMaxOf(i, FALSE)), Constraint)
      /\ FullFrameBits(j, FALSE) =
           Lesser(FrameBits[j] - SideBits + Lesser(ResvSize, ResvMaxOf(j, FALSE)), Constraint)
  BY <1>3, <1>4 DEF FullFrameBits
<1>6. /\ ResvMaxOf(i, FALSE) =
           IF Lesser(Constraint - FrameBits[i], ResvLimit) < 0 \/ cfg.disable_reservoir
           THEN 0 ELSE Lesser(Constraint - FrameBits[i], ResvLimit)
      /\ ResvMaxOf(j, FALSE) =
           IF Lesser(Constraint - FrameBits[j], ResvLimit) < 0 \/ cfg.disable_reservoir
           THEN 0 ELSE Lesser(Constraint - FrameBits[j], ResvLimit)
  BY <1>2 DEF ResvMaxOf
<1> DEFINE fi == FrameBits[i]
           fj == FrameBits[j]
           none == cfg.disable_reservoir
           mi == ResvMaxOf(i, FALSE)
           mj == ResvMaxOf(j, FALSE)
<1> HIDE DEF fi, fj, none, mi, mj
<1>7. /\ fi \in Nat /\ fj \in Nat /\ fi <= fj /\ Constraint \in Nat /\ fj <= Constraint
      /\ mi = IF Lesser(Constraint - fi, ResvLimit) < 0 \/ none
              THEN 0 ELSE Lesser(Constraint - fi, ResvLimit)
      /\ mj = IF Lesser(Constraint - fj, ResvLimit) < 0 \/ none
              THEN 0 ELSE Lesser(Constraint - fj, ResvLimit)
  BY <1>1, <1>6 DEF fi, fj, none, mi, mj
<1>8. ResvLimit \in Nat /\ SideBits \in Nat
  BY SideFacts
<1>9. Lesser(fi - SideBits + Lesser(ResvSize, mi), Constraint)
        <= Lesser(fj - SideBits + Lesser(ResvSize, mj), Constraint)
  BY <1>7, <1>8 DEF Lesser
<1>10. QED
  BY <1>5, <1>9 DEF fi, fj, mi, mj

LEMMA FullBound ==
  ASSUME NEW i \in 1..VbrMax, ResvSize \in Nat
  PROVE  /\ FullFrameBits(i, FALSE) <= RoomOf(i, FALSE) + ResvSize
         /\ FullFrameBits(i, FALSE) \in Int
<1>1. /\ MeanBits(i, FALSE) * ModeGr = RoomOf(i, FALSE)
      /\ RoomOf(i, FALSE) \in Nat
  BY FrameFacts
<1>2. ResvMaxOf(i, FALSE) \in Nat
  BY ResvMaxFacts
<1>3. Constraint \in Nat
  BY ReservoirAssumption DEF Bytes
<1>4. FullFrameBits(i, FALSE) =
        Lesser(RoomOf(i, FALSE) + Lesser(ResvSize, ResvMaxOf(i, FALSE)), Constraint)
  BY <1>1 DEF FullFrameBits
<1>5. RoomOf(i, FALSE) \in Nat
  BY <1>1
<1> DEFINE room == RoomOf(i, FALSE)
           max  == ResvMaxOf(i, FALSE)
           full == FullFrameBits(i, FALSE)
<1> HIDE DEF room, max, full
<1>6. full = Lesser(room + Lesser(ResvSize, max), Constraint)
        /\ room \in Nat /\ max \in Nat
  BY <1>2, <1>4, <1>5 DEF room, max, full
<1>7. full <= room + ResvSize /\ full \in Int
  BY <1>3, <1>6 DEF Lesser
<1>8. QED
  BY <1>7 DEF full, room

(* The bits that flush the stream are the space before the next header.    *)
LEMMA FlushIsSpace ==
  ASSUME TypeOK, RingInv, LastFrame
  PROVE  FlushBits = Space
<1>1. /\ h_ptr \in Slots /\ w_ptr \in Slots /\ LastSlot \in Slots
      /\ totbit \in Int /\ write_timing[LastSlot] \in Int
      /\ write_timing[h_ptr] \in Int /\ write_timing[w_ptr] \in Int
      /\ FrameLength(bitrate_index, padding) \in Nat
  <2>1. bitrate_index \in 1..VbrMax /\ padding \in BOOLEAN
    BY DEF TypeOK
  <2>2. h_ptr \in Slots /\ w_ptr \in Slots /\ write_timing \in [Slots -> Int]
          /\ totbit \in Int
    BY DEF TypeOK
  <2>3. LastSlot \in Slots
    BY <2>2, SideFacts DEF Slots, LastSlot
  <2>4. QED
    BY <2>1, <2>2, <2>3, FrameFacts
<1>2. CASE w_ptr = h_ptr
  <2>0. Pending = 0
    BY <1>1, <1>2, DistFacts DEF Pending
  <2>1. Pending * SideBits = 0
    BY <2>0, SideFacts
  <2>2. totbit >= write_timing[LastSlot] + SideBits
    BY <1>2 DEF LastFrame
  <2>3. write_timing[LastSlot] - totbit < 0
    BY <1>1, <2>2, SideFacts
  <2>4. QED
    BY <1>1, <2>1, <2>3 DEF FlushBits, Space, LastFrame
<1>3. CASE w_ptr # h_ptr
  <2>1. InRing(w_ptr) /\ totbit <= write_timing[w_ptr]
    BY <1>1, <1>3, DistFacts DEF RingInv, InRing, Pending, Slots, Dist
  <2>2. write_timing[w_ptr] <= write_timing[LastSlot]
    BY <1>1, <1>3, <2>1 DEF RingInv
  <2>3. RemainingHeaders = Pending
    BY <1>1, <1>3, SideFacts DEF RemainingHeaders, Pending, Dist, LastSlot, Slots
  <2>4. write_timing[LastSlot] - totbit >= 0
    BY <1>1, <2>1, <2>2
  <2>5. Pending * SideBits \in Int
    BY <1>1, SideFacts, DistFacts DEF Pending, Slots
  <2>6. QED
    BY <1>1, <2>3, <2>4, <2>5 DEF FlushBits, Space, LastFrame
<1>4. QED
  BY <1>2, <1>3

(* Before anything is encoded there is nothing to flush.                   *)
LEMMA VirginHasNoFlush ==
  ASSUME TypeOK, Virgin
  PROVE  FlushBits < 0
<1>1. LastSlot = HeaderBuf - 1 /\ RemainingHeaders = HeaderBuf
        /\ LastSlot \in Slots
  BY SideFacts DEF Virgin, LastSlot, RemainingHeaders, Slots
<1>2. write_timing[LastSlot] - totbit = 0
  BY <1>1 DEF Virgin, TypeOK
<1>3. FrameLength(bitrate_index, padding) <= FrameBits[VbrMax] + 8
  <2>1. bitrate_index \in 1..VbrMax /\ VbrMax \in 1..VbrMax
    BY ReservoirAssumption DEF TypeOK
  <2>2. /\ FrameBits[bitrate_index] <= FrameBits[VbrMax]
        /\ FrameBits[bitrate_index] \in Nat /\ FrameBits[VbrMax] \in Nat
    BY <2>1, ReservoirAssumption DEF Bytes
  <2>3. QED
    BY <2>2 DEF FrameLength
<1>4. FrameLength(bitrate_index, padding) \in Nat /\ FrameBits[VbrMax] \in Nat
  <2>1. bitrate_index \in 1..VbrMax /\ padding \in BOOLEAN
    BY DEF TypeOK
  <2>2. FrameBits[VbrMax] \in Nat
    BY ReservoirAssumption DEF Bytes
  <2>3. QED
    BY <2>1, <2>2, FrameFacts
<1>5. HeaderBuf * SideBits > FrameBits[VbrMax] + 8 /\ HeaderBuf * SideBits \in Int
  BY ReservoirAssumption, SideFacts
<1>6. FlushBits = FrameLength(bitrate_index, padding) - HeaderBuf * SideBits
  BY <1>1, <1>2, <1>4, <1>5 DEF FlushBits
<1>7. QED
  BY <1>3, <1>4, <1>5, <1>6

----------------------------------------------------------------------------
(* Type correctness. *)

LEMMA TypeInit == Init => TypeOK
<1> SUFFICES ASSUME Init PROVE TypeOK
  OBVIOUS
<1>1. bitrate_index \in 1..VbrMax
  BY ReservoirAssumption DEF Init
<1>2. slot_lag \in Int /\ 0 \in Slots /\ ModeGr \in {1, 2}
  BY ReservoirAssumption DEF Init, Slots
<1>0. cfg \in Session
  BY DEF Init
<1>3. /\ ResvSize \in Int /\ ResvMax \in Nat /\ main_data_begin \in Int
      /\ resvDrain_post \in Int /\ used \in Nat /\ totbit \in Int /\ todo \in Int
  <2>1. /\ ResvSize = 0 /\ ResvMax = 0 /\ main_data_begin = 0
        /\ resvDrain_post = 0 /\ used = 0 /\ totbit = 0 /\ todo = 0
    BY DEF Init
  <2>2. QED
    BY <2>1
<1>7. padding \in BOOLEAN /\ fresh \in BOOLEAN
  BY DEF Init
<1>8. pc \in {"idle", "granules", "pre", "main", "post", "flush"}
  BY DEF Init
<1>4. gr \in 0..ModeGr
  BY <1>2 DEF Init
<1>5. h_ptr \in Slots /\ w_ptr \in Slots /\ write_timing \in [Slots -> Int]
  BY <1>2 DEF Init
<1>6. QED
  BY <1>1, <1>2, <1>3, <1>4, <1>5, <1>0, <1>7, <1>8 DEF TypeOK

(* The values a step needs, with their types.                              *)
LEMMA Typed ==
  ASSUME TypeOK
  PROVE  /\ ResvSize \in Int /\ ResvMax \in Nat /\ main_data_begin \in Int
         /\ resvDrain_post \in Int /\ used \in Nat /\ totbit \in Int
         /\ todo \in Int /\ slot_lag \in Int
         /\ h_ptr \in Slots /\ w_ptr \in Slots
         /\ write_timing \in [Slots -> Int]
         /\ write_timing[h_ptr] \in Int /\ write_timing[w_ptr] \in Int
         /\ NextSlot(h_ptr) \in Slots /\ NextSlot(w_ptr) \in Slots
         /\ LastSlot \in Slots
         /\ bitrate_index \in 1..VbrMax /\ padding \in BOOLEAN
         /\ FrameLength(bitrate_index, padding) \in Nat
         /\ MeanBits(bitrate_index, padding) \in Nat
         /\ Room \in Nat
         /\ Room = FrameLength(bitrate_index, padding) - SideBits
         /\ MeanBits(bitrate_index, padding) * ModeGr = Room
         /\ Pending \in Slots /\ Pending \in Nat
         /\ Pending * SideBits \in Int
         /\ Space \in Int
<1>1. /\ ResvSize \in Int /\ ResvMax \in Nat /\ main_data_begin \in Int
      /\ resvDrain_post \in Int /\ used \in Nat /\ totbit \in Int
      /\ todo \in Int /\ slot_lag \in Int
      /\ h_ptr \in Slots /\ w_ptr \in Slots
      /\ write_timing \in [Slots -> Int]
      /\ bitrate_index \in 1..VbrMax /\ padding \in BOOLEAN
  BY DEF TypeOK
<1>2. NextSlot(h_ptr) \in Slots /\ NextSlot(w_ptr) \in Slots
        /\ Pending \in Slots
  BY <1>1, DistFacts DEF Pending
<1>3. LastSlot \in Slots
  BY <1>1, SideFacts DEF LastSlot, Slots
<1>4. /\ FrameLength(bitrate_index, padding) \in Nat
      /\ MeanBits(bitrate_index, padding) \in Nat
      /\ Room \in Nat
      /\ Room = FrameLength(bitrate_index, padding) - SideBits
      /\ MeanBits(bitrate_index, padding) * ModeGr = Room
  BY <1>1, FrameFacts DEF Room
<1>5. Pending \in Nat /\ SideBits \in Int
  BY <1>2, SideFacts DEF Slots
<1>6. Pending * SideBits \in Int
  BY <1>5
<1>7. Space \in Int
  BY <1>1, <1>6 DEF Space
<1>8. QED
  BY <1>1, <1>2, <1>3, <1>4, <1>5, <1>6, <1>7

LEMMA SpaceIsInt == TypeOK' => Space' \in Int
<1> SUFFICES ASSUME TypeOK' PROVE Space' \in Int
  OBVIOUS
<1>1. h_ptr' \in Slots /\ w_ptr' \in Slots /\ totbit' \in Int
        /\ write_timing' \in [Slots -> Int]
  BY DEF TypeOK
<1>2. Dist(w_ptr', h_ptr') \in Slots
  BY <1>1, DistFacts
<1>3. Pending' \in Int /\ SideBits \in Int
  BY <1>2, SideFacts DEF Pending, Slots, Dist
<1>4. Pending' * SideBits \in Int /\ write_timing'[h_ptr'] \in Int
  BY <1>1, <1>3
<1>5. QED
  BY <1>1, <1>4 DEF Space

LEMMA FlushBitsIsInt == TypeOK => FlushBits \in Int
<1> SUFFICES ASSUME TypeOK PROVE FlushBits \in Int
  OBVIOUS
<1>1. LastSlot \in Int /\ w_ptr \in Int /\ HeaderBuf \in Int /\ SideBits \in Int
  BY Typed, SideFacts DEF Slots
<1>2. RemainingHeaders \in Int
  BY <1>1 DEF RemainingHeaders
<1>3. RemainingHeaders * SideBits \in Int
  BY <1>1, <1>2
<1>4. QED
  BY <1>3, Typed DEF FlushBits

LEMMA TypeStep ==
  ASSUME TypeOK, [Next]_vars
  PROVE  TypeOK'
<1> USE DEF TypeOK
<1>0. /\ SideBits \in Nat /\ Sizes \subseteq Nat /\ FracSpF \in Nat /\ Rate \in Nat
      /\ ModeGr \in {1, 2}
  BY ReservoirAssumption, SideFacts
<1>1. CASE CBRFrameBegin
  <2>1. PICK pad \in BOOLEAN : Pad(pad) /\ ResvMax' = ResvMaxOf(bitrate_index, pad)
    BY <1>1 DEF CBRFrameBegin
  <2>2. ResvMaxOf(bitrate_index, pad) \in Nat
    BY ResvMaxFacts
  <2>3. ResvMax' \in Nat /\ padding' \in BOOLEAN /\ slot_lag' \in Int
    BY <1>0, <2>1, <2>2 DEF Pad
  <2>4. gr' \in 0..ModeGr /\ used' \in Nat
    BY <1>0, <1>1 DEF CBRFrameBegin
  <2>5. QED
    BY <1>1, <2>3, <2>4 DEF CBRFrameBegin, streamVars
<1>2. CASE CBRGranule
  <2>1. ResvSize' \in Int /\ used' \in Nat /\ gr' \in 0..ModeGr
    BY <1>0, <1>2 DEF CBRGranule
  <2>2. QED
    BY <1>2, <2>1 DEF CBRGranule, streamVars
<1>3. CASE CBRFrameEnd
  <2>1. MeanBits(bitrate_index, padding) * ModeGr \in Int
    BY Typed
  <2>2. /\ ResvSize' \in Int /\ main_data_begin' \in Int
        /\ resvDrain_post' \in Int /\ todo' \in Int /\ pc' = "pre"
    BY <1>3, <2>1 DEF CBRFrameEnd, ResvFrameEnd, Lesser
  <2>3. QED
    BY <1>3, <2>2 DEF CBRFrameEnd, loopVars, streamVars
<1>4. CASE VBRFrame
  <2>1. PICK bits \in Sizes, j \in 1..VbrMax :
          /\ bitrate_index' = j /\ used' = bits
          /\ ResvMax' = ResvMaxOf(j, FALSE)
          /\ ResvFrameEnd(ResvSize - bits + MeanBits(j, FALSE) * ModeGr,
                          ResvMaxOf(j, FALSE))
    BY <1>4 DEF VBRFrame
  <2> DEFINE room == MeanBits(j, FALSE) * ModeGr
             max  == ResvMaxOf(j, FALSE)
  <2>2. room \in Nat /\ max \in Nat
    BY UnpaddedFacts
  <2>3. ResvFrameEnd(ResvSize - bits + room, max)
    BY <2>1
  <2> HIDE DEF room, max
  <2>5. bits \in Nat
    BY <1>0
  <2>6. /\ ResvSize' \in Int /\ main_data_begin' \in Int
        /\ resvDrain_post' \in Int /\ todo' \in Int /\ pc' = "pre"
    BY <2>2, <2>3, <2>5 DEF ResvFrameEnd, Lesser
  <2>4. QED
    BY <1>0, <1>4, <2>1, <2>2, <2>5, <2>6 DEF VBRFrame, streamVars, max
<1>5. CASE PutHeader
  BY <1>0, <1>5, Typed DEF PutHeader, loopVars, resvVars
<1>6. CASE PutBits
  <2>1. totbit' \in Int /\ todo' \in Int
    BY <1>6, Typed DEF PutBits, Lesser
  <2>2. QED
    BY <1>6, <2>1 DEF PutBits, loopVars, resvVars
<1>7. CASE EncodeSideInfo
  BY <1>7, Typed DEF EncodeSideInfo, loopVars, resvVars
<1>8. CASE DrainPost
  BY <1>8 DEF DrainPost, loopVars, resvVars, streamVars
<1>9. CASE FrameDone
  <2>1. main_data_begin' \in Int /\ ResvSize' \in Int
    BY <1>9, <1>0, Typed DEF FrameDone
  <2>2. totbit' \in Int /\ write_timing' \in [Slots -> Int]
    BY <1>9 DEF FrameDone
  <2>3. QED
    BY <1>0, <1>9, <2>1, <2>2 DEF FrameDone
<1>10. CASE FlushBegin
  <2>1. FlushBits \in Int
    BY FlushBitsIsInt
  <2>2. QED
    BY <1>10, <2>1 DEF FlushBegin, loopVars, resvVars, streamVars
<1>11. CASE FlushEnd
  BY <1>11 DEF FlushEnd, loopVars, streamVars
<1>12. CASE AddDummyByte
  BY <1>12 DEF AddDummyByte, loopVars, resvVars
<1>13. CASE UNCHANGED vars
  BY <1>13 DEF vars, loopVars, resvVars, streamVars
<1>14. QED
  BY <1>1, <1>2, <1>3, <1>4, <1>5, <1>6, <1>7, <1>8, <1>9, <1>10, <1>11, <1>12,
     <1>13 DEF Next

----------------------------------------------------------------------------
(* What the steps do to the stream. *)

LEMMA StreamSame ==
  ASSUME UNCHANGED streamVars
  PROVE  /\ Space' = Space /\ RingInv' = RingInv /\ Virgin' = Virgin
         /\ UNCHANGED <<bitrate_index, padding>> => LastFrame' = LastFrame
  BY DEF streamVars, Space, RingInv, Virgin, LastFrame, InRing, Pending, LastSlot,
         Dist

(* Writing a header leaves the space before the next place as it is.       *)
LEMMA PutHeaderStep ==
  ASSUME TypeOK, RingInv, Space >= todo, PutHeader
  PROVE  /\ RingInv' /\ Space' = Space /\ todo' = todo
         /\ w_ptr # h_ptr
         /\ LastFrame => LastFrame'
<1>1. /\ todo > 0 /\ write_timing[w_ptr] = totbit
      /\ totbit' = totbit + SideBits /\ w_ptr' = NextSlot(w_ptr)
      /\ UNCHANGED <<h_ptr, write_timing, todo, bitrate_index, padding>>
  BY DEF PutHeader, HeaderIsDue, loopVars
<1>2. w_ptr # h_ptr
  <2>1. SUFFICES ASSUME w_ptr = h_ptr PROVE FALSE
    OBVIOUS
  <2>2. Pending = 0
    BY <2>1, Typed, DistFacts DEF Pending
  <2>3. Space = 0
    BY <1>1, <2>1, <2>2, Typed, SideFacts DEF Space
  <2>4. QED
    BY <1>1, <2>3, Typed
<1>3. Pending' = Pending - 1
  BY <1>1, <1>2, Typed, DistFacts DEF Pending
<1>4. Space' = Space
  <2>1. Pending' * SideBits = Pending * SideBits - SideBits
    BY <1>3, Typed, SideFacts, TimesPred
  <2>2. QED
    BY <1>1, <2>1, Typed, SideFacts DEF Space
<1>5. LastSlot' = LastSlot
  BY <1>1 DEF LastSlot
<1>6. InRing(w_ptr) /\ Dist(w_ptr, h_ptr) >= 1
  <2>1. Dist(w_ptr, h_ptr) \in Slots /\ Dist(w_ptr, h_ptr) # 0
    BY <1>2, Typed, DistFacts
  <2>2. Dist(w_ptr, h_ptr) >= 1
    BY <2>1, SideFacts DEF Slots
  <2>3. QED
    BY <2>1, <2>2, SideFacts DEF InRing, Pending, Slots
<1>7. ASSUME NEW s \in Slots, InRing(s)'
      PROVE  InRing(s)
  <2>1. Dist(s, h_ptr) \in Slots /\ Dist(s, h_ptr)' = Dist(s, h_ptr)
    BY <1>1, Typed, DistFacts DEF Dist
  <2>2. QED
    <3>1. Dist(s, h_ptr) \in Int
      BY <2>1, SideFacts DEF Slots
    <3>2. Dist(s, h_ptr) <= Pending - 1
      BY <1>3, <1>7, <2>1 DEF InRing
    <3>3. Pending \in Int
      BY Typed
    <3>4. QED
      BY <3>1, <3>2, <3>3 DEF InRing
<1>8. w_ptr' # h_ptr' => totbit' <= write_timing'[w_ptr']
  <2>1. write_timing[NextSlot(w_ptr)] - write_timing[w_ptr] >= FrameBits[1]
    BY <1>2, <1>6, Typed DEF RingInv
  <2>2. QED
    BY <1>1, <2>1, Typed, SideFacts
<1>9. RingInv'
  <2>1. ASSUME NEW s \in Slots, InRing(s)'
        PROVE  /\ write_timing'[s] % 8 = 0
               /\ write_timing'[h_ptr'] - write_timing'[s]
                    >= Dist(s, h_ptr)' * FrameBits[1]
               /\ s # h_ptr' =>
                    /\ write_timing'[NextSlot(s)] - write_timing'[s] >= FrameBits[1]
                    /\ write_timing'[s] <= write_timing'[LastSlot']
    <3>1. InRing(s) /\ Dist(s, h_ptr)' = Dist(s, h_ptr)
      BY <1>1, <1>7, <2>1 DEF Dist
    <3>2. QED
      BY <1>1, <1>5, <3>1 DEF RingInv
  <2>2. QED
    BY <1>8, <2>1 DEF RingInv
<1>10. ASSUME LastFrame PROVE LastFrame'
  <2>1. FrameLength(bitrate_index, padding)' = FrameLength(bitrate_index, padding)
    BY <1>1 DEF FrameLength
  <2>2. ASSUME w_ptr' = h_ptr' PROVE totbit' >= write_timing'[LastSlot'] + SideBits
    <3>1. NextSlot(w_ptr) = h_ptr
      BY <1>1, <2>2
    <3>2. LastSlot = w_ptr
      <4>1. h_ptr \in 0..(HeaderBuf - 1) /\ w_ptr \in 0..(HeaderBuf - 1)
        BY Typed DEF Slots
      <4>2. QED
        BY <3>1, <4>1, SideFacts DEF LastSlot, NextSlot
    <3>3. QED
      BY <1>1, <1>5, <3>2, Typed, SideFacts
  <2>3. QED
    BY <1>1, <1>5, <1>10, <2>1, <2>2 DEF LastFrame
<1>11. QED
  BY <1>1, <1>2, <1>4, <1>9, <1>10

(* Writing bits uses the space up, one for one.                            *)
LEMMA PutBitsStep ==
  ASSUME TypeOK, RingInv, Space >= todo, PutBits
  PROVE  /\ RingInv' /\ Space' - todo' = Space - todo
         /\ todo' \in Nat
         /\ LastFrame => LastFrame'
<1> DEFINE gap == write_timing[w_ptr] - totbit
           n   == IF gap > 0 THEN Lesser(todo, gap) ELSE todo
<1>1. /\ todo > 0 /\ ~HeaderIsDue
      /\ totbit' = totbit + n /\ todo' = todo - n
      /\ UNCHANGED <<h_ptr, w_ptr, write_timing, bitrate_index, padding>>
  BY DEF PutBits, loopVars
<1>2. InRing(w_ptr)
  BY Typed, DistFacts DEF InRing, Pending
<1>3. gap > 0 /\ gap \in Int
  <2>1. CASE w_ptr = h_ptr
    <3>1. Pending = 0
      BY <2>1, Typed, DistFacts DEF Pending
    <3>2. Space = gap
      BY <2>1, <3>1, Typed, SideFacts DEF Space
    <3>3. QED
      BY <1>1, <3>2, Typed
  <2>2. CASE w_ptr # h_ptr
    <3>1. gap >= 0 /\ write_timing[w_ptr] % 8 = 0
      BY <1>2, <2>2, Typed DEF RingInv
    <3>2. gap # 0
      BY <1>1, <3>1, Typed DEF HeaderIsDue
    <3>3. QED
      BY <3>1, <3>2, Typed
  <2>3. QED
    BY <2>1, <2>2
<1>4. n \in Nat /\ n <= todo /\ n <= gap
  BY <1>1, <1>3, Typed DEF Lesser
<1> HIDE DEF n
<1>5. Pending' = Pending /\ LastSlot' = LastSlot
  BY <1>1 DEF Pending, Dist, LastSlot
<1>6. Space' = Space - n
  BY <1>1, <1>4, <1>5, Typed DEF Space
<1>7. totbit' <= write_timing'[w_ptr']
  BY <1>1, <1>4, Typed
<1>8. RingInv'
  <2>1. \A s \in Slots : InRing(s)' = InRing(s) /\ Dist(s, h_ptr)' = Dist(s, h_ptr)
    BY <1>1, <1>5 DEF InRing, Dist
  <2>2. QED
    BY <1>1, <1>5, <1>7, <2>1 DEF RingInv
<1>9. ASSUME LastFrame PROVE LastFrame'
  <2>1. FrameLength(bitrate_index, padding)' = FrameLength(bitrate_index, padding)
    BY <1>1 DEF FrameLength
  <2>2. w_ptr = h_ptr => totbit' >= write_timing[LastSlot] + SideBits
    BY <1>1, <1>4, <1>9, Typed, SideFacts DEF LastFrame
  <2>3. QED
    BY <1>1, <1>5, <1>9, <2>1, <2>2 DEF LastFrame
<1>10. QED
  BY <1>1, <1>4, <1>6, <1>8, <1>9, Typed

(* Every header that waits keeps room for the data of its frame before the *)
(* place of the last one.                                                  *)
LEMMA PendingNeedsSpace ==
  ASSUME TypeOK, RingInv, w_ptr # h_ptr
  PROVE  /\ Space >= Pending * (FrameBits[1] - SideBits)
         /\ Pending * (FrameBits[1] - SideBits) \in Int
<1> DEFINE cap == FrameBits[1] - SideBits
           a   == Pending * FrameBits[1]
           b   == Pending * SideBits
<1>1. cap \in Nat /\ FrameBits[1] \in Nat /\ SideBits \in Nat
  BY SideFacts
<1>2. InRing(w_ptr) /\ Pending \in Nat
  BY Typed DEF InRing, Pending
<1>3. /\ write_timing[h_ptr] - write_timing[w_ptr] >= a
      /\ totbit <= write_timing[w_ptr]
  BY <1>2, Typed DEF RingInv, Pending
<1>4. a \in Int /\ b \in Int /\ Pending * cap = a - b /\ Pending * cap \in Int
  BY <1>1, <1>2, TimesMinus
<1>5. Space = write_timing[h_ptr] - totbit - b
  BY DEF Space
<1> HIDE DEF a, b
<1>6. Space >= a - b
  BY <1>3, <1>4, <1>5, Typed
<1>7. QED
  BY <1>4, <1>6

(* A ring that is large enough has room for the header that joins.         *)
LEMMA RingHasRoom ==
  ASSUME TypeOK, RingInv, RingIsLarge, Space <= ResvLimit
  PROVE  Pending < HeaderBuf - 1
<1> DEFINE most == HeaderBuf - 1
           cap  == FrameBits[1] - SideBits
<1>1. most \in Nat /\ most > 0
  BY SideFacts
<1>2. Pending \in Nat /\ Pending <= most
  BY Typed, SideFacts DEF Slots
<1>3. SUFFICES ASSUME Pending = most PROVE FALSE
  BY <1>1, <1>2
<1>4. w_ptr # h_ptr
  <2>1. Pending # 0
    BY <1>1, <1>3
  <2>2. QED
    BY <2>1, Typed, DistFacts DEF Pending
<1>5. Space >= Pending * cap /\ Pending * cap \in Int
  BY <1>4, PendingNeedsSpace
<1>6. most * cap > ResvLimit
  BY DEF RingIsLarge
<1>7. Pending * cap > ResvLimit
  BY <1>3, <1>6
<1> HIDE DEF most, cap
<1>8. QED
  BY <1>5, <1>7, Typed, SideFacts

LEMMA EncodeStep ==
  ASSUME TypeOK, RingInv, Pending < HeaderBuf - 1, Space >= 0, EncodeSideInfo
  PROVE  /\ RingInv' /\ LastFrame'
         /\ Space' = Space + Room
         /\ h_ptr' # w_ptr
<1> DEFINE len == FrameLength(bitrate_index, padding)
<1>1. /\ h_ptr' = NextSlot(h_ptr)
      /\ write_timing' = [write_timing EXCEPT ![h_ptr'] = write_timing[h_ptr] + len]
      /\ UNCHANGED <<totbit, w_ptr, bitrate_index, padding>>
  BY DEF EncodeSideInfo, loopVars
<1>2. len \in Nat /\ len % 8 = 0 /\ len >= FrameBits[1] /\ Room = len - SideBits
  BY Typed, FrameFacts
<1>3. /\ h_ptr' \in Slots /\ h_ptr' # w_ptr /\ h_ptr' # h_ptr
      /\ Pending' = Pending + 1
  <2>1. Dist(w_ptr, h_ptr) # HeaderBuf - 1
    BY Typed DEF Pending
  <2>2. Dist(w_ptr, NextSlot(h_ptr)) = Dist(w_ptr, h_ptr) + 1
    BY Typed, DistFacts DEF Pending
  <2>3. w_ptr # NextSlot(h_ptr) /\ h_ptr # NextSlot(h_ptr)
    <3>1. Dist(h_ptr, h_ptr) = 0
      BY Typed, DistFacts
    <3>2. QED
      BY <2>1, <3>1, Typed, DistFacts, SideFacts
  <2>4. QED
    BY <1>1, <2>2, <2>3, Typed DEF Pending
<1>4. /\ write_timing'[h_ptr'] = write_timing[h_ptr] + len
      /\ \A s \in Slots : s # h_ptr' => write_timing'[s] = write_timing[s]
      /\ write_timing'[h_ptr] = write_timing[h_ptr]
      /\ write_timing'[w_ptr] = write_timing[w_ptr]
  BY <1>1, <1>3, Typed
<1>5. Space' = Space + Room
  <2>1. Pending' * SideBits = Pending * SideBits + SideBits
    BY <1>3, Typed, SideFacts, TimesSucc
  <2>2. QED
    BY <1>1, <1>2, <1>4, <2>1, Typed, SideFacts DEF Space
<1>6. LastSlot' = h_ptr
  <2>1. h_ptr \in 0..(HeaderBuf - 1)
    BY Typed DEF Slots
  <2>2. QED
    BY <1>1, <2>1, SideFacts DEF LastSlot, NextSlot
<1>7. LastFrame'
  <2>1. FrameLength(bitrate_index, padding)' = len
    BY <1>1 DEF FrameLength
  <2>2. QED
    BY <1>1, <1>3, <1>4, <1>6, <2>1 DEF LastFrame
<1>8. InRing(h_ptr) /\ write_timing[h_ptr] % 8 = 0
  <2>1. Dist(h_ptr, h_ptr) = 0
    BY Typed, DistFacts
  <2>2. InRing(h_ptr)
    BY <2>1, Typed DEF InRing
  <2>3. QED
    BY <2>2, Typed DEF RingInv
<1>9. totbit' <= write_timing'[w_ptr']
  <2>1. CASE w_ptr # h_ptr
    BY <1>1, <1>4, <2>1 DEF RingInv
  <2>2. CASE w_ptr = h_ptr
    <3>1. Pending = 0
      BY <2>2, Typed, DistFacts DEF Pending
    <3>2. Space = write_timing[h_ptr] - totbit
      BY <3>1, Typed, SideFacts DEF Space
    <3>3. QED
      BY <1>1, <1>4, <2>2, <3>2, Typed
  <2>3. QED
    BY <2>1, <2>2
<1>10. ASSUME NEW s \in Slots, InRing(s)'
       PROVE  /\ write_timing'[s] % 8 = 0
              /\ write_timing'[h_ptr'] - write_timing'[s]
                   >= Dist(s, h_ptr)' * FrameBits[1]
              /\ s # h_ptr' =>
                   /\ write_timing'[NextSlot(s)] - write_timing'[s] >= FrameBits[1]
                   /\ write_timing'[s] <= write_timing'[LastSlot']
  <2>1. CASE s = h_ptr'
    <3>1. write_timing'[s] % 8 = 0
      BY <1>2, <1>4, <1>8, <2>1, Typed
    <3>2. Dist(s, h_ptr)' = 0
      <4>1. Dist(h_ptr', h_ptr') = 0
        BY <1>3, DistFacts
      <4>2. QED
        BY <2>1, <4>1 DEF Dist
    <3>3. Dist(s, h_ptr)' * FrameBits[1] = 0
      BY <3>2, SideFacts
    <3>4. write_timing'[h_ptr'] - write_timing'[s] = 0
      BY <1>2, <1>4, <2>1, Typed
    <3>5. QED
      BY <2>1, <3>1, <3>3, <3>4
  <2>2. CASE s # h_ptr'
    <3>1. Dist(s, h_ptr) \in Slots /\ Dist(s, h_ptr) # HeaderBuf - 1
      BY <1>1, <2>2, Typed, DistFacts
    <3>2. /\ Dist(s, h_ptr)' = Dist(s, h_ptr) + 1
          /\ Dist(s, h_ptr) \in Nat
      <4>1. Dist(s, h_ptr) < HeaderBuf - 1
        BY <3>1, SideFacts DEF Slots
      <4>2. Dist(s, NextSlot(h_ptr)) = Dist(s, h_ptr) + 1
        BY <4>1, Typed, DistFacts
      <4>3. Dist(s, h_ptr)' = Dist(s, NextSlot(h_ptr))
        BY <1>1 DEF Dist
      <4>4. QED
        BY <3>1, <4>2, <4>3, SideFacts DEF Slots
    <3>3. InRing(s)
      <4>1. Dist(s, h_ptr) + 1 <= Pending + 1
        BY <1>3, <1>10, <3>2 DEF InRing
      <4>2. QED
        BY <3>2, <4>1, Typed DEF InRing
    <3>4. /\ write_timing[s] \in Int /\ write_timing'[s] = write_timing[s]
          /\ write_timing[s] % 8 = 0
          /\ write_timing[h_ptr] - write_timing[s] >= Dist(s, h_ptr) * FrameBits[1]
      BY <1>4, <2>2, <3>3, Typed DEF RingInv
    <3>5. /\ Dist(s, h_ptr)' * FrameBits[1] = Dist(s, h_ptr) * FrameBits[1] + FrameBits[1]
          /\ Dist(s, h_ptr) * FrameBits[1] \in Nat
      BY <3>2, SideFacts, TimesSucc
    <3>6. write_timing'[h_ptr'] - write_timing'[s] >= Dist(s, h_ptr)' * FrameBits[1]
      BY <1>2, <1>4, <3>4, <3>5, Typed, SideFacts
    <3>7. write_timing'[s] <= write_timing'[LastSlot']
      BY <1>4, <1>6, <3>4, <3>5, Typed
    <3>8. write_timing'[NextSlot(s)] - write_timing'[s] >= FrameBits[1]
      <4>1. CASE s = h_ptr
        BY <1>1, <1>2, <1>4, <3>4, <4>1, Typed
      <4>2. CASE s # h_ptr
        <5>1. Dist(NextSlot(s), h_ptr) = Dist(s, h_ptr) - 1
          BY <4>2, Typed, DistFacts
        <5>2. Dist(NextSlot(s), h_ptr) # HeaderBuf - 1
          BY <3>1, <5>1, SideFacts DEF Slots
        <5>3. NextSlot(s) \in Slots /\ NextSlot(s) # h_ptr'
          BY <1>1, <5>2, Typed, DistFacts
        <5>4. QED
          BY <1>4, <3>3, <3>4, <4>2, <5>3 DEF RingInv
      <4>3. QED
        BY <4>1, <4>2
    <3>9. QED
      BY <3>4, <3>6, <3>7, <3>8
  <2>3. QED
    BY <2>1, <2>2
<1>11. RingInv'
  BY <1>9, <1>10 DEF RingInv
<1>12. QED
  BY <1>3, <1>5, <1>7, <1>11

(* Moving the whole stream by whole bytes changes no distance.             *)
LEMMA ShiftStep ==
  ASSUME TypeOK, RingInv, NEW d \in Int, d % 8 = 0,
         totbit' = totbit + d,
         write_timing' = [s \in Slots |-> write_timing[s] + d],
         UNCHANGED <<h_ptr, w_ptr, bitrate_index, padding>>
  PROVE  /\ RingInv' /\ Space' = Space
         /\ Virgin => Virgin'
         /\ LastFrame => LastFrame'
         /\ totbit % 8 = 0 => totbit' % 8 = 0
<1>0. /\ h_ptr' = h_ptr /\ w_ptr' = w_ptr /\ totbit' = totbit + d
      /\ totbit \in Int /\ h_ptr \in Slots /\ w_ptr \in Slots /\ LastSlot \in Slots
  BY Typed
<1>1. \A s \in Slots : write_timing[s] \in Int /\ write_timing'[s] = write_timing[s] + d
  BY Typed
<1>2. Pending' = Pending /\ LastSlot' = LastSlot
  BY DEF Pending, Dist, LastSlot
<1>3. Space' = Space
  <2>1. /\ write_timing'[h_ptr'] = write_timing[h_ptr] + d
        /\ write_timing[h_ptr] \in Int
    BY <1>0, <1>1
  <2>2. Pending * SideBits \in Int /\ Pending' * SideBits = Pending * SideBits
    BY <1>2, Typed
  <2>3. Space' = write_timing'[h_ptr'] - totbit' - Pending' * SideBits
    BY DEF Space
  <2>4. Space = write_timing[h_ptr] - totbit - Pending * SideBits
    BY DEF Space
  <2> DEFINE a == write_timing[h_ptr]
             b == Pending * SideBits
  <2>5. a \in Int /\ b \in Int /\ Space' = (a + d) - (totbit + d) - b
          /\ Space = a - totbit - b
    BY <1>0, <2>1, <2>2, <2>3, <2>4
  <2> HIDE DEF a, b
  <2>6. QED
    BY <1>0, <2>5
<1>4. ASSUME NEW s \in Slots, InRing(s)'
      PROVE  /\ write_timing'[s] % 8 = 0
             /\ write_timing'[h_ptr'] - write_timing'[s]
                  >= Dist(s, h_ptr)' * FrameBits[1]
             /\ s # h_ptr' =>
                  /\ write_timing'[NextSlot(s)] - write_timing'[s] >= FrameBits[1]
                  /\ write_timing'[s] <= write_timing'[LastSlot']
  <2>1. InRing(s) /\ Dist(s, h_ptr)' = Dist(s, h_ptr)
    BY <1>2, <1>4 DEF InRing, Dist
  <2>2. NextSlot(s) \in Slots
    BY DistFacts
  <2>3. /\ write_timing[s] % 8 = 0
        /\ write_timing[h_ptr] - write_timing[s] >= Dist(s, h_ptr) * FrameBits[1]
        /\ s # h_ptr => /\ write_timing[NextSlot(s)] - write_timing[s] >= FrameBits[1]
                        /\ write_timing[s] <= write_timing[LastSlot]
    BY <2>1 DEF RingInv
  <2>4. write_timing'[s] % 8 = 0
    BY <1>1, <2>3
  <2>5. write_timing'[h_ptr'] - write_timing'[s] = write_timing[h_ptr] - write_timing[s]
    BY <1>1, Typed
  <2>6. /\ write_timing'[NextSlot(s)] - write_timing'[s]
             = write_timing[NextSlot(s)] - write_timing[s]
        /\ write_timing[s] <= write_timing[LastSlot]
             => write_timing'[s] <= write_timing'[LastSlot']
    BY <1>1, <1>2, <2>2, Typed
  <2>7. QED
    BY <2>1, <2>3, <2>4, <2>5, <2>6
<1>5. w_ptr' # h_ptr' => totbit' <= write_timing'[w_ptr']
  <2>1. /\ write_timing'[w_ptr'] = write_timing[w_ptr] + d
        /\ write_timing[w_ptr] \in Int
    BY <1>0, <1>1
  <2>2. w_ptr # h_ptr => totbit <= write_timing[w_ptr]
    BY DEF RingInv
  <2>3. QED
    BY <1>0, <2>1, <2>2
<1>6. RingInv'
  BY <1>4, <1>5 DEF RingInv
<1>7. Virgin => Virgin'
  BY <1>1, Typed DEF Virgin
<1>8. LastFrame => LastFrame'
  <2>1. FrameLength(bitrate_index, padding)' = FrameLength(bitrate_index, padding)
    BY DEF FrameLength
  <2>2. QED
    <3>1. /\ write_timing'[h_ptr'] = write_timing[h_ptr] + d
          /\ write_timing'[LastSlot'] = write_timing[LastSlot] + d
          /\ write_timing[h_ptr] \in Int /\ write_timing[LastSlot] \in Int
      BY <1>0, <1>1, <1>2
    <3>2. SideBits \in Nat /\ FrameLength(bitrate_index, padding) \in Nat
      BY Typed, SideFacts
    <3>3. SUFFICES ASSUME LastFrame PROVE LastFrame'
      OBVIOUS
    <3>4. /\ write_timing[h_ptr] =
                write_timing[LastSlot] + FrameLength(bitrate_index, padding)
          /\ w_ptr = h_ptr => totbit >= write_timing[LastSlot] + SideBits
      BY <3>3 DEF LastFrame
    <3>5. /\ write_timing'[h_ptr'] =
                write_timing'[LastSlot'] + FrameLength(bitrate_index, padding)
          /\ w_ptr = h_ptr => totbit' >= write_timing'[LastSlot'] + SideBits
      BY <1>0, <3>1, <3>2, <3>4
    <3>6. QED
      BY <1>0, <2>1, <3>5 DEF LastFrame
<1>9. totbit % 8 = 0 => totbit' % 8 = 0
  BY <1>0
<1>10. QED
  BY <1>3, <1>6, <1>7, <1>8, <1>9

----------------------------------------------------------------------------
(* The inductive invariant. *)

LEMMA InvInit == Init => IInv
<1> SUFFICES ASSUME Init PROVE IInv
  OBVIOUS
<1>1. TypeOK
  BY TypeInit
<1>2. /\ ResvSize = 0 /\ ResvMax = 0 /\ main_data_begin = 0 /\ resvDrain_post = 0
      /\ gr = 0 /\ used = 0 /\ totbit = 0 /\ h_ptr = 0 /\ w_ptr = 0
      /\ write_timing = [s \in Slots |-> 0] /\ todo = 0
  BY DEF Init
<1>3. pc = "idle" /\ fresh = TRUE
  BY DEF Init
<1>4. 0 \in Slots /\ LastSlot \in Slots
  BY <1>1, Typed, SideFacts DEF Slots
<1>5. Pending = 0
  BY <1>2 DEF Pending, Dist
<1>6. Virgin
  BY <1>2 DEF Virgin
<1>7. Space = 0
  BY <1>2, <1>4, <1>5, SideFacts DEF Space
<1>8. RingInv
  <2>1. ASSUME NEW s \in Slots, InRing(s) PROVE s = h_ptr /\ Dist(s, h_ptr) = 0
    <3>1. Dist(s, h_ptr) \in Slots
      BY <1>2, <1>4, DistFacts
    <3>2. Dist(s, h_ptr) = 0
      BY <1>5, <2>1, <3>1, SideFacts DEF InRing, Slots
    <3>3. QED
      BY <1>2, <1>4, <3>2, DistFacts
  <2>2. 0 * FrameBits[1] = 0 /\ 0 % 8 = 0 /\ 0 - 0 >= 0
    BY SideFacts
  <2>3. ASSUME NEW s \in Slots, InRing(s)
        PROVE  /\ write_timing[s] % 8 = 0
               /\ write_timing[h_ptr] - write_timing[s] >= Dist(s, h_ptr) * FrameBits[1]
               /\ s = h_ptr
    <3>1. s = h_ptr /\ Dist(s, h_ptr) = 0
      BY <2>1, <2>3
    <3>2. write_timing[s] = 0 /\ write_timing[h_ptr] = 0
      BY <1>2, <1>4
    <3>3. QED
      BY <2>2, <3>1, <3>2
  <2>4. w_ptr = h_ptr
    BY <1>2
  <2>5. QED
    BY <2>3, <2>4 DEF RingInv
<1>9. AtIdle
  BY <1>2, <1>3, <1>6, <1>7 DEF AtIdle
<1>10. ResvMax <= ResvLimit /\ ResvMax % 8 = 0 /\ todo \in Nat
  BY <1>2, SideFacts
<1>11. QED
  BY <1>1, <1>3, <1>8, <1>9, <1>10 DEF IInv

LEMMA CBRFrameBeginStep ==
  ASSUME IInv, TypeOK', CBRFrameBegin
  PROVE  IInv'
<1>1. /\ pc = "idle" /\ pc' = "granules" /\ ~cfg.vbr /\ cfg' = cfg
      /\ UNCHANGED streamVars
      /\ UNCHANGED <<ResvSize, main_data_begin, resvDrain_post, bitrate_index, todo>>
      /\ gr' = 0 /\ used' = 0
  BY DEF CBRFrameBegin
<1>2. AtIdle /\ RingInv /\ TypeOK /\ todo \in Nat /\ ResvMax <= ResvLimit
  BY <1>1 DEF IInv
<1>3. PICK pad \in BOOLEAN : padding' = pad /\ ResvMax' = ResvMaxOf(bitrate_index, pad)
  BY DEF CBRFrameBegin, Pad
<1>4. ResvMax' = ResvMaxOf(bitrate_index, padding)'
  BY <1>1, <1>3 DEF ResvMaxOf, FrameLength
<1>5. ResvMax' \in Nat /\ ResvMax' % 8 = 0 /\ ResvMax' <= ResvLimit
  BY <1>2, <1>3, Typed, ResvMaxFacts
<1>6. RingInv' /\ Space' = Space /\ totbit' = totbit
  BY <1>1, <1>2, StreamSame DEF streamVars
<1>7. 8 * main_data_begin \in 0..ResvLimit
  BY <1>2, Typed, SideFacts DEF AtIdle
<1>8. AtGranules'
  BY <1>1, <1>2, <1>4, <1>6, <1>7, Typed DEF AtIdle, AtGranules
<1>9. QED
  BY <1>1, <1>2, <1>5, <1>6, <1>8 DEF IInv

LEMMA CBRGranuleStep ==
  ASSUME IInv, TypeOK', CBRGranule
  PROVE  IInv'
<1>1. PICK bits \in Sizes :
        /\ bits <= MaxBits(gr, MeanBits(bitrate_index, padding))
        /\ ResvSize' = ResvSize - bits
        /\ used' = used + bits
  BY DEF CBRGranule
<1>2. /\ pc = "granules" /\ pc' = "granules" /\ gr < ModeGr /\ gr' = gr + 1
      /\ UNCHANGED streamVars
      /\ UNCHANGED <<cfg, ResvMax, main_data_begin, resvDrain_post, bitrate_index,
                     padding, todo>>
  BY DEF CBRGranule
<1>3. /\ AtGranules /\ RingInv /\ TypeOK /\ todo \in Nat
      /\ ResvMax <= ResvLimit /\ ResvMax % 8 = 0
  BY <1>2 DEF IInv
<1>4. bits \in Nat /\ gr \in {0, 1}
  <2>1. bits \in Nat /\ ModeGr \in {1, 2}
    BY ReservoirAssumption
  <2>2. gr \in 0..ModeGr
    BY <1>3 DEF TypeOK
  <2>3. QED
    BY <1>2, <2>1, <2>2
<1>5. Mean \in Nat /\ Mean' = Mean
  BY <1>2, <1>3, Typed DEF Mean, MeanBits, RoomOf, FrameLength
<1>6. (IF gr = 0 THEN ResvSize ELSE ResvSize + Mean) >= 0
  BY <1>3, <1>4 DEF AtGranules
<1>7. MaxBits(gr, Mean) <= Mean + (IF gr = 0 THEN ResvSize ELSE ResvSize + Mean)
  BY <1>3, <1>4, <1>5, <1>6, Typed, MaxBitsBound
<1>8. bits <= MaxBits(gr, Mean) /\ MaxBits(gr, Mean) \in Int
  <2>1. GranuleMax \in Nat
    BY ReservoirAssumption
  <2>2. MaxBits(gr, Mean) \in Int
    BY <1>3, <1>4, <1>5, <2>1, Typed DEF MaxBits, Lesser
  <2>3. QED
    BY <1>1, <2>2 DEF Mean
<1>9. bits <= Mean + (IF gr = 0 THEN ResvSize ELSE ResvSize + Mean)
  BY <1>3, <1>4, <1>5, <1>7, <1>8, Typed
<1>10. /\ gr' = 1 => ResvSize' + Mean' >= 0
       /\ gr' = 2 => ResvSize' + 2 * Mean' >= 0
       /\ gr' # 0
  BY <1>1, <1>2, <1>3, <1>4, <1>5, <1>9, Typed
<1>11. RingInv' /\ Space' = Space /\ totbit' = totbit
  BY <1>2, <1>3, StreamSame DEF streamVars
<1>12. ResvMaxOf(bitrate_index, padding)' = ResvMaxOf(bitrate_index, padding)
  BY <1>2 DEF ResvMaxOf, FrameLength
<1>13. ResvSize' = 8 * main_data_begin' - used'
  BY <1>1, <1>2, <1>3, <1>4, Typed DEF AtGranules
<1>14. AtGranules'
  BY <1>2, <1>3, <1>10, <1>11, <1>12, <1>13 DEF AtGranules
<1>15. QED
  BY <1>2, <1>3, <1>11, <1>14 DEF IInv

LEMMA CBRFrameEndStep ==
  ASSUME IInv, TypeOK', CBRFrameEnd
  PROVE  IInv'
<1>1. /\ pc = "granules" /\ pc' = "pre" /\ gr = ModeGr
      /\ UNCHANGED streamVars
      /\ UNCHANGED <<ResvMax, bitrate_index, padding, used>>
  BY DEF CBRFrameEnd, ResvFrameEnd, loopVars
<1>2. /\ AtGranules /\ RingInv /\ TypeOK
      /\ ResvMax <= ResvLimit /\ ResvMax % 8 = 0
  BY <1>1 DEF IInv
<1> DEFINE room == MeanBits(bitrate_index, padding) * ModeGr
           size == ResvSize + room
<1>3. ResvFrameEnd(size, ResvMax) /\ room = Room /\ room \in Nat
  BY <1>2, Typed DEF CBRFrameEnd
<1>4. ResvSize = 8 * main_data_begin - used /\ Space = 8 * main_data_begin
        /\ 8 * main_data_begin \in 0..ResvLimit
  BY <1>2 DEF AtGranules
<1>5. main_data_begin \in Nat
  BY <1>2, <1>4, Typed
<1>6. size >= 0
  <2>1. CASE ModeGr = 1
    <3>1. ResvSize + Mean >= 0
      BY <1>1, <1>2, <2>1 DEF AtGranules
    <3>2. room = Mean
      BY <2>1, <1>2, Typed DEF Mean
    <3>3. QED
      BY <3>1, <3>2
  <2>2. CASE ModeGr = 2
    <3>1. ResvSize + 2 * Mean >= 0
      BY <1>1, <1>2, <2>2 DEF AtGranules
    <3>2. room = 2 * Mean
      BY <2>2, <1>2, Typed DEF Mean
    <3>3. QED
      BY <3>1, <3>2
  <2>3. QED
    BY <2>1, <2>2, ReservoirAssumption
<1> HIDE DEF room
<1>7. size \in Nat
  BY <1>2, <1>3, <1>6, Typed
<1>8. /\ ResvSize' \in 0..ResvMax /\ ResvSize' % 8 = 0
      /\ main_data_begin' \in Nat /\ main_data_begin' <= main_data_begin
      /\ todo' \in Nat /\ resvDrain_post' \in Nat
      /\ 8 * main_data_begin' + todo' = 8 * main_data_begin
      /\ ResvSize' = size - resvDrain_post' - todo'
  BY <1>2, <1>3, <1>5, <1>7, Typed, FrameEndFacts
<1>9. RingInv' /\ Space' = Space
  BY <1>1, <1>2, StreamSame
<1>10. Room' = Room
  BY <1>1 DEF Room, RoomOf, FrameLength
<1>11. Balance'
  BY <1>1, <1>2, <1>3, <1>4, <1>8, <1>10, Typed DEF Balance
<1>12. Quantised'
  BY <1>1, <1>8, <1>11 DEF Quantised
<1>13. /\ 8 * main_data_begin' \in 0..ResvLimit
       /\ Space' = 8 * main_data_begin' + todo'
  <2>1. ResvLimit \in Nat /\ main_data_begin' \in Nat /\ todo' \in Nat
    BY <1>8, SideFacts
  <2>2. 8 * main_data_begin <= ResvLimit
    BY <1>4, <1>5, <2>1
  <2>3. 8 * main_data_begin' + todo' = 8 * main_data_begin
    BY <1>8
  <2>4. 8 * main_data_begin' \in 0..ResvLimit
    BY <1>5, <2>1, <2>2, <2>3, LessStays
  <2>5. QED
    BY <1>4, <1>9, <2>3, <2>4
<1>14. AtPre'
  BY <1>12, <1>13 DEF AtPre
<1>15. QED
  BY <1>1, <1>2, <1>8, <1>9, <1>14 DEF IInv

LEMMA VBRFrameStep ==
  ASSUME IInv, TypeOK', VBRFrame
  PROVE  IInv'
<1>1. /\ pc = "idle" /\ pc' = "pre" /\ padding' = FALSE
      /\ UNCHANGED streamVars
  BY DEF VBRFrame, ResvFrameEnd
<1>2. AtIdle /\ RingInv /\ TypeOK /\ ResvMax <= ResvLimit
  BY <1>1 DEF IInv
<1>3. PICK bits \in Sizes, silence \in BOOLEAN, i \in 1..VbrMax, j \in 1..VbrMax :
        /\ bits <= FullFrameBits(VbrMax, FALSE)
        /\ LowestFit(i, IF silence /\ ~cfg.enforce_min_bitrate THEN 1 ELSE VbrMin,
                     bits)
        /\ ChosenIndex(j, i, bits, IF silence THEN 0 ELSE ResvMaxOf(VbrMax, FALSE))
        /\ bitrate_index' = j
        /\ used' = bits
        /\ ResvMax' = ResvMaxOf(j, FALSE)
        /\ ResvFrameEnd(ResvSize - bits + MeanBits(j, FALSE) * ModeGr,
                        ResvMaxOf(j, FALSE))
  BY DEF VBRFrame
<1>4. bits \in Nat
  BY ReservoirAssumption
<1>5. /\ ResvSize \in Nat /\ ResvSize <= ResvLimit
      /\ ResvSize = 8 * main_data_begin /\ Space = 8 * main_data_begin
      /\ main_data_begin \in Nat
  BY <1>2, Typed, SideFacts DEF AtIdle
<1>6. i <= j /\ bits <= FullFrameBits(j, FALSE)
  <2>1. bits <= FullFrameBits(i, FALSE)
    BY <1>3 DEF LowestFit
  <2>2. i <= j
    <3>1. VbrMax \in Int /\ i \in Int /\ j \in Int
      BY ReservoirAssumption
    <3>2. i = j \/ j \in i..VbrMax
      BY <1>3 DEF ChosenIndex
    <3>3. QED
      BY <3>1, <3>2
  <2>3. FullFrameBits(i, FALSE) <= FullFrameBits(j, FALSE)
    BY <1>5, <2>2, FullMono
  <2>4. FullFrameBits(i, FALSE) \in Int /\ FullFrameBits(j, FALSE) \in Int
    BY <1>5, FullBound
  <2> DEFINE fi == FullFrameBits(i, FALSE)
             fj == FullFrameBits(j, FALSE)
  <2>5. bits <= fi /\ fi <= fj /\ fi \in Int /\ fj \in Int
    BY <2>1, <2>3, <2>4
  <2> HIDE DEF fi, fj
  <2>6. bits <= fj
    BY <1>4, <2>5
  <2>7. QED
    BY <2>2, <2>6 DEF fj
<1> DEFINE room == MeanBits(j, FALSE) * ModeGr
           max  == ResvMaxOf(j, FALSE)
           size == ResvSize - bits + room
<1>7. /\ room = RoomOf(j, FALSE) /\ room \in Nat
      /\ max \in Nat /\ max % 8 = 0 /\ max <= ResvLimit
  BY UnpaddedFacts
<1>8. bits <= room + ResvSize
  <2>1. /\ FullFrameBits(j, FALSE) <= RoomOf(j, FALSE) + ResvSize
        /\ FullFrameBits(j, FALSE) \in Int
    BY <1>5, FullBound
  <2>2. RoomOf(j, FALSE) \in Nat
    BY FrameFacts
  <2> DEFINE full == FullFrameBits(j, FALSE)
             most == RoomOf(j, FALSE)
  <2>3. bits <= full /\ full <= most + ResvSize /\ full \in Int /\ most \in Nat
    BY <1>6, <2>1, <2>2
  <2> HIDE DEF full, most
  <2>4. bits <= most + ResvSize
    BY <1>4, <1>5, <2>3
  <2>5. QED
    BY <1>7, <2>4 DEF most
<1>9. ResvFrameEnd(size, max) /\ ResvMax' = max
  BY <1>3
<1>10. Room' = room
  BY <1>1, <1>3, <1>7 DEF Room, RoomOf, FrameLength
<1> HIDE DEF room, max
<1>11. size \in Nat
  <2>1. room \in Nat /\ bits <= room + ResvSize
    BY <1>7, <1>8
  <2>2. QED
    BY <1>4, <1>5, <2>1
<1>12. /\ ResvSize' \in 0..max /\ ResvSize' % 8 = 0
       /\ main_data_begin' \in Nat /\ main_data_begin' <= main_data_begin
       /\ todo' \in Nat /\ resvDrain_post' \in Nat
       /\ 8 * main_data_begin' + todo' = 8 * main_data_begin
       /\ ResvSize' = size - resvDrain_post' - todo'
  BY <1>5, <1>7, <1>9, <1>11, FrameEndFacts
<1>13. RingInv' /\ Space' = Space
  BY <1>1, <1>2, StreamSame
<1>14. Balance'
  <2>1. room \in Nat /\ used' = bits /\ ResvSize' = size - resvDrain_post' - todo'
    BY <1>3, <1>7, <1>12
  <2>2. /\ todo' \in Nat /\ resvDrain_post' \in Nat /\ main_data_begin' \in Nat
        /\ 8 * main_data_begin' + todo' = ResvSize
    BY <1>5, <1>12
  <2>3. size = ResvSize - bits + room
    OBVIOUS
  <2> HIDE DEF size
  <2>4. ResvSize' = ResvSize - bits + room - resvDrain_post' - todo'
    BY <1>4, <1>5, <2>1, <2>2, <2>3
  <2> DEFINE a == main_data_begin'
             r == ResvSize'
             d == resvDrain_post'
             w == todo'
  <2>5. /\ r = ResvSize - bits + room - d - w /\ 8 * a + w = ResvSize
        /\ ResvSize \in Int /\ a \in Int /\ w \in Int /\ d \in Int
        /\ bits \in Int /\ room \in Int
    <3>1. r = ResvSize - bits + room - d - w
      BY <2>4
    <3>2. 8 * a + w = ResvSize
      BY <2>2
    <3>3. a \in Int /\ w \in Int /\ d \in Int
      BY <2>2
    <3>4. ResvSize \in Int /\ bits \in Int /\ room \in Int
      BY <1>4, <1>5, <2>1
    <3>5. QED
      BY <3>1, <3>2, <3>3, <3>4
  <2> HIDE DEF a, r, d, w
  <2>7. r = 8 * a + room - bits - d
    BY <2>5, Balanced
  <2>8. ResvSize' = 8 * main_data_begin' + room - bits - resvDrain_post'
    BY <2>7 DEF a, r, d
  <2>6. QED
    BY <1>10, <2>1, <2>8 DEF Balance
<1>15. Quantised'
  BY <1>9, <1>12, <1>14 DEF Quantised
<1>16. /\ 8 * main_data_begin' \in 0..ResvLimit
       /\ Space' = 8 * main_data_begin' + todo'
  <2>1. ResvLimit \in Nat /\ main_data_begin' \in Nat /\ todo' \in Nat
    BY <1>12, SideFacts
  <2>2. 8 * main_data_begin <= ResvLimit
    BY <1>5, <2>1
  <2>3. 8 * main_data_begin' + todo' = 8 * main_data_begin
    BY <1>12
  <2>4. 8 * main_data_begin' \in 0..ResvLimit
    BY <1>5, <2>1, <2>2, <2>3, LessStays
  <2>5. QED
    BY <1>5, <1>13, <2>3, <2>4
<1>17. AtPre'
  BY <1>15, <1>16 DEF AtPre
<1>18. QED
  BY <1>1, <1>7, <1>9, <1>12, <1>13, <1>17 DEF IInv

(* While bits are written the space shrinks with what is left to write.    *)
Writing ==
  /\ todo > 0
  /\ UNCHANGED <<cfg, loopVars, resvVars, pc, fresh>>
  /\ RingInv' /\ todo' \in Nat
  /\ Space' - todo' = Space - todo
  /\ LastFrame => LastFrame'

LEMMA WritingStep ==
  ASSUME IInv, TypeOK', Writing
  PROVE  IInv'
<1>0. /\ UNCHANGED <<cfg, loopVars, resvVars, pc, fresh>>
      /\ RingInv' /\ todo' \in Nat
      /\ Space' - todo' = Space - todo
      /\ LastFrame => LastFrame'
  BY DEF Writing
<1>1. /\ UNCHANGED <<ResvSize, ResvMax, main_data_begin, resvDrain_post, pc>>
      /\ UNCHANGED <<bitrate_index, padding, gr, used>>
  BY <1>0 DEF loopVars, resvVars
<1>2. /\ TypeOK /\ ResvMax <= ResvLimit /\ ResvMax % 8 = 0
      /\ Space \in Int /\ todo \in Int /\ Space' \in Int
  BY Typed, SpaceIsInt DEF IInv
<1>3. \A x \in Int : Space = x + todo => Space' = x + todo'
  <2>1. PICK n \in Nat : n = todo'
    BY <1>0
  <2>2. PICK s \in Int : s = Space'
    BY <1>2
  <2>3. s - n = Space - todo
    BY <1>0, <2>1, <2>2
  <2>4. \A x \in Int : Space = x + todo => s = x + n
    BY <1>2, <2>3, Moves
  <2>5. QED
    BY <2>1, <2>2, <2>4
<1>4. /\ ResvSize' = ResvSize /\ resvDrain_post' = resvDrain_post
       /\ main_data_begin' = main_data_begin
  BY <1>1
<1>5. Room' = Room
  BY <1>1 DEF Room, RoomOf, FrameLength
<1>6. Quantised => Quantised'
  BY <1>1, <1>5 DEF Quantised, Balance
<1>7. pc # "idle" /\ pc # "granules"
  BY <1>2 DEF IInv, AtIdle, AtGranules, Writing
<1>8. pc = "pre" => AtPre'
  <2> SUFFICES ASSUME pc = "pre" PROVE AtPre'
    OBVIOUS
  <2>1. AtPre
    BY DEF IInv
  <2>2. main_data_begin \in Int
    BY <1>2, Typed
  <2>3. Space' = 8 * main_data_begin' + todo'
    <3>1. 8 * main_data_begin \in Int /\ Space = 8 * main_data_begin + todo
      BY <2>1, <2>2 DEF AtPre
    <3>2. Space' = 8 * main_data_begin + todo'
      BY <1>3, <3>1
    <3>3. QED
      BY <1>4, <3>2
  <2>4. QED
    BY <1>1, <1>6, <2>1, <2>3 DEF AtPre
<1>9. pc = "main" => AtMain'
  <2> SUFFICES ASSUME pc = "main" PROVE AtMain'
    OBVIOUS
  <2>1. AtMain
    BY DEF IInv
  <2>2. ResvSize \in Int /\ resvDrain_post \in Int
    BY <1>2, Typed
  <2>3. Space' = ResvSize' + resvDrain_post' + todo'
    <3>1. ResvSize + resvDrain_post \in Int /\ Space = ResvSize + resvDrain_post + todo
      BY <2>1, <2>2 DEF AtMain
    <3>2. Space' = ResvSize + resvDrain_post + todo'
      BY <1>3, <3>1
    <3>3. QED
      BY <1>4, <3>2
  <2>4. QED
    BY <1>0, <1>1, <1>6, <2>1, <2>3 DEF AtMain
<1>10. pc = "post" => AtPost'
  <2> SUFFICES ASSUME pc = "post" PROVE AtPost'
    OBVIOUS
  <2>1. AtPost
    BY DEF IInv
  <2>2. ResvSize \in Int
    BY <1>2, Typed
  <2>3. Space' = ResvSize' + todo'
    <3>1. ResvSize \in Int /\ Space = ResvSize + todo
      BY <2>1, <2>2 DEF AtPost
    <3>2. Space' = ResvSize + todo'
      BY <1>3, <3>1
    <3>3. QED
      BY <1>4, <3>2
  <2>4. QED
    BY <1>0, <1>1, <1>6, <2>1, <2>3 DEF AtPost
<1>11. pc = "flush" => AtFlush'
  <2> SUFFICES ASSUME pc = "flush" PROVE AtFlush'
    OBVIOUS
  <2>1. AtFlush
    BY DEF IInv
  <2>2. Space' = todo'
    <3>1. Space = 0 + todo
      BY <1>2, <2>1 DEF AtFlush
    <3>2. Space' = 0 + todo'
      BY <1>3, <3>1
    <3>3. todo' \in Nat
      BY <1>0
    <3>4. QED
      BY <3>2, <3>3, ZeroPlus, Zenon
  <2>3. QED
    BY <1>0, <1>1, <2>1, <2>2 DEF AtFlush
<1>12. QED
  BY <1>0, <1>1, <1>2, <1>7, <1>8, <1>9, <1>10, <1>11 DEF IInv

LEMMA SpaceCovers ==
  ASSUME IInv, todo > 0
  PROVE  Space >= todo
<1>1. /\ TypeOK /\ todo \in Nat /\ Space \in Int /\ ResvSize \in Int
      /\ main_data_begin \in Int /\ resvDrain_post \in Int
  BY Typed DEF IInv
<1>2. pc \in {"idle", "granules", "pre", "main", "post", "flush"}
  BY <1>1 DEF TypeOK
<1>3. pc # "idle" /\ pc # "granules"
  BY <1>1 DEF IInv, AtIdle, AtGranules
<1>4. CASE pc = "pre"
  <2>1. AtPre
    BY <1>4 DEF IInv
  <2>2. Space = 8 * main_data_begin + todo /\ 8 * main_data_begin >= 0
    BY <1>1, <2>1, SideFacts DEF AtPre
  <2>3. QED
    BY <1>1, <2>2
<1>5. CASE pc = "main"
  <2>1. AtMain /\ Quantised
    BY <1>5 DEF IInv, AtMain
  <2>2. /\ Space = ResvSize + resvDrain_post + todo
        /\ ResvSize >= 0 /\ resvDrain_post >= 0
    BY <1>1, <2>1, Typed DEF AtMain, Quantised
  <2>3. QED
    BY <1>1, <2>2
<1>6. CASE pc = "post"
  <2>1. AtPost /\ Quantised
    BY <1>6 DEF IInv, AtPost
  <2>2. Space = ResvSize + todo /\ ResvSize >= 0
    BY <1>1, <2>1, Typed DEF AtPost, Quantised
  <2>3. QED
    BY <1>1, <2>2
<1>7. CASE pc = "flush"
  BY <1>1, <1>7 DEF IInv, AtFlush
<1>8. QED
  BY <1>2, <1>3, <1>4, <1>5, <1>6, <1>7

LEMMA PutStep ==
  ASSUME IInv, TypeOK', PutHeader \/ PutBits
  PROVE  IInv'
<1>1. TypeOK /\ RingInv /\ todo \in Nat
  BY DEF IInv
<1>2. todo > 0 /\ UNCHANGED <<cfg, loopVars, resvVars, pc, fresh>>
  BY DEF PutHeader, PutBits
<1>3. Space >= todo /\ Space \in Int /\ Space' \in Int
  BY <1>1, <1>2, SpaceCovers, SpaceIsInt, Typed
<1>4. CASE PutHeader
  <2>1. /\ RingInv' /\ Space' = Space /\ todo' = todo
        /\ LastFrame => LastFrame'
    BY <1>1, <1>3, <1>4, PutHeaderStep
  <2>2. QED
    BY <1>1, <1>2, <1>3, <2>1, WritingStep DEF Writing
<1>5. CASE PutBits
  <2>1. /\ RingInv' /\ Space' - todo' = Space - todo /\ todo' \in Nat
        /\ LastFrame => LastFrame'
    BY <1>1, <1>3, <1>5, PutBitsStep
  <2>2. QED
    BY <1>2, <2>1, WritingStep DEF Writing
<1>6. QED
  BY <1>4, <1>5

LEMMA EncodeSideInfoStep ==
  ASSUME IInv, TypeOK', RingIsLarge, EncodeSideInfo
  PROVE  IInv' /\ h_ptr' # w_ptr
<1>1. /\ pc = "pre" /\ pc' = "main" /\ todo = 0 /\ todo' = used
      /\ UNCHANGED <<ResvSize, ResvMax, main_data_begin, resvDrain_post>>
      /\ UNCHANGED <<bitrate_index, padding, gr, used>>
  BY DEF EncodeSideInfo, loopVars, resvVars
<1>2. /\ AtPre /\ Quantised /\ RingInv /\ TypeOK
      /\ ResvMax <= ResvLimit /\ ResvMax % 8 = 0
  BY <1>1 DEF IInv, AtPre
<1>3. /\ Space = 8 * main_data_begin /\ Space >= 0 /\ Space <= ResvLimit
      /\ Space \in Int
  <2>1. main_data_begin \in Int /\ ResvLimit \in Nat
    BY <1>2, Typed, SideFacts
  <2>2. Space = 8 * main_data_begin /\ 8 * main_data_begin \in 0..ResvLimit
    BY <1>1, <1>2, <2>1 DEF AtPre
  <2>3. QED
    BY <2>1, <2>2
<1>4. Pending < HeaderBuf - 1
  BY <1>2, <1>3, RingHasRoom
<1>5. RingInv' /\ LastFrame' /\ Space' = Space + Room /\ h_ptr' # w_ptr
  BY <1>2, <1>3, <1>4, EncodeStep
<1>6. Room' = Room /\ Room \in Int
  BY <1>1, <1>2, Typed DEF Room, RoomOf, FrameLength
<1>7. Quantised'
  BY <1>1, <1>2, <1>6 DEF Quantised, Balance
<1>8. Space' = ResvSize' + resvDrain_post' + todo'
  <2>1. ResvSize = 8 * main_data_begin + Room - used - resvDrain_post
    BY <1>2 DEF Quantised, Balance
  <2>2. /\ ResvSize \in Int /\ main_data_begin \in Int /\ used \in Int
        /\ resvDrain_post \in Int
    BY <1>2, Typed
  <2>3. Space + Room = ResvSize + resvDrain_post + used
    BY <1>3, <1>6, <2>1, <2>2
  <2>4. QED
    BY <1>1, <1>5, <2>3
<1>9. AtMain'
  BY <1>5, <1>7, <1>8 DEF AtMain
<1>10. todo' \in Nat
  BY <1>1, <1>2, Typed
<1>11. QED
  BY <1>1, <1>2, <1>5, <1>9, <1>10 DEF IInv

LEMMA DrainPostStep ==
  ASSUME IInv, TypeOK', DrainPost
  PROVE  IInv'
<1>1. /\ pc = "main" /\ pc' = "post" /\ todo = 0 /\ todo' = resvDrain_post
      /\ UNCHANGED streamVars
      /\ UNCHANGED <<ResvSize, ResvMax, main_data_begin, resvDrain_post>>
      /\ UNCHANGED <<bitrate_index, padding, gr, used>>
  BY DEF DrainPost, loopVars, resvVars
<1>2. /\ AtMain /\ Quantised /\ RingInv /\ TypeOK
      /\ ResvMax <= ResvLimit /\ ResvMax % 8 = 0
  BY <1>1 DEF IInv, AtMain
<1>3. RingInv' /\ Space' = Space /\ LastFrame' = LastFrame
  BY <1>1, <1>2, StreamSame
<1>4. Room' = Room
  BY <1>1 DEF Room, RoomOf, FrameLength
<1>5. Quantised' /\ todo' \in Nat
  BY <1>1, <1>2, <1>4 DEF Quantised, Balance
<1>6. Space' = ResvSize' + todo'
  <2>1. ResvSize \in Int /\ resvDrain_post \in Int
    BY <1>2, Typed
  <2>2. QED
    BY <1>1, <1>2, <1>3, <2>1 DEF AtMain
<1>7. AtPost'
  BY <1>2, <1>3, <1>5, <1>6 DEF AtMain, AtPost
<1>8. QED
  BY <1>1, <1>2, <1>3, <1>5, <1>7 DEF IInv

(* A stream with a last frame is not one without any.                      *)
LEMMA LastFrameNotVirgin ==
  ASSUME TypeOK, LastFrame
  PROVE  ~Virgin
<1>1. /\ h_ptr \in Slots /\ LastSlot \in Slots /\ totbit \in Int
      /\ bitrate_index \in 1..VbrMax /\ padding \in BOOLEAN
  BY Typed
<1>2. /\ FrameLength(bitrate_index, padding) \in Nat
      /\ FrameLength(bitrate_index, padding) > 0
  BY <1>1, FrameFacts, SideFacts
<1>3. SUFFICES ASSUME Virgin PROVE FALSE
  OBVIOUS
<1>4. write_timing[h_ptr] = totbit /\ write_timing[LastSlot] = totbit
  BY <1>1, <1>3 DEF Virgin
<1>5. totbit = totbit + FrameLength(bitrate_index, padding)
  BY <1>4 DEF LastFrame
<1>6. QED
  BY <1>1, <1>2, <1>5

(* A whole number of bytes of space is left at a byte boundary.            *)
LEMMA SpaceIsWhole ==
  ASSUME TypeOK, RingInv, Space % 8 = 0
  PROVE  totbit % 8 = 0
<1>1. InRing(h_ptr)
  <2>1. Dist(h_ptr, h_ptr) = 0
    BY Typed, DistFacts
  <2>2. QED
    BY <2>1, Typed DEF InRing
<1>2. write_timing[h_ptr] % 8 = 0
  BY <1>1, Typed DEF RingInv
<1>3. (Pending * SideBits) % 8 = 0
  <2>1. Pending \in Int /\ SideBits \in Nat /\ SideBits % 8 = 0
    BY Typed, SideFacts
  <2>2. QED
    BY <2>1, TimesMod
<1> DEFINE a == write_timing[h_ptr]
           b == Pending * SideBits
           s == Space
<1>4. /\ a \in Int /\ b \in Int /\ s \in Int /\ totbit \in Int
      /\ a % 8 = 0 /\ b % 8 = 0 /\ s % 8 = 0
  BY <1>2, <1>3, Typed
<1>5. s = a - totbit - b
  BY DEF Space
<1> HIDE DEF a, b, s
<1>6. QED
  BY <1>4, <1>5

LEMMA FrameDoneStep ==
  ASSUME IInv, TypeOK', FrameDone
  PROVE  IInv'
<1> DEFINE len  == FrameLength(bitrate_index, padding)
           bits == SideBits + used + resvDrain_post
<1>1. /\ pc = "post" /\ todo = 0 /\ pc' = "idle" /\ todo' = todo
      /\ ResvMax' = ResvMax /\ bitrate_index' = bitrate_index
      /\ padding' = padding /\ h_ptr' = h_ptr /\ w_ptr' = w_ptr
      /\ resvDrain_post' = 0 /\ used' = 0 /\ gr' = 0
      /\ main_data_begin' = main_data_begin + (len - bits) \div 8
      /\ ResvSize' = 8 * main_data_begin'
  BY DEF FrameDone
<1>2. /\ AtPost /\ Quantised /\ LastFrame /\ RingInv /\ TypeOK
      /\ ResvMax <= ResvLimit /\ ResvMax % 8 = 0
  BY <1>1 DEF IInv, AtPost
<1>3. /\ ResvSize \in Int /\ main_data_begin \in Int /\ used \in Int
      /\ resvDrain_post \in Int /\ Room \in Int /\ len \in Int
      /\ Room = len - SideBits /\ SideBits \in Int
  BY <1>2, Typed, SideFacts
<1>4. /\ ResvSize \in 0..ResvMax /\ ResvSize % 8 = 0 /\ Space = ResvSize
      /\ ResvSize = 8 * main_data_begin + Room - used - resvDrain_post
  <2>1. Space = ResvSize + 0
    BY <1>1, <1>2 DEF AtPost
  <2>2. QED
    BY <1>2, <1>3, <2>1 DEF Quantised, Balance
<1> HIDE DEF len
<1>5. 8 * main_data_begin' = ResvSize
  <2>1. len - bits = ResvSize - 8 * main_data_begin
    BY <1>3, <1>4
  <2>2. (ResvSize - 8 * main_data_begin) % 8 = 0
    BY <1>3, <1>4
  <2> DEFINE d == ResvSize - 8 * main_data_begin
  <2>3. 8 * (d \div 8) = d /\ d \in Int
    BY <1>3, <2>2
  <2> HIDE DEF d
  <2>4. main_data_begin' = main_data_begin + d \div 8
    BY <1>1, <2>1 DEF d
  <2>5. 8 * main_data_begin' = 8 * main_data_begin + d
    BY <1>3, <2>3, <2>4
  <2>6. QED
    BY <1>3, <2>5 DEF d
<1>6. totbit % 8 = 0
  BY <1>2, <1>4, SpaceIsWhole
<1>7. /\ RingInv' /\ Space' = Space /\ LastFrame'
      /\ totbit' % 8 = 0
  <2>1. CASE totbit > TotLimit
    <3>1. /\ totbit' = 0
          /\ write_timing' = [s \in Slots |-> write_timing[s] - totbit]
      BY <2>1 DEF FrameDone
    <3> DEFINE d == 0 - totbit
    <3>2. d \in Int /\ d % 8 = 0
      BY <1>2, <1>6, Typed
    <3>3. /\ totbit' = totbit + d
          /\ write_timing' = [s \in Slots |-> write_timing[s] + d]
      BY <1>2, <3>1, Typed
    <3> HIDE DEF d
    <3>4. QED
      BY <1>1, <1>2, <1>6, <3>2, <3>3, ShiftStep
  <2>2. CASE ~(totbit > TotLimit)
    <3>1. UNCHANGED streamVars
      BY <1>1, <2>2 DEF FrameDone, streamVars
    <3>2. QED
      BY <1>1, <1>2, <1>6, <3>1, StreamSame DEF streamVars
  <2>3. QED
    BY <2>1, <2>2
<1>8. ~Virgin'
  <2>1. LastFrame' /\ TypeOK'
    BY <1>7
  <2>2. TypeOK /\ LastFrame => ~Virgin
    BY LastFrameNotVirgin
  <2>3. (TypeOK /\ LastFrame => ~Virgin)'
    BY LastFrameNotVirgin, PTL
  <2>4. QED
    BY <2>1, <2>3
<1>9. ResvSize' = ResvSize
  BY <1>1, <1>5
<1>10. AtIdle'
  BY <1>1, <1>4, <1>7, <1>8, <1>9 DEF AtIdle
<1>11. QED
  BY <1>1, <1>2, <1>7, <1>10 DEF IInv

LEMMA FlushBeginStep ==
  ASSUME IInv, TypeOK', FlushBegin
  PROVE  IInv'
<1>1. /\ pc = "idle" /\ pc' = "flush" /\ FlushBits >= 0 /\ todo' = FlushBits
      /\ UNCHANGED streamVars
      /\ ResvMax' = ResvMax /\ resvDrain_post' = resvDrain_post
      /\ bitrate_index' = bitrate_index /\ padding' = padding
      /\ gr' = gr /\ used' = used
  BY DEF FlushBegin, loopVars, resvVars
<1>2. AtIdle /\ RingInv /\ TypeOK /\ ResvMax <= ResvLimit /\ ResvMax % 8 = 0
  BY <1>1 DEF IInv
<1>3. ~Virgin
  <2>1. Virgin => FlushBits < 0
    BY <1>2, VirginHasNoFlush
  <2>2. FlushBits \in Int
    BY <1>2, FlushBitsIsInt
  <2>3. QED
    BY <1>1, <2>1, <2>2
<1>4. LastFrame
  BY <1>2, <1>3 DEF AtIdle
<1>5. FlushBits = Space /\ Space \in Nat
  <2>1. FlushBits = Space
    BY <1>2, <1>4, FlushIsSpace
  <2>2. QED
    BY <1>1, <1>2, <2>1, Typed
<1>6. RingInv' /\ Space' = Space /\ LastFrame'
  BY <1>1, <1>2, <1>4, StreamSame
<1>7. AtFlush'
  BY <1>1, <1>2, <1>5, <1>6 DEF AtIdle, AtFlush
<1>8. todo' \in Nat
  BY <1>1, <1>5
<1>9. QED
  BY <1>1, <1>2, <1>6, <1>7, <1>8 DEF IInv

LEMMA FlushEndStep ==
  ASSUME IInv, TypeOK', FlushEnd
  PROVE  IInv'
<1>1. /\ pc = "flush" /\ pc' = "idle" /\ todo = 0 /\ todo' = todo
      /\ UNCHANGED streamVars
      /\ ResvMax' = ResvMax /\ resvDrain_post' = resvDrain_post
      /\ bitrate_index' = bitrate_index /\ padding' = padding
      /\ gr' = gr /\ used' = used
      /\ ResvSize' = 0 /\ main_data_begin' = 0 /\ fresh' = TRUE
  BY DEF FlushEnd, loopVars
<1>2. AtFlush /\ RingInv /\ TypeOK /\ ResvMax <= ResvLimit /\ ResvMax % 8 = 0
  BY <1>1 DEF IInv
<1>3. Space = 0
  BY <1>1, <1>2 DEF AtFlush
<1>4. totbit % 8 = 0
  BY <1>2, <1>3, SpaceIsWhole
<1>5. RingInv' /\ Space' = 0 /\ LastFrame' /\ totbit' = totbit
  BY <1>1, <1>2, <1>3, StreamSame DEF AtFlush, streamVars
<1>6. ResvSize' \in 0..ResvMax' /\ ResvSize' = 8 * main_data_begin'
  BY <1>1, <1>2, Typed
<1>7. AtIdle'
  BY <1>1, <1>2, <1>4, <1>5, <1>6 DEF AtFlush, AtIdle
<1>8. QED
  BY <1>1, <1>2, <1>5, <1>7 DEF IInv

LEMMA AddDummyByteStep ==
  ASSUME IInv, TypeOK', AddDummyByte
  PROVE  IInv'
<1>1. /\ pc = "idle" /\ pc' = "idle" /\ fresh /\ todo' = todo
      /\ totbit' = totbit + 8
      /\ write_timing' = [s \in Slots |-> write_timing[s] + 8]
      /\ h_ptr' = h_ptr /\ w_ptr' = w_ptr /\ fresh' = fresh
      /\ bitrate_index' = bitrate_index /\ padding' = padding
      /\ ResvSize' = ResvSize /\ ResvMax' = ResvMax
      /\ main_data_begin' = main_data_begin /\ resvDrain_post' = resvDrain_post
      /\ gr' = gr /\ used' = used
  BY DEF AddDummyByte, loopVars, resvVars
<1>2. /\ AtIdle /\ RingInv /\ TypeOK /\ todo \in Nat
      /\ ResvMax <= ResvLimit /\ ResvMax % 8 = 0
  BY <1>1 DEF IInv
<1>3. /\ RingInv' /\ Space' = Space
      /\ Virgin => Virgin'
      /\ LastFrame => LastFrame'
      /\ totbit % 8 = 0 => totbit' % 8 = 0
  <2>1. 8 \in Int /\ 8 % 8 = 0
    OBVIOUS
  <2>2. QED
    BY <1>1, <1>2, <2>1, ShiftStep
<1>4. AtIdle'
  <2>1. Virgin' \/ LastFrame'
    <3>1. Virgin \/ LastFrame
      BY <1>2 DEF AtIdle
    <3>2. QED
      BY <1>3, <3>1, Zenon
  <2>2. totbit' % 8 = 0 /\ Space' = ResvSize'
    BY <1>1, <1>2, <1>3 DEF AtIdle
  <2>3. QED
    BY <1>1, <1>2, <2>1, <2>2 DEF AtIdle
<1>5. QED
  BY <1>1, <1>2, <1>3, <1>4 DEF IInv

LEMMA InvSame == IInv /\ UNCHANGED vars => IInv'
<1> SUFFICES ASSUME IInv, UNCHANGED vars PROVE IInv'
  OBVIOUS
<1>1. /\ UNCHANGED streamVars
      /\ cfg' = cfg /\ ResvSize' = ResvSize /\ ResvMax' = ResvMax
      /\ main_data_begin' = main_data_begin /\ resvDrain_post' = resvDrain_post
      /\ bitrate_index' = bitrate_index /\ padding' = padding
      /\ slot_lag' = slot_lag /\ gr' = gr /\ used' = used
      /\ todo' = todo /\ pc' = pc /\ fresh' = fresh
  BY DEF vars, loopVars, resvVars
<1>2. /\ Space' = Space /\ RingInv' = RingInv /\ Virgin' = Virgin
      /\ LastFrame' = LastFrame /\ totbit' = totbit
  BY <1>1, StreamSame DEF streamVars
<1>3. TypeOK'
  BY <1>1 DEF IInv, TypeOK, streamVars
<1>4. Quantised => Quantised'
  BY <1>1 DEF Quantised, Balance, Room, RoomOf, FrameLength
<1>5. AtGranules => AtGranules'
  BY <1>1, <1>2 DEF AtGranules, Mean, MeanBits, RoomOf, FrameLength, ResvMaxOf
<1>6. /\ AtIdle => AtIdle'
      /\ AtPre => AtPre'
      /\ AtMain => AtMain'
      /\ AtPost => AtPost'
      /\ AtFlush => AtFlush'
  BY <1>1, <1>2, <1>4 DEF AtIdle, AtPre, AtMain, AtPost, AtFlush
<1>7. /\ RingInv' /\ todo' \in Nat
      /\ ResvMax' <= ResvLimit /\ ResvMax' % 8 = 0
  BY <1>1, <1>2 DEF IInv
<1>8. /\ pc' = "idle" => AtIdle'
      /\ pc' = "granules" => AtGranules'
      /\ pc' = "pre" => AtPre'
      /\ pc' = "main" => AtMain'
      /\ pc' = "post" => AtPost'
      /\ pc' = "flush" => AtFlush'
  <2>1. /\ pc = "idle" => AtIdle
        /\ pc = "granules" => AtGranules
        /\ pc = "pre" => AtPre
        /\ pc = "main" => AtMain
        /\ pc = "post" => AtPost
        /\ pc = "flush" => AtFlush
    BY DEF IInv
  <2>2. QED
    BY <1>1, <1>5, <1>6, <2>1
<1>9. QED
  BY <1>3, <1>7, <1>8 DEF IInv

LEMMA InvStep ==
  ASSUME RingIsLarge, IInv, [Next]_vars
  PROVE  IInv'
<1>1. TypeOK'
  BY TypeStep DEF IInv
<1>2. CASE CBRFrameBegin
  BY <1>1, <1>2, CBRFrameBeginStep
<1>3. CASE CBRGranule
  BY <1>1, <1>3, CBRGranuleStep
<1>4. CASE CBRFrameEnd
  BY <1>1, <1>4, CBRFrameEndStep
<1>5. CASE VBRFrame
  BY <1>1, <1>5, VBRFrameStep
<1>6. CASE PutHeader \/ PutBits
  BY <1>1, <1>6, PutStep
<1>7. CASE EncodeSideInfo
  BY <1>1, <1>7, EncodeSideInfoStep
<1>8. CASE DrainPost
  BY <1>1, <1>8, DrainPostStep
<1>9. CASE FrameDone
  BY <1>1, <1>9, FrameDoneStep
<1>10. CASE FlushBegin
  BY <1>1, <1>10, FlushBeginStep
<1>11. CASE FlushEnd
  BY <1>1, <1>11, FlushEndStep
<1>12. CASE AddDummyByte
  BY <1>1, <1>12, AddDummyByteStep
<1>13. CASE UNCHANGED vars
  BY <1>13, InvSame
<1>14. QED
  BY <1>2, <1>3, <1>4, <1>5, <1>6, <1>7, <1>8, <1>9, <1>10, <1>11, <1>12,
     <1>13 DEF Next

----------------------------------------------------------------------------
(* What the invariant implies. *)

LEMMA InvFindsData == IInv => DecoderFindsData
<1> SUFFICES ASSUME IInv, pc = "pre", todo = 0
             PROVE  Space = 8 * main_data_begin /\ main_data_begin \in 0..MdbMax
  BY DEF DecoderFindsData
<1>1. AtPre /\ TypeOK
  BY DEF IInv
<1>2. main_data_begin \in Int /\ MdbMax \in Nat /\ ResvLimit = 8 * MdbMax
  BY <1>1, Typed, SideFacts
<1>3. Space = 8 * main_data_begin + 0 /\ 8 * main_data_begin \in 0..ResvLimit
  BY <1>1 DEF AtPre
<1>4. QED
  BY <1>2, <1>3

LEMMA InvBooks == IInv => BooksAgree
<1> SUFFICES ASSUME IInv, pc = "idle"
             PROVE  /\ Space = ResvSize
                    /\ ~fresh => FlushBits = ResvSize
                    /\ ResvSize \in 0..ResvMax
                    /\ totbit % 8 = 0
  BY DEF BooksAgree
<1>1. AtIdle /\ TypeOK /\ RingInv
  BY DEF IInv
<1>2. ASSUME ~fresh PROVE FlushBits = Space
  <2>1. LastFrame
    BY <1>1, <1>2 DEF AtIdle
  <2>2. QED
    BY <1>1, <2>1, FlushIsSpace
<1>3. QED
  BY <1>1, <1>2 DEF AtIdle

LEMMA InvNothing == IInv => NothingToRepair
<1> SUFFICES ASSUME IInv, pc = "post", todo = 0
             PROVE  8 * main_data_begin + FrameLength(bitrate_index, padding)
                      - SideBits - used - resvDrain_post = ResvSize
  BY DEF NothingToRepair
<1>1. Balance /\ TypeOK
  BY DEF IInv, AtPost, Quantised
<1> DEFINE len == FrameLength(bitrate_index, padding)
<1>2. /\ ResvSize \in Int /\ main_data_begin \in Int /\ used \in Int
      /\ resvDrain_post \in Int /\ Room \in Int /\ len \in Int
      /\ Room = len - SideBits /\ SideBits \in Int
  BY <1>1, Typed, SideFacts
<1> HIDE DEF len
<1>3. 8 * main_data_begin + len - SideBits - used - resvDrain_post = ResvSize
  BY <1>1, <1>2 DEF Balance
<1>4. QED
  BY <1>3 DEF len

LEMMA InvHeaders == IInv => HeadersInPlace
<1> SUFFICES ASSUME IInv PROVE HeadersInPlace
  OBVIOUS
<1>1. RingInv /\ TypeOK
  BY DEF IInv
<1>2. ASSUME todo > 0, HeaderIsDue, w_ptr = h_ptr PROVE FALSE
  <2>1. Space >= todo
    BY <1>2, SpaceCovers
  <2>2. Pending = 0
    BY <1>1, <1>2, Typed, DistFacts DEF Pending
  <2>3. Space = 0
    BY <1>1, <1>2, <2>2, Typed, SideFacts DEF Space, HeaderIsDue
  <2>4. QED
    BY <1>1, <1>2, <2>1, <2>3, Typed
<1>3. w_ptr # h_ptr => totbit <= write_timing[w_ptr]
  BY <1>1 DEF RingInv
<1>4. QED
  BY <1>2, <1>3 DEF HeadersInPlace

LEMMA InvFlush == IInv => FlushCompletes
<1> SUFFICES ASSUME IInv, pc = "flush", todo = 0
             PROVE  w_ptr = h_ptr /\ totbit = write_timing[h_ptr]
  BY DEF FlushCompletes
<1>1. AtFlush /\ RingInv /\ TypeOK /\ Space = 0
  BY DEF IInv, AtFlush
<1>2. w_ptr = h_ptr
  <2>1. SUFFICES ASSUME w_ptr # h_ptr PROVE FALSE
    OBVIOUS
  <2> DEFINE cap == FrameBits[1] - SideBits
  <2>2. Space >= Pending * cap
    BY <1>1, <2>1, PendingNeedsSpace
  <2>3. Pending \in Nat /\ Pending # 0 /\ cap \in Nat /\ cap > 0
    <3>1. cap \in Nat /\ cap > 0
      BY SideFacts
    <3>2. Pending \in Nat
      BY <1>1, Typed
    <3>3. Pending # 0
      BY <1>1, <2>1, Typed, DistFacts DEF Pending
    <3>4. QED
      BY <3>1, <3>2, <3>3
  <2> HIDE DEF cap
  <2>4. Pending * cap > 0
    BY <2>3
  <2>5. QED
    BY <1>1, <2>2, <2>3, <2>4
<1>3. Pending = 0
  BY <1>1, <1>2, Typed, DistFacts DEF Pending
<1>4. QED
  BY <1>1, <1>2, <1>3, Typed, SideFacts DEF Space

----------------------------------------------------------------------------
(* Theorems. *)

(* Every variable keeps its type, the counts of bits and the ring's two    *)
(* pointers included, whatever the size of the ring.                       *)
THEOREM TypeCorrect == Spec => []TypeOK
<1>1. Init => TypeOK
  BY TypeInit
<1>2. TypeOK /\ [Next]_vars => TypeOK'
  BY TypeStep
<1>3. QED
  BY <1>1, <1>2, PTL DEF Spec

(* The inductive invariant of the encoder with a ring that is large enough.*)
THEOREM Invariance == RingIsLarge => (Spec => []IInv)
<1> SUFFICES ASSUME RingIsLarge PROVE Spec => []IInv
  OBVIOUS
<1>1. Init => IInv
  BY InvInit
<1>2. IInv /\ [Next]_vars => IInv'
  BY InvStep
<1>3. QED
  BY <1>1, <1>2, PTL DEF Spec

(* A frame's main data begins where its side information says.             *)
THEOREM MainDataIsFound == RingIsLarge => (Spec => []DecoderFindsData)
  BY Invariance, InvFindsData, PTL

(* Between frames the reservoir, the flush and the stream agree.           *)
THEOREM CountsAgree == RingIsLarge => (Spec => []BooksAgree)
  BY Invariance, InvBooks, PTL

(* They agree at the end of every frame, too: format_bitstream never has a *)
(* difference to repair.                                                   *)
THEOREM RepairIsIdle == RingIsLarge => (Spec => []ReservoirIsRight)
<1>1. BooksAgree /\ NothingToRepair => ReservoirIsRight
  BY DEF ReservoirIsRight
<1> QED
  BY <1>1, Invariance, InvBooks, InvNothing, PTL

(* The stream never passes the place of a header.                          *)
THEOREM HeadersKeepTheirPlace == RingIsLarge => (Spec => []HeadersInPlace)
  BY Invariance, InvHeaders, PTL

(* A flush completes the last frame.                                       *)
THEOREM FlushIsComplete == RingIsLarge => (Spec => []FlushCompletes)
  BY Invariance, InvFlush, PTL

(* No header ever takes the slot of one that waits.                        *)
THEOREM RingSuffices == RingIsLarge => (Spec => HeadersFit)
<1> SUFFICES ASSUME RingIsLarge PROVE Spec => HeadersFit
  OBVIOUS
<1>1. IInv /\ [Next]_vars => [pc = "pre" /\ pc' = "main" => h_ptr' # w_ptr]_vars
  <2>1. SUFFICES ASSUME IInv, [Next]_vars, pc = "pre", pc' = "main"
                 PROVE  h_ptr' # w_ptr
    OBVIOUS
  <2>2. TypeOK'
    BY <2>1, TypeStep DEF IInv
  <2>3. EncodeSideInfo
    BY <2>1 DEF Next, vars, CBRFrameBegin, CBRGranule, CBRFrameEnd, ResvFrameEnd,
       VBRFrame, PutHeader, PutBits, DrainPost, FrameDone, FlushBegin, FlushEnd,
       AddDummyByte
  <2>4. QED
    BY <2>1, <2>2, <2>3, EncodeSideInfoStep
<1>2. Spec => []IInv
  BY Invariance
<1>3. QED
  BY <1>1, <1>2, PTL DEF Spec, HeadersFit
=============================================================================
