--------------------------- MODULE LameReservoir ---------------------------
(***************************************************************************)
(* The bit reservoir and the bit stream writer of the MP3 encoder          *)
(* (mpg_full/reservoir.c, bitstream.c, the iteration loops of quantize.c). *)
(*                                                                         *)
(* An MP3 frame has a header at a fixed place of the stream, but the main  *)
(* data of a frame may begin up to main_data_begin bytes before its header *)
(* in room that earlier frames left.  ResvSize and main_data_begin count   *)
(* that room; the writer keeps the headers in a ring with the bit position *)
(* where each belongs (write_timing) and inserts one when the stream       *)
(* reaches it.  Three counts, kept by three pieces of code, must agree or  *)
(* the decoder reads another frame's bits.                                 *)
(*                                                                         *)
(* What the bits say is left out: a granule or a frame is a number of      *)
(* bits.  Constant and variable bit rate (CBR_iteration_loop and           *)
(* VBR_new_iteration_loop) are modelled, the average-bit-rate and the old  *)
(* variable-bit-rate loops are not.                                        *)
(***************************************************************************)
EXTENDS Integers

CONSTANTS
  ModeGr,         \* granules in a frame: 2 in MPEG-1, 1 in MPEG-2
  SideBits,       \* 8 * sideinfo_len: header and side information
  VbrMin, VbrMax, \* least and greatest bit rate index the encoder may use
  FrameBits,      \* bits of an unpadded frame of each bit rate index
  FracSpF, Rate,  \* frac_SpF and samplerate_out: how often a frame is padded
  Constraint,     \* buffer_constraint
  MdbMax,         \* largest main_data_begin: 511 in MPEG-1, 255 in MPEG-2
  GranuleMax,     \* MAX_BITS_PER_GRANULE
  HeaderBuf,      \* MAX_HEADER_BUF
  TotLimit,       \* bit count at which totbit is reset (1000000000)
  Sizes,          \* sizes in bits the quantiser may give a granule or a frame
  TagLimit        \* bound of the model: no tag byte behind this position

Bytes == {n \in Nat : n % 8 = 0}

(* Frame and side information sizes are whole bytes and leave room for     *)
(* data; with two granules the room is split evenly, since it is a whole   *)
(* number of bytes.  A higher index is a longer frame.                     *)
ASSUME ReservoirAssumption ==
  /\ ModeGr \in {1, 2}
  /\ VbrMin \in Nat \ {0} /\ VbrMax \in Nat /\ VbrMin <= VbrMax
  /\ SideBits \in Bytes /\ SideBits > 0
  /\ FrameBits \in [1..VbrMax -> Bytes]
  /\ \A i \in 1..VbrMax : FrameBits[i] > SideBits
  /\ \A i, j \in 1..VbrMax : i <= j => FrameBits[i] <= FrameBits[j]
  /\ FracSpF \in Nat /\ Rate \in Nat /\ FracSpF < Rate
  /\ Constraint \in Bytes /\ FrameBits[VbrMax] <= Constraint
  /\ MdbMax \in Nat /\ GranuleMax \in Nat
  /\ HeaderBuf \in Nat /\ HeaderBuf > 1
  /\ HeaderBuf * SideBits > FrameBits[VbrMax] + 8
  /\ TotLimit \in Nat /\ TagLimit \in Nat
  /\ Sizes \subseteq Nat

VARIABLES
  cfg,            \* the session: vbr (vbr_mtrh, else vbr_off),
                  \* disable_reservoir, enforce_min_bitrate
  \* reservoir.c and the iteration loop
  ResvSize, ResvMax, main_data_begin, resvDrain_post,
  bitrate_index, padding, slot_lag,
  gr,             \* granules of the frame already quantised
  used,           \* bits the quantiser gave to the frame
  \* bitstream.c
  totbit, h_ptr, w_ptr, write_timing,
  todo,           \* bits the current run of putbits2 calls has left to write
  pc,             \* where the encoder is in lame_encode_mp3_frame
  fresh           \* no frame since the last flush: a tag may be written

loopVars   == <<bitrate_index, padding, slot_lag, gr, used>>
resvVars   == <<ResvSize, ResvMax, main_data_begin, resvDrain_post>>
streamVars == <<totbit, h_ptr, w_ptr, write_timing>>
vars == <<cfg, loopVars, resvVars, streamVars, todo, pc, fresh>>

Lesser(a, b) == IF a < b THEN a ELSE b
Slots == 0..(HeaderBuf - 1)
NextSlot(p) == IF p = HeaderBuf - 1 THEN 0 ELSE p + 1
ResvLimit == 8 * MdbMax

(* getframebits: a padded frame is one byte longer. *)
FrameLength(i, pad) == FrameBits[i] + IF pad THEN 8 ELSE 0
RoomOf(i, pad) == FrameLength(i, pad) - SideBits

(* Mutant: the padding byte is not room.                                    *)
MeanBitsUnpadded(i, pad) == RoomOf(i, FALSE) \div ModeGr

MeanBits(i, pad) == RoomOf(i, pad) \div ModeGr

(* Mutant: the width of the main_data_begin field is not a limit.           *)
ResvMaxOfAnyField(i, pad) ==
  IF cfg.disable_reservoir THEN 0 ELSE Constraint - FrameLength(i, pad)

(* ResvFrameBegin: how much reservoir a frame of this length may leave, and *)
(* the bits it may use with the reservoir there is.                         *)
ResvMaxOf(i, pad) ==
  LET room == Lesser(Constraint - FrameLength(i, pad), ResvLimit)
  IN  IF room < 0 \/ cfg.disable_reservoir THEN 0 ELSE room

FullFrameBits(i, pad) ==
  Lesser(MeanBits(i, pad) * ModeGr + Lesser(ResvSize, ResvMaxOf(i, pad)),
         Constraint)

(* ResvMaxBits and on_pe: the bits granule g of a frame may use.  A frame's *)
(* second granule also gets what the first one saved.                       *)
MaxBits(g, mean) ==
  LET size  == IF g = 0 THEN ResvSize ELSE ResvSize + mean
      full  == size * 10 > ResvMax * 9
      add   == IF full THEN size - (ResvMax * 9) \div 10 ELSE 0
      targ  == IF full THEN mean + add
               ELSE IF cfg.disable_reservoir THEN mean ELSE (mean * 9) \div 10
      extra == Lesser(size, (ResvMax * 6) \div 10) - add
  IN  Lesser(targ + (IF extra < 0 THEN 0 ELSE extra), GranuleMax)

(* ResvFrameEnd: size is the reservoir with the frame's room added and its *)
(* bits taken off.  What is not a whole byte or more than max is stuffing, *)
(* put as far as possible behind the previous frame's data.                *)
ResvFrameEnd(size, max) ==
  LET over     == size - (size % 8) - max
      stuffing == (size % 8) + IF over > 0 THEN over ELSE 0
      pre      == Lesser(8 * main_data_begin, stuffing) \div 8
  IN  /\ ResvSize' = size - stuffing
      /\ main_data_begin' = main_data_begin - pre
      /\ resvDrain_post' = stuffing - 8 * pre
      /\ todo' = 8 * pre
      /\ pc' = "pre"

----------------------------------------------------------------------------
(* The iteration loops. *)

(* lame_encode_mp3_frame decides about padding before it quantises. *)
Pad(pad) ==
  /\ pad = (slot_lag < FracSpF)
  /\ padding' = pad
  /\ slot_lag' = (slot_lag - FracSpF) + IF pad THEN Rate ELSE 0

(* CBR_iteration_loop up to the granules. *)
CBRFrameBegin ==
  /\ ~cfg.vbr /\ pc = "idle"
  /\ \E pad \in BOOLEAN : /\ Pad(pad)
                          /\ ResvMax' = ResvMaxOf(bitrate_index, pad)
  /\ gr' = 0 /\ used' = 0
  /\ pc' = "granules" /\ fresh' = FALSE
  /\ UNCHANGED <<cfg, ResvSize, main_data_begin, resvDrain_post, bitrate_index,
                 streamVars, todo>>

(* One granule: outer_loop stays within its target, ResvAdjust takes the   *)
(* bits off the reservoir.                                                 *)
CBRGranule ==
  /\ pc = "granules" /\ gr < ModeGr
  /\ \E bits \in Sizes :
       /\ bits <= MaxBits(gr, MeanBits(bitrate_index, padding))
       /\ ResvSize' = ResvSize - bits
       /\ used' = used + bits
  /\ gr' = gr + 1
  /\ UNCHANGED <<cfg, ResvMax, main_data_begin, resvDrain_post, bitrate_index,
                 padding, slot_lag, streamVars, todo, pc, fresh>>

CBRFrameEnd ==
  /\ pc = "granules" /\ gr = ModeGr
  /\ ResvFrameEnd(ResvSize + MeanBits(bitrate_index, padding) * ModeGr, ResvMax)
  /\ UNCHANGED <<cfg, ResvMax, loopVars, streamVars, fresh>>

(* VBR_new_iteration_loop: the lowest index from low on whose frame can    *)
(* hold the bits; then, with a reservoir to fill, the highest one that     *)
(* leaves no more than spare unused.                                       *)
LowestFit(i, low, bits) ==
  /\ i \in low..VbrMax
  /\ i = VbrMax \/ bits <= FullFrameBits(i, FALSE)
  /\ \A k \in low..(i - 1) : bits > FullFrameBits(k, FALSE)

ChosenIndex(j, i, bits, spare) ==
  IF spare = 0 THEN j = i
  ELSE /\ j \in i..VbrMax
       /\ j = i \/ FullFrameBits(j, FALSE) - bits <= spare
       /\ \A k \in (j + 1)..VbrMax : FullFrameBits(k, FALSE) - bits > spare

VBRFrame ==
  /\ cfg.vbr /\ pc = "idle"
  /\ padding' = FALSE
  /\ \E bits \in Sizes, silence \in BOOLEAN, i, j \in 1..VbrMax :
       /\ bits <= FullFrameBits(VbrMax, FALSE)
       /\ LowestFit(i, IF silence /\ ~cfg.enforce_min_bitrate THEN 1 ELSE VbrMin, bits)
       /\ ChosenIndex(j, i, bits,
                      IF silence THEN 0 ELSE ResvMaxOf(VbrMax, FALSE))
       /\ bitrate_index' = j
       /\ used' = bits
       /\ ResvMax' = ResvMaxOf(j, FALSE)
       /\ ResvFrameEnd(ResvSize - bits + MeanBits(j, FALSE) * ModeGr,
                       ResvMaxOf(j, FALSE))
  /\ fresh' = FALSE
  /\ UNCHANGED <<cfg, slot_lag, gr, streamVars>>

----------------------------------------------------------------------------
(* putbits2: at a byte boundary the header that is due is put first; then  *)
(* bits follow up to the place of the next one.                            *)

HeaderIsDue == totbit % 8 = 0 /\ write_timing[w_ptr] = totbit

PutHeader ==
  /\ todo > 0 /\ HeaderIsDue
  /\ totbit' = totbit + SideBits
  /\ w_ptr' = NextSlot(w_ptr)
  /\ UNCHANGED <<cfg, loopVars, resvVars, h_ptr, write_timing, todo, pc, fresh>>

PutBits ==
  /\ todo > 0 /\ ~HeaderIsDue
  /\ LET gap == write_timing[w_ptr] - totbit
         n   == IF gap > 0 THEN Lesser(todo, gap) ELSE todo
     IN  totbit' = totbit + n /\ todo' = todo - n
  /\ UNCHANGED <<cfg, loopVars, resvVars, h_ptr, w_ptr, write_timing, pc, fresh>>

(* The header joins the ring: its slot is the one h_ptr already gave a     *)
(* place, and the next slot gets the place behind this frame.              *)
EncodeSideInfo ==
  /\ pc = "pre" /\ todo = 0
  /\ h_ptr' = NextSlot(h_ptr)
  /\ write_timing' = [write_timing EXCEPT ![NextSlot(h_ptr)] =
       write_timing[h_ptr] + FrameLength(bitrate_index, padding)]
  /\ todo' = used
  /\ pc' = "main"
  /\ UNCHANGED <<cfg, loopVars, resvVars, totbit, w_ptr, fresh>>

DrainPost ==
  /\ pc = "main" /\ todo = 0
  /\ todo' = resvDrain_post
  /\ pc' = "post"
  /\ UNCHANGED <<cfg, loopVars, resvVars, streamVars, fresh>>

(* compute_flushbits: what would complete the last frame. *)
LastSlot == IF h_ptr = 0 THEN HeaderBuf - 1 ELSE h_ptr - 1

RemainingHeaders == LET n == 1 + LastSlot - w_ptr
                    IN  IF LastSlot < w_ptr THEN n + HeaderBuf ELSE n

(* Mutant: the headers that wait are not part of the frames to complete.    *)
FlushBitsAllData ==
  write_timing[LastSlot] - totbit + FrameLength(bitrate_index, padding)

FlushBits ==
  LET gap == write_timing[LastSlot] - totbit
  IN  gap + FrameLength(bitrate_index, padding)
        - IF gap >= 0 THEN RemainingHeaders * SideBits ELSE 0

(* The rest of format_bitstream: the room the frame leaves, the repair of  *)
(* ResvSize if the counts differ, and the reset of a large bit count.      *)
FrameDone ==
  /\ pc = "post" /\ todo = 0
  /\ LET bits == SideBits + used + resvDrain_post
     IN  main_data_begin' = main_data_begin +
           (FrameLength(bitrate_index, padding) - bits) \div 8
  /\ ResvSize' = 8 * main_data_begin'
  /\ resvDrain_post' = 0 /\ used' = 0 /\ gr' = 0
  /\ IF totbit > TotLimit
     THEN /\ totbit' = 0
          /\ write_timing' = [s \in Slots |-> write_timing[s] - totbit]
     ELSE UNCHANGED <<totbit, write_timing>>
  /\ pc' = "idle"
  /\ UNCHANGED <<cfg, ResvMax, bitrate_index, padding, slot_lag, h_ptr, w_ptr,
                 todo, fresh>>

----------------------------------------------------------------------------
(* flush_bitstream: fill the last frame with ancillary data. *)
FlushBegin ==
  /\ pc = "idle" /\ FlushBits >= 0
  /\ todo' = FlushBits
  /\ pc' = "flush"
  /\ UNCHANGED <<cfg, loopVars, resvVars, streamVars, fresh>>

FlushEnd ==
  /\ pc = "flush" /\ todo = 0
  /\ ResvSize' = 0 /\ main_data_begin' = 0
  /\ pc' = "idle" /\ fresh' = TRUE
  /\ UNCHANGED <<cfg, ResvMax, resvDrain_post, loopVars, streamVars, todo>>

(* Mutant: only the stream moves.                                           *)
AddDummyByteAlone ==
  /\ pc = "idle" /\ fresh /\ totbit < TagLimit
  /\ totbit' = totbit + 8
  /\ UNCHANGED <<cfg, loopVars, resvVars, h_ptr, w_ptr, write_timing, todo, pc, fresh>>

(* add_dummy_byte: a byte of a tag, written between two streams of frames, *)
(* moves the place of every header.                                        *)
AddDummyByte ==
  /\ pc = "idle" /\ fresh /\ totbit < TagLimit
  /\ totbit' = totbit + 8
  /\ write_timing' = [s \in Slots |-> write_timing[s] + 8]
  /\ UNCHANGED <<cfg, loopVars, resvVars, h_ptr, w_ptr, todo, pc, fresh>>

----------------------------------------------------------------------------
Session == [vbr : BOOLEAN, disable_reservoir : BOOLEAN,
            enforce_min_bitrate : BOOLEAN]

Init ==
  /\ cfg \in Session
  /\ ResvSize = 0 /\ ResvMax = 0 /\ main_data_begin = 0 /\ resvDrain_post = 0
  /\ bitrate_index \in IF cfg.vbr THEN {1} ELSE VbrMin..VbrMax
  /\ padding = FALSE /\ slot_lag = FracSpF
  /\ gr = 0 /\ used = 0
  /\ totbit = 0 /\ h_ptr = 0 /\ w_ptr = 0
  /\ write_timing = [s \in Slots |-> 0]
  /\ todo = 0 /\ pc = "idle" /\ fresh = TRUE

Next ==
  \/ CBRFrameBegin \/ CBRGranule \/ CBRFrameEnd \/ VBRFrame
  \/ PutHeader \/ PutBits \/ EncodeSideInfo \/ DrainPost \/ FrameDone
  \/ FlushBegin \/ FlushEnd \/ AddDummyByte

Spec == Init /\ [][Next]_vars

----------------------------------------------------------------------------
(* Properties *)

TypeOK ==
  /\ cfg \in Session
  /\ ResvSize \in Int /\ ResvMax \in Nat /\ main_data_begin \in Int
  /\ resvDrain_post \in Int
  /\ bitrate_index \in 1..VbrMax /\ padding \in BOOLEAN /\ slot_lag \in Int
  /\ gr \in 0..ModeGr /\ used \in Nat
  /\ totbit \in Int /\ h_ptr \in Slots /\ w_ptr \in Slots
  /\ write_timing \in [Slots -> Int]
  /\ todo \in Int
  /\ pc \in {"idle", "granules", "pre", "main", "post", "flush"}
  /\ fresh \in BOOLEAN

(* Headers of the ring from slot s up to slot p; those from w_ptr on are   *)
(* not in the stream yet.                                                  *)
Dist(s, p) == IF p >= s THEN p - s ELSE p - s + HeaderBuf
Pending == Dist(w_ptr, h_ptr)

(* Bits the stream still takes before the place of the next header. *)
Space == write_timing[h_ptr] - totbit - Pending * SideBits

(* Where the side information of a frame says its main data begin is where *)
(* the writer stands: main_data_begin bytes of data, headers not counted,  *)
(* before the frame's own header.  The field can hold the number.          *)
DecoderFindsData ==
  pc = "pre" /\ todo = 0 =>
    /\ Space = 8 * main_data_begin
    /\ main_data_begin \in 0..MdbMax

(* Between frames the three counts agree, so format_bitstream's two checks *)
(* ("Internal buffer inconsistency", "bit reservoir error") never report:  *)
(* the bits that would flush the stream, the reservoir and main_data_begin;*)
(* and the reservoir is a whole number of bytes within its maximum.        *)
BooksAgree ==
  pc = "idle" =>
    /\ Space = ResvSize
    /\ ~fresh => FlushBits = ResvSize
    /\ ResvSize \in 0..ResvMax
    /\ totbit % 8 = 0

(* At the end of the last frame's bits, before the counts are corrected,   *)
(* what is about to be main_data_begin is what the reservoir says.         *)
NothingToRepair ==
  pc = "post" /\ todo = 0 =>
    8 * main_data_begin + FrameLength(bitrate_index, padding)
      - SideBits - used - resvDrain_post = ResvSize

(* The reservoir is counted three times and never has to be put right.     *)
ReservoirIsRight == BooksAgree /\ NothingToRepair

(* The stream never passes the place of a header (the assert in putbits2), *)
(* and never takes a header that is not encoded yet.                       *)
HeadersInPlace ==
  /\ w_ptr # h_ptr => totbit <= write_timing[w_ptr]
  /\ todo > 0 /\ HeaderIsDue => w_ptr # h_ptr

(* Enough slots for the frames a full reservoir spans, and for one more:   *)
(* the header that joins the ring before any of them is put.               *)
RingIsLarge == (HeaderBuf - 1) * (FrameBits[1] - SideBits) > ResvLimit

(* A header that joins the ring never takes the slot of one that waits     *)
(* ("MAX_HEADER_BUF too small").                                            *)
HeadersFit == [][pc = "pre" /\ pc' = "main" => h_ptr' # w_ptr]_vars

(* After a flush the last frame is complete in the stream and nothing of   *)
(* it waits (the assert in flush_bitstream).                               *)
FlushCompletes ==
  pc = "flush" /\ todo = 0 => w_ptr = h_ptr /\ totbit = write_timing[h_ptr]
=============================================================================
