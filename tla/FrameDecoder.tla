---------------------------- MODULE FrameDecoder ----------------------------
(***************************************************************************)
(* FrameDecoder::feed of the t32rcl crate (crates/t32rcl/src/link.rs): the *)
(* frames PowerView sends arrive in reads that split and join them at any  *)
(* byte.  Every frame is a header of eight bytes and a payload, filled up  *)
(* to a multiple of eight bytes.                                           *)
(*                                                                         *)
(* A byte is its position in what PowerView sent, so the buffer shows both *)
(* which bytes are decoded and whether they are the ones of one frame.     *)
(***************************************************************************)
EXTENDS Integers, Sequences

CONSTANTS
  PayloadLengths, (* payload lengths PowerView uses                        *)
  MaxFrames,      (* bound on the frames sent                              *)
  ReceiveSize     (* bytes of one socket read at most                      *)

ASSUME DecoderAssumption ==
  /\ PayloadLengths \subseteq Nat /\ MaxFrames \in Nat
  /\ ReceiveSize \in Nat \ {0}

HEADER_LEN == 8
ALIGN64    == 8

VARIABLES
  frames,          (* frames sent: first byte, payload length, type        *)
  end,             (* bytes sent                                           *)
  got,             (* bytes the decoder was fed                            *)
  buffer,          (* FrameDecoder.buffer                                  *)
  pending_padding, (* FrameDecoder.pending_padding                         *)
  phase,           (* between two feeds, inside feed, or after an error    *)
  decoded,         (* history: frames taken from the buffer                *)
  responses        (* responses delivered, by frame; 0 is a corrupt one    *)

frameVars == <<frames, end, got, buffer, pending_padding, phase, decoded, responses>>

Smaller(a, b) == IF a < b THEN a ELSE b

(* align_eight, as encode_frame uses it: bytes up to the next multiple.    *)
align_eight(n) == (ALIGN64 - (n % ALIGN64)) % ALIGN64

EncodedLength(payload) == HEADER_LEN + payload + align_eight(HEADER_LEN + payload)

(* message_len.div_ceil(ALIGN64) * ALIGN64                                 *)
StuffedLength(length) == ((length + ALIGN64 - 1) \div ALIGN64) * ALIGN64

FrameInit ==
  /\ frames = <<>> /\ end = 0 /\ got = 0
  /\ buffer = <<>> /\ pending_padding = 0
  /\ phase = "ready" /\ decoded = 0 /\ responses = <<>>

(* PowerView sends a response, a notification or a type unknown here.      *)
Send ==
  /\ phase # "parsing" /\ Len(frames) < MaxFrames
  /\ \E payload \in PayloadLengths, type \in {"RCL_RESP", "RCL_NOTIFY", "other"} :
       /\ frames' = Append(frames, [start |-> end, payload |-> payload, type |-> type])
       /\ end' = end + EncodedLength(payload)
  /\ UNCHANGED <<got, buffer, pending_padding, phase, decoded, responses>>

(* Mutant: padding that has not arrived is skipped in the buffer.          *)
FeedAll ==
  /\ phase # "parsing"
  /\ \E n \in 1 .. Smaller(ReceiveSize, end - got) :
       /\ buffer' = buffer \o [k \in 1 .. n |-> got + k - 1]
       /\ got' = got + n
  /\ phase' = "parsing" /\ pending_padding' = 0
  /\ UNCHANGED <<frames, end, decoded, responses>>

(* feed: the alignment bytes still missing are dropped, the rest joins the *)
(* buffer.                                                                 *)
Feed ==
  /\ phase # "parsing"
  /\ \E n \in 1 .. Smaller(ReceiveSize, end - got) :
       LET skipped == Smaller(pending_padding, n) IN
       /\ pending_padding' = pending_padding - skipped
       /\ buffer' = buffer \o [k \in 1 .. n - skipped |-> got + skipped + k - 1]
       /\ got' = got + n
  /\ phase' = "parsing"
  /\ UNCHANGED <<frames, end, decoded, responses>>

(* The frame the buffer starts with.  From anywhere else feed reads some   *)
(* other header out of the bytes: frame 0, an empty response, stands for   *)
(* what it makes of them.                                                  *)
AtBuffer ==
  IF \E i \in 1 .. Len(frames) : frames[i].start = buffer[1]
  THEN CHOOSE i \in 1 .. Len(frames) : frames[i].start = buffer[1]
  ELSE 0

Header(i) ==
  IF i = 0 THEN [start |-> 0, payload |-> 0, type |-> "RCL_RESP"] ELSE frames[i]

MessageLength(i) == HEADER_LEN + Header(i).payload

(* The payload handed out is the one that was sent.                        *)
Intact(i) ==
  i # 0 /\ \A k \in 1 .. MessageLength(i) : buffer[k] = frames[i].start + k - 1

(* The buffer holds no complete header, or no complete message.            *)
Incomplete ==
  IF Len(buffer) < HEADER_LEN THEN TRUE
  ELSE Len(buffer) < MessageLength(AtBuffer)

(* One turn of feed's loop that takes a message out of the buffer.         *)
TakeFrame ==
  /\ phase = "parsing" /\ ~Incomplete
  /\ LET i        == AtBuffer
         stuffed  == StuffedLength(MessageLength(i))
         consumed == Smaller(stuffed, Len(buffer))
     IN
     /\ pending_padding' = stuffed - consumed
     /\ buffer' = SubSeq(buffer, consumed + 1, Len(buffer))
     /\ decoded' = i
     /\ responses' = IF Header(i).type = "RCL_RESP"
                     THEN Append(responses, IF Intact(i) THEN i ELSE 0)
                     ELSE responses
     /\ phase' = IF Header(i).type = "other" THEN "failed" ELSE "parsing"
  /\ UNCHANGED <<frames, end, got>>

FeedReturns ==
  /\ phase = "parsing" /\ Incomplete
  /\ phase' = "ready"
  /\ UNCHANGED <<frames, end, got, buffer, pending_padding, decoded, responses>>

FrameNext == Send \/ Feed \/ TakeFrame \/ FeedReturns

FrameSpec == FrameInit /\ [][FrameNext]_frameVars

-----------------------------------------------------------------------------

(* Property: however the reads split and join the frames, the responses    *)
(* delivered are exactly the response frames among those decoded so far,   *)
(* whole and in order (the deviation from the Python client that           *)
(* link.rs:5-9 names); and when feed returns without an error, every frame *)
(* whose payload arrived has been decoded: none waits for its own          *)
(* alignment bytes or for the next frame.                                  *)
ResponsesAsSent ==
  /\ \A k, l \in 1 .. Len(responses) : k < l => responses[k] < responses[l]
  /\ {responses[k] : k \in 1 .. Len(responses)}
       = {i \in 1 .. decoded : frames[i].type = "RCL_RESP"}
  /\ phase = "ready" =>
       \A i \in 1 .. Len(frames) :
         frames[i].start + MessageLength(i) <= got => i <= decoded

=============================================================================
