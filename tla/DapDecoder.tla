----------------------------- MODULE DapDecoder -----------------------------
(***************************************************************************)
(* DapDecoder::feed of the tracebridge crate                               *)
(* (crates/tracebridge/src/dap/protocol.rs): messages of a Content-Length  *)
(* header, the separator of four bytes, and a body, cut at any byte by the *)
(* reads of either side of the debug adapter proxy.  Bytes are positions,  *)
(* as in module FrameDecoder.                                              *)
(***************************************************************************)
EXTENDS Integers, Sequences

CONSTANTS
  HeaderLengths,    (* lengths of the headers the peer sends               *)
  BodyLengths,      (* lengths of the bodies it sends                      *)
  MaxMessages,      (* bound on the messages sent                          *)
  MaxHeaderBytes,   (* MAX_HEADER_BYTES                                    *)
  MaxMessageBytes,  (* MAX_MESSAGE_BYTES                                   *)
  ReadSize          (* bytes of one socket read at most                    *)

ASSUME DapDecoderAssumption ==
  /\ HeaderLengths \subseteq Nat \ {0} /\ BodyLengths \subseteq Nat
  /\ MaxMessages \in Nat /\ MaxHeaderBytes \in Nat /\ MaxMessageBytes \in Nat
  /\ ReadSize \in Nat \ {0}

SEPARATOR_LEN == 4

VARIABLES
  sent,      (* messages sent: first byte, header, body, well-formed       *)
  length,    (* bytes sent                                                 *)
  fed,       (* bytes the decoder was fed                                  *)
  held,      (* DapDecoder.buffer                                          *)
  step,      (* between two feeds, inside feed, or after an error          *)
  messages,  (* decoded by this feed, not returned yet                     *)
  delivered  (* returned by the feeds so far                               *)

dapDecoderVars == <<sent, length, fed, held, step, messages, delivered>>

Lesser(a, b) == IF a < b THEN a ELSE b

DapDecoderInit ==
  /\ sent = <<>> /\ length = 0 /\ fed = 0 /\ held = <<>>
  /\ step = "ready" /\ messages = <<>> /\ delivered = <<>>

(* encode_message on the other side, or a peer that sends something else:  *)
(* a header without a valid Content-Length, a body that is no JSON object. *)
SendMessage ==
  /\ step # "parsing" /\ Len(sent) < MaxMessages
  /\ \E header \in HeaderLengths, body \in BodyLengths,
        kind \in {"object", "bad_header", "bad_body"} :
       /\ sent' = Append(sent, [start |-> length, header |-> header, body |-> body,
                                kind |-> kind])
       /\ length' = length + header + SEPARATOR_LEN + body
  /\ UNCHANGED <<fed, held, step, messages, delivered>>

(* Mutant: the messages of the feed before are returned once more.         *)
KeepMessages ==
  /\ step = "ready"
  /\ \E n \in 1 .. Lesser(ReadSize, length - fed) :
       /\ held' = held \o [k \in 1 .. n |-> fed + k - 1]
       /\ fed' = fed + n
  /\ step' = "parsing"
  /\ UNCHANGED <<sent, length, messages, delivered>>

FeedChunk ==
  /\ step = "ready"
  /\ \E n \in 1 .. Lesser(ReadSize, length - fed) :
       /\ held' = held \o [k \in 1 .. n |-> fed + k - 1]
       /\ fed' = fed + n
  /\ step' = "parsing" /\ messages' = <<>>
  /\ UNCHANGED <<sent, length, delivered>>

(* The message the buffer starts with.  A buffer that starts anywhere else *)
(* is not decodable.                                                       *)
AtFront == {i \in 1 .. Len(sent) : held # <<>> /\ sent[i].start = held[1]}

(* find(&self.buffer, b"\r\n\r\n")                                         *)
SeparatorFound == \E i \in AtFront : Len(held) >= sent[i].header + SEPARATOR_LEN

MessageEnd(i) == sent[i].header + SEPARATOR_LEN + sent[i].body

HeaderTooLarge ==
  IF SeparatorFound THEN \E i \in AtFront : sent[i].header > MaxHeaderBytes
  ELSE Len(held) > MaxHeaderBytes

(* The errors found before the body is looked at.                          *)
HeaderRefused ==
  \/ HeaderTooLarge
  \/ held # <<>> /\ AtFront = {}
  \/ /\ SeparatorFound
     /\ \E i \in AtFront : sent[i].kind = "bad_header" \/ sent[i].body > MaxMessageBytes

BodyComplete == SeparatorFound /\ \E i \in AtFront : Len(held) >= MessageEnd(i)

(* feed returns the error; the messages it decoded before are dropped.     *)
FeedFails ==
  /\ step = "parsing"
  /\ \/ HeaderRefused /\ held' = held
     \/ /\ ~HeaderRefused /\ BodyComplete
        /\ \E i \in AtFront :
             /\ sent[i].kind = "bad_body"
             /\ held' = SubSeq(held, MessageEnd(i) + 1, Len(held))
  /\ step' = "failed" /\ messages' = <<>>
  /\ UNCHANGED <<sent, length, fed, delivered>>

TakeMessage ==
  /\ step = "parsing" /\ ~HeaderRefused /\ BodyComplete
  /\ \E i \in AtFront :
       /\ sent[i].kind = "object"
       /\ messages' = Append(messages, i)
       /\ held' = SubSeq(held, MessageEnd(i) + 1, Len(held))
  /\ UNCHANGED <<sent, length, fed, step, delivered>>

FeedReturnsMessages ==
  /\ step = "parsing" /\ ~HeaderRefused /\ ~BodyComplete
  /\ step' = "ready"
  /\ delivered' = delivered \o messages
  /\ UNCHANGED <<sent, length, fed, held, messages>>

DapDecoderNext ==
  SendMessage \/ FeedChunk \/ FeedFails \/ TakeMessage \/ FeedReturnsMessages

DapDecoderSpec == DapDecoderInit /\ [][DapDecoderNext]_dapDecoderVars

-----------------------------------------------------------------------------

(* The messages before the first one that is refused for what it says.     *)
Sound(i) ==
  \A j \in 1 .. i :
    /\ sent[j].kind = "object"
    /\ sent[j].header <= MaxHeaderBytes /\ sent[j].body <= MaxMessageBytes

(* Messages are delivered in the order they were sent, each once, without  *)
(* a gap, and none that is malformed or above a limit (feed).              *)
MessagesInOrder ==
  \A k \in 1 .. Len(delivered) : delivered[k] = k /\ Sound(k)

(* When feed returns, every complete sound message has been delivered, for *)
(* any split of the bytes into reads.                                      *)
CompleteMessagesDelivered ==
  step = "ready" =>
    \A i \in 1 .. Len(sent) :
      Sound(i) /\ sent[i].start + MessageEnd(i) <= fed => i <= Len(delivered)

(* A feed fails only for what the peer sent: with sound messages whose     *)
(* header is at most MaxHeaderBytes - 3 bytes long it never does.  (The    *)
(* length check of an incomplete header also counts the part of the        *)
(* separator that arrived, so the last three lengths depend on the reads.) *)
FailsForACause ==
  step = "failed" =>
    \E i \in 1 .. Len(sent) : ~Sound(i) \/ sent[i].header > MaxHeaderBytes - 3

(* Property: all three, for any split of the bytes into reads.             *)
MessagesDelivered == MessagesInOrder /\ CompleteMessagesDelivered /\ FailsForACause
=============================================================================
