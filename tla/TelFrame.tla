------------------------------ MODULE TelFrame ------------------------------
(***************************************************************************)
(* Telemetry framing (telemetry/tel_frame.c): the encoder, and the decoder *)
(* that is fed one byte at a time.  Bytes are digits of base Radix (256 in *)
(* the code), 16-bit values pairs of them; the checksum is a parameter.    *)
(***************************************************************************)
EXTENDS Integers, Sequences

CONSTANTS
  Radix,           \* the number of values of a byte
  Sync1, Sync2,    \* TEL_SYNC1 and TEL_SYNC2
  MaxPayload,      \* TEL_MAX_PAYLOAD
  Crc16(_)         \* tel_crc16 of a sequence of bytes

Byte == 0 .. Radix - 1
Word == 0 .. Radix * Radix - 1          \* uint16_t

High(word) == word \div Radix
Low(word) == word % Radix

ASSUME FrameAssumption ==
  /\ Radix \in Nat \ {0}
  /\ Sync1 \in Byte /\ Sync2 \in Byte /\ Sync1 # Sync2
  /\ MaxPayload \in Word
  /\ \A n \in 0 .. MaxPayload : \A p \in [1 .. n -> Byte] : Crc16(p) \in Word

(* tel_frame_encode, for the payloads it does not refuse.                  *)
Encodable(payload) == Len(payload) <= MaxPayload

Encode(payload) ==
  <<Sync1, Sync2, High(Len(payload)), Low(Len(payload))>>
    \o payload \o <<High(Crc16(payload)), Low(Crc16(payload))>>

-----------------------------------------------------------------------------
(* The decoder.  Its buffer keeps what earlier frames left in it.          *)

DecodeState ==
  {"SYNC1", "SYNC2", "LEN_HI", "LEN_LO", "PAYLOAD", "CRC_HI", "CRC_LO"}

Decoder ==
  [state : DecodeState, payload : [0 .. MaxPayload - 1 -> Byte],
   payload_len : Word, payload_idx : 0 .. MaxPayload, crc_received : Word]

VARIABLES
  dec,        \* tel_decoder_t
  accepted    \* did the last call of tel_decoder_feed return 1?

frameVars == <<dec, accepted>>

(* tel_decoder_init, on a zeroed buffer (its bytes are never read before   *)
(* they are written).                                                      *)
DecoderInit ==
  /\ dec = [state |-> "SYNC1", payload |-> [i \in 0 .. MaxPayload - 1 |-> 0],
            payload_len |-> 0, payload_idx |-> 0, crc_received |-> 0]
  /\ accepted = FALSE

(* The payload the decoder holds.                                          *)
Payload(d) == [i \in 1 .. d.payload_len |-> d.payload[i - 1]]

Continue == accepted' = FALSE

AwaitSync1(byte) ==
  /\ dec.state = "SYNC1"
  /\ dec' = IF byte = Sync1 THEN [dec EXCEPT !.state = "SYNC2"] ELSE dec
  /\ Continue

AwaitSync2(byte) ==
  /\ dec.state = "SYNC2"
  /\ dec' = [dec EXCEPT !.state = IF byte = Sync2 THEN "LEN_HI" ELSE "SYNC1"]
  /\ Continue

TakeLenHigh(byte) ==
  /\ dec.state = "LEN_HI"
  /\ dec' = [dec EXCEPT !.payload_len = byte * Radix, !.state = "LEN_LO"]
  /\ Continue

(* ...Faulty: the bound on the length is off by one, in TakePayload too;   *)
(* ...Stale: the index of an earlier frame is kept; in TakeCrcLow a frame  *)
(* that fails its test leaves the decoder waiting for another checksum.    *)
(* No specification uses them.                                             *)
TakeLenLowFaulty(byte) ==
  LET len == dec.payload_len + byte
  IN /\ dec.state = "LEN_LO"
     /\ dec' = [dec EXCEPT
                  !.payload_len = len,
                  !.payload_idx = IF len \in 1 .. MaxPayload + 1 THEN 0 ELSE @,
                  !.state = IF len > MaxPayload + 1 THEN "SYNC1"
                            ELSE IF len = 0 THEN "CRC_HI" ELSE "PAYLOAD"]
     /\ Continue

TakeLenLowStale(byte) ==
  LET len == dec.payload_len + byte
  IN /\ dec.state = "LEN_LO"
     /\ dec' = [dec EXCEPT
                  !.payload_len = len,
                  !.payload_idx = IF @ >= len THEN 0 ELSE @,
                  !.state = IF len > MaxPayload THEN "SYNC1"
                            ELSE IF len = 0 THEN "CRC_HI" ELSE "PAYLOAD"]
     /\ Continue

TakeLenLow(byte) ==
  LET len == dec.payload_len + byte
  IN /\ dec.state = "LEN_LO"
     /\ dec' = [dec EXCEPT
                  !.payload_len = len,
                  !.payload_idx = IF len \in 1 .. MaxPayload THEN 0 ELSE @,
                  !.state = IF len > MaxPayload THEN "SYNC1"
                            ELSE IF len = 0 THEN "CRC_HI" ELSE "PAYLOAD"]
     /\ Continue

TakePayloadFaulty(byte) ==
  /\ dec.state = "PAYLOAD"
  /\ dec' = [dec EXCEPT
               !.payload[dec.payload_idx] = byte,
               !.payload_idx = @ + 1,
               !.state = IF dec.payload_idx >= dec.payload_len
                         THEN "CRC_HI" ELSE "PAYLOAD"]
  /\ Continue

TakePayload(byte) ==
  /\ dec.state = "PAYLOAD"
  /\ dec' = [dec EXCEPT
               !.payload[dec.payload_idx] = byte,
               !.payload_idx = @ + 1,
               !.state = IF dec.payload_idx + 1 >= dec.payload_len
                         THEN "CRC_HI" ELSE "PAYLOAD"]
  /\ Continue

TakeCrcHigh(byte) ==
  /\ dec.state = "CRC_HI"
  /\ dec' = [dec EXCEPT !.crc_received = byte * Radix, !.state = "CRC_LO"]
  /\ Continue

TakeCrcLowFaulty(byte) ==
  /\ dec.state = "CRC_LO"
  /\ dec' = [dec EXCEPT !.crc_received = @ + byte,
               !.state = IF Crc16(Payload(dec)) = dec.crc_received + byte
                         THEN "SYNC1" ELSE "CRC_HI"]
  /\ accepted' = (Crc16(Payload(dec)) = dec.crc_received + byte)

TakeCrcLow(byte) ==
  /\ dec.state = "CRC_LO"
  /\ dec' = [dec EXCEPT !.crc_received = @ + byte, !.state = "SYNC1"]
  /\ accepted' = (Crc16(Payload(dec)) = dec.crc_received + byte)

(* tel_decoder_feed.                                                       *)
Feed(byte) ==
  \/ AwaitSync1(byte)
  \/ AwaitSync2(byte)
  \/ TakeLenHigh(byte)
  \/ TakeLenLow(byte)
  \/ TakePayload(byte)
  \/ TakeCrcHigh(byte)
  \/ TakeCrcLow(byte)
=============================================================================
