------------------------------ MODULE TelLink ------------------------------
(***************************************************************************)
(* The link from the host to the ECU: the host sends commands, one frame   *)
(* after the other, over a line that may alter, lose or insert bytes, and  *)
(* the ECU passes every byte it receives to tel_process_byte               *)
(* (telemetry/tel_send.c).  The host and the line are not part of the      *)
(* repository: the host frames with tel_frame_encode.                      *)
(***************************************************************************)
EXTENDS TelFrame

CONSTANTS
  Commands,       \* the payloads the host sends
  SetThrottle,    \* TEL_CMD_SET_THROTTLE
  MaxErrors       \* how many errors the line makes

ASSUME LinkAssumption ==
  /\ Commands \subseteq Seq(Byte) /\ \A c \in Commands : Encodable(c)
  /\ SetThrottle \in Byte /\ MaxErrors \in Nat

VARIABLES
  throttle_override, has_throttle_override,   \* of tel_ctx_t
  command,    \* what the host is sending or has just sent
  pos,        \* bytes of its frame that have left the host
  errors,     \* errors the line has made
  (* History variables, read by the properties only.                       *)
  met,        \* the state in which the frame met the decoder
  intact,     \* the frame suffered no error
  recent      \* the last bytes the ECU received

ctxVars == <<throttle_override, has_throttle_override>>
vars == <<frameVars, ctxVars, command, pos, errors, met, intact, recent>>

Frame == Encode(command)
Sent == pos = Len(Frame)

Init ==
  /\ DecoderInit
  /\ throttle_override = 0 /\ has_throttle_override = FALSE
  /\ command \in Commands /\ pos = 0
  /\ errors = 0 /\ met = "SYNC1" /\ intact = TRUE
  /\ recent = <<>>

-----------------------------------------------------------------------------
DispatchFaulty ==
  IF accepted' /\ dec'.payload_len >= 1 /\ dec'.payload[0] = SetThrottle
  THEN throttle_override' = dec'.payload[1] /\ has_throttle_override' = TRUE
  ELSE UNCHANGED ctxVars

(* What tel_process_byte does with the decoder's answer.  The length must  *)
(* cover a tel_throttle_cmd_t, which is two bytes long.                    *)
Dispatch ==
  IF accepted' /\ dec'.payload_len >= 2 /\ dec'.payload[0] = SetThrottle
  THEN throttle_override' = dec'.payload[1] /\ has_throttle_override' = TRUE
  ELSE UNCHANGED ctxVars

(* tel_process_byte.                                                       *)
ProcessByte(byte) ==
  /\ Feed(byte) /\ Dispatch
  /\ recent' = IF Len(recent) = MaxPayload + 2
               THEN Append(Tail(recent), byte) ELSE Append(recent, byte)

Begin ==
  /\ Sent
  /\ command' \in Commands /\ pos' = 0
  /\ met' = dec.state /\ intact' = TRUE
  /\ UNCHANGED <<frameVars, ctxVars, errors, recent>>

Transmit ==
  /\ ~Sent
  /\ ProcessByte(Frame[pos + 1])
  /\ pos' = pos + 1
  /\ UNCHANGED <<command, errors, met, intact>>

Err == errors < MaxErrors /\ errors' = errors + 1

Corrupt ==
  /\ ~Sent /\ Err /\ intact' = FALSE
  /\ \E byte \in Byte \ {Frame[pos + 1]} : ProcessByte(byte)
  /\ pos' = pos + 1
  /\ UNCHANGED <<command, met>>

Drop ==
  /\ ~Sent /\ Err /\ intact' = FALSE
  /\ pos' = pos + 1
  /\ UNCHANGED <<frameVars, ctxVars, command, met, recent>>

(* A byte before a frame leaves the frame itself intact.                   *)
Insert ==
  /\ Err /\ intact' = (intact /\ pos = 0)
  /\ \E byte \in Byte : ProcessByte(byte)
  /\ met' = IF pos = 0 THEN dec'.state ELSE met
  /\ UNCHANGED <<command, pos>>

Next == Begin \/ Transmit \/ Corrupt \/ Drop \/ Insert

Spec == Init /\ [][Next]_vars

(* The host keeps sending commands and the ECU keeps reading; errors need  *)
(* not happen.                                                             *)
FairSpec == Spec /\ WF_vars(Begin) /\ WF_vars(Transmit)

-----------------------------------------------------------------------------
(* Properties.                                                             *)

TypeOK ==
  /\ dec \in Decoder /\ accepted \in BOOLEAN
  /\ throttle_override \in Byte /\ has_throttle_override \in BOOLEAN
  /\ command \in Commands /\ pos \in 0 .. Len(Frame)
  /\ errors \in 0 .. MaxErrors
  /\ met \in DecodeState /\ intact \in BOOLEAN
  /\ recent \in Seq(Byte) /\ Len(recent) <= MaxPayload + 2

(* Whatever arrives, a byte is only ever stored inside the buffer and      *)
(* inside the announced length.                                            *)
StoreInBounds ==
  dec.state = "PAYLOAD" =>
    dec.payload_idx < dec.payload_len /\ dec.payload_len <= MaxPayload

(* The payload handed over is what this frame brought, the bytes received  *)
(* before its checksum: nothing of an earlier frame is left in it.         *)
PayloadFresh ==
  accepted =>
    Payload(dec) = SubSeq(recent, Len(recent) - 1 - dec.payload_len, Len(recent) - 2)

(* A frame that meets a decoder at rest and suffers no error is accepted,  *)
(* on its last byte and not before, with the payload the host sent.        *)
FramesDelivered ==
  intact /\ met = "SYNC1" /\ pos > 0 =>
    /\ accepted <=> Sent
    /\ Sent => Payload(dec) = command

(* A frame can mislead a decoder that has missed its start: where two of   *)
(* its bytes look like a start, and when its last one looks like Sync1, so *)
(* that the next frame's own Sync1 is taken for a failed second byte.      *)
Misleading(c) ==
  \E i \in 3 .. Len(c) + 5 : Encode(c)[i] = Sync1 /\ Encode(c)[i + 1] = Sync2

Trailing(c) == Low(Crc16(c)) = Sync1

(* A frame that finds the decoder waiting for a second sync byte is lost,  *)
(* but the loss ends with it: when it has passed, the decoder is at rest.  *)
LossEnds ==
  /\ intact /\ Sent /\ met \in {"SYNC1", "SYNC2"}
  /\ ~Misleading(command) /\ ~Trailing(command)
  => dec.state = "SYNC1"

(* As long as the line makes no errors, the override comes from a throttle *)
(* command, never from a byte that a longer command left in the buffer.    *)
OverrideCommanded ==
  has_throttle_override /\ errors = 0 =>
    \E c \in Commands : Len(c) >= 2 /\ c[1] = SetThrottle /\ c[2] = throttle_override

(* However the line has damaged earlier frames, once it stops the host is  *)
(* heard again and again, provided that it stops sending frames that look  *)
(* like a start inside, and that not all its frames end in Sync1.          *)
ResyncsUnlessMisled ==
  <>[]~Misleading(command) /\ []<>~Trailing(command) => []<>accepted

-----------------------------------------------------------------------------
(* Statements of the documentation.                                        *)

(* test/test_telemetry.cpp:56 (DecodeGarbagePrefix) feeds garbage, then a  *)
(* frame, and expects the frame to be decoded: a frame that suffers no     *)
(* error itself is accepted with its last byte.                            *)
IntactAccepted == [][~Sent /\ Sent' /\ intact' => accepted']_vars

(* doc/api/telemetry.rst:53 "decoder resyncs on SYNC1/SYNC2": whatever the *)
(* host sends, it is heard again and again once the line stops erring.     *)
Resyncs == []<>accepted
=============================================================================
