------------------------------- MODULE TcpFrames -------------------------------
(***************************************************************************)
(* One direction of a TcpStreamConnection                                  *)
(* (src/p2vera/source/tcpstream.cpp): send_data codes a message as a frame *)
(* of bytes, the socket holds what was sent and not read, and              *)
(* process_buffer decodes byte by byte. The end that connected has a       *)
(* blocking socket, the end that accepted one that does not block and may  *)
(* take only a part of a frame.                                            *)
(***************************************************************************)
EXTENDS Naturals, Sequences, SequencesExt

CONSTANTS Messages,  \* serialised messages: sequences of bytes, none empty
          SocketBuf, \* bytes the socket holds
          MaxRcvBuf, \* MAX_RCV_BUF
          MaxFrames  \* bound: messages sent

ASSUME FramesAssumption ==
  /\ Messages \subseteq Seq(0..255) /\ <<>> \notin Messages
  /\ SocketBuf \in Nat /\ MaxRcvBuf \in Nat /\ MaxFrames \in Nat

FrameStart == 251  \* 0xFB
FrameEnd == 254    \* 0xFE
FrameEscape == 252 \* 0xFC

VARIABLES
  blocking,  \* the sending end connected
  can_send,  \* opened
  socket,    \* bytes sent and not yet read
  bps, body, \* the decoder: buf_proc_state, cur_buf
  frames,    \* history: messages handed to send_data while it could
  cut,       \* history: a frame was sent in part
  got,       \* messages the decoder passed on
  exited     \* the receiver called exit(4)

sender == <<blocking, can_send, socket>>
decoder == <<bps, body>>
frameVars == <<sender, decoder, frames, cut, got, exited>>

FramesInit ==
  /\ blocking \in BOOLEAN
  /\ can_send = TRUE
  /\ socket = <<>>
  /\ bps = "unknown" /\ body = <<>>
  /\ frames = <<>> /\ cut = FALSE
  /\ got = <<>>
  /\ exited = FALSE

\* Mutant of Coded: the start of a frame is not escaped.
CodedEndOnly(b) == IF b = FrameEnd THEN <<FrameEscape, 206>> ELSE <<b>>

Coded(b) ==
  CASE b = FrameStart -> <<FrameEscape, 203>> \* 0xCB
    [] b = FrameEnd -> <<FrameEscape, 206>>   \* 0xCE
    [] b = FrameEscape -> <<FrameEscape, FrameEscape>>
    [] OTHER -> <<b>>

\* Two zero bytes stand where the CRC should.
Coding(m) ==
  <<FrameStart>> \o FlattenSeq([i \in DOMAIN m |-> Coded(m[i])]) \o <<0, 0, FrameEnd>>

Room == SocketBuf - Len(socket)

\* A message for a closed connection is refused before it is coded.
SendFrame(m) ==
  /\ ~exited /\ can_send
  /\ Len(frames) < MaxFrames
  /\ Len(Coding(m)) <= Room
  /\ socket' = socket \o Coding(m)
  /\ frames' = Append(frames, m)
  /\ UNCHANGED <<blocking, can_send, decoder, cut, got, exited>>

\* A short count of send is taken for success.
SendPart(m) ==
  /\ ~exited /\ can_send
  /\ ~blocking
  /\ Len(frames) < MaxFrames
  /\ 0 < Room /\ Room < Len(Coding(m))
  /\ socket' = socket \o SubSeq(Coding(m), 1, Room)
  /\ frames' = Append(frames, m)
  /\ cut' = TRUE
  /\ UNCHANGED <<blocking, can_send, decoder, got, exited>>

\* EAGAIN closes the connection for sending, for good.
SendOverflow ==
  /\ ~exited /\ can_send
  /\ ~blocking
  /\ Room = 0
  /\ can_send' = FALSE
  /\ UNCHANGED <<blocking, socket, decoder, frames, cut, got, exited>>

(***************************************************************************)
(* process_buffer, for the next byte.                                      *)
(***************************************************************************)

Byte == Head(socket)
Read == ~exited /\ socket # <<>> /\ socket' = Tail(socket)
SenderKept == UNCHANGED <<blocking, can_send, frames, cut>>

\* Anything before a start is skipped; the start opens an empty body.
ReadOutside ==
  /\ Read
  /\ bps = "unknown"
  /\ bps' = IF Byte = FrameStart THEN "body" ELSE "unknown"
  /\ body' = <<>>
  /\ SenderKept /\ UNCHANGED <<got, exited>>

Stored(b) ==
  /\ body' = Append(body, b)
  /\ exited' = (Len(body) + 1 >= MaxRcvBuf)
  /\ UNCHANGED got

ReadBody ==
  /\ Read
  /\ bps = "body"
  /\ Byte \notin {FrameStart, FrameEnd, FrameEscape}
  /\ Stored(Byte)
  /\ UNCHANGED bps /\ SenderKept

ReadEscape ==
  /\ Read
  /\ bps = "body" /\ Byte = FrameEscape
  /\ bps' = "escape"
  /\ SenderKept /\ UNCHANGED <<body, got, exited>>

Decoded(b) ==
  CASE b = 203 -> {FrameStart}
    [] b = 206 -> {FrameEnd}
    [] b = FrameEscape -> {FrameEscape}
    [] OTHER -> {}

ReadEscaped ==
  /\ Read
  /\ bps = "escape"
  /\ bps' = "body"
  /\ IF Decoded(Byte) = {}
       THEN exited' = TRUE /\ UNCHANGED <<body, got>>
       ELSE \E b \in Decoded(Byte) : Stored(b)
  /\ SenderKept

\* Mutant of Payload: a check sum of one byte.
PayloadOfShortCrc(s) == SubSeq(s, 1, Len(s) - 1)

\* The last two bytes are left out unread.
Payload(s) == SubSeq(s, 1, Len(s) - 2)

ReadEnd ==
  /\ Read
  /\ bps = "body" /\ Byte = FrameEnd
  /\ bps' = "unknown"
  /\ IF Len(body) < 1
       THEN exited' = TRUE /\ UNCHANGED got
       ELSE got' = Append(got, Payload(body)) /\ UNCHANGED exited
  /\ UNCHANGED body /\ SenderKept

ReadStart ==
  /\ Read
  /\ bps = "body" /\ Byte = FrameStart
  /\ exited' = TRUE
  /\ UNCHANGED <<decoder, got>> /\ SenderKept

FramesNext ==
  \/ \E m \in Messages : SendFrame(m) \/ SendPart(m)
  \/ SendOverflow
  \/ ReadOutside \/ ReadBody \/ ReadEscape \/ ReadEscaped \/ ReadEnd \/ ReadStart

FramesSpec == FramesInit /\ [][FramesNext]_frameVars

(***************************************************************************)
(* Properties.                                                             *)
(***************************************************************************)

\* What the decoder passes on are the messages that were sent, whole and in
\* order, whatever bytes they hold and wherever the socket was full.
FramesWhole == IsPrefix(got, frames)

Fits(m) == Len(m) + 2 < MaxRcvBuf

\* The receiver exits only behind a frame that was sent in part or that is too
\* long for its buffer: the sender of this code never provokes the other exits.
ExitExplained == exited => cut \/ \E i \in DOMAIN frames : ~Fits(frames[i])
================================================================================
