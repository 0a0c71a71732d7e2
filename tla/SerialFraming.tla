---------------------------- MODULE SerialFraming ----------------------------
(***************************************************************************)
(* How a serial port's bytes become packets: the loop of                    *)
(* receive_serial_packets (connection/src/transceivers/serial.rs).  A frame *)
(* is a packet and its checksum in COBS encoding, which has no zero byte; a *)
(* zero byte marks its end.  A byte is named by its place in a frame, and   *)
(* COBS by what it does: FrameLength bytes of one frame in order decode,    *)
(* other bytes do not.  (A frame that lacks its last byte would decode if   *)
(* its checksum happened to be zero; the frames here have another one.)     *)
(***************************************************************************)
EXTENDS Naturals, Sequences, SequencesExt

CONSTANTS Frames,       \* number of frames the robot sends
          FrameLength   \* packet_size + 2, the checksum and the COBS overhead byte

Zero == [frame |-> 0, place |-> 0]

VARIABLES
    line,      \* bytes that have not been read yet
    rx_buf,    \* rx_buf[0..rx_buf_pos]
    packets    \* frames that were passed on in PacketReceived events

vars == <<line, rx_buf, packets>>

Frame(f) == [place \in 1..FrameLength |-> [frame |-> f, place |-> place]]

\* The robot sends frames, each with a delimiter after it, and the line loses nothing.
Init ==
    /\ line = FlattenSeq([f \in 1..Frames |-> Append(Frame(f), Zero)])
    /\ rx_buf = <<>>
    /\ packets = <<>>

\* decode and the checksum: the frame the bytes are, if they are one.
Decodes(bytes, f) == bytes = Frame(f)

\* The first delimiter among the bytes just read: all before it goes, and it stays at the
\* beginning of the buffer.
Reset(bytes, read) ==
    \E first \in Len(rx_buf) + 1..Len(rx_buf) + Len(read) :
        /\ bytes[first] = Zero
        /\ \A earlier \in Len(rx_buf) + 1..first - 1 : bytes[earlier] # Zero
        /\ rx_buf' = SubSeq(bytes, first, Len(bytes))
        /\ UNCHANGED packets

Collect(bytes) ==
    /\ Len(bytes) < FrameLength
    /\ rx_buf' = bytes
    /\ UNCHANGED packets

Complete(bytes) ==
    /\ Len(bytes) = FrameLength
    /\ rx_buf' = <<>>
    /\ \/ \E f \in 1..Frames : Decodes(bytes, f) /\ packets' = Append(packets, f)
       \/ (\A f \in 1..Frames : ~Decodes(bytes, f)) /\ UNCHANGED packets

\* One turn of the loop: read gives as many bytes as there are, but no more than fit in the
\* buffer, which may be none at all.
Read ==
    \E n \in 0..FrameLength - Len(rx_buf) :
        LET read == SubSeq(line, 1, n)
            bytes == rx_buf \o read
        IN  /\ n <= Len(line)
            /\ n = 0 => Len(rx_buf) = FrameLength
            /\ line' = SubSeq(line, n + 1, Len(line))
            /\ \/ Reset(bytes, read)
               \/ Zero \notin ToSet(read) /\ (Collect(bytes) \/ Complete(bytes))

Spec == Init /\ [][Read]_vars

\* "Reset on null byte (cobs packet framing)" (serial.rs:319), and a buffer sized for
\* packet, checksum and overhead byte (serial.rs:271): once all bytes are read, every frame
\* that came in whole has been passed on.
FramesReceived ==
    line = <<>> /\ Len(rx_buf) < FrameLength => packets = [f \in 1..Frames |-> f]
=============================================================================
