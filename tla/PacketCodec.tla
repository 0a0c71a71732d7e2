----------------------------- MODULE PacketCodec -----------------------------
(***************************************************************************)
(* How RadioProtocol2025 puts numbers into packets: FloatCodec              *)
(* (connection/src/protocol/deku_helpers.rs) and the layout of the payloads *)
(* (connection/src/protocol/proto2025/packet.rs and datagrams.rs).          *)
(*                                                                         *)
(* A codec has 2H codes (H is 1 << (bits - 1)), so 2H - 1 steps from min to *)
(* max.  Numbers are exact: x stands for min + x parts of a step, a step    *)
(* having 2M parts, and the interval ends at Top.  Rounding errors of f32   *)
(* and f64 are left out; f64 holds every scaled value to far less than a    *)
(* part.                                                                   *)
(***************************************************************************)
EXTENDS Integers

Top(H, M) == (2 * H - 1) * (2 * M)
Clamp(x, low, high) == IF x < low THEN low ELSE IF x > high THEN high ELSE x

\* The nearest code above the lowest one, halves up: round does that for float_to_uint,
\* and the epsilon in float_to_int sees to it for numbers below zero as well.
Nearest(x, M) == (x + M) \div (2 * M)

float_to_uint(x, H, M) == Clamp(Nearest(Clamp(x, 0, Top(H, M)), M), 0, 2 * H - 1)
float_from_uint(y, M) == y * (2 * M)

float_to_int(x, H, M) == Clamp(-H + Nearest(Clamp(x, 0, Top(H, M)), M), -H, H - 1)
float_from_int(y, H, M) == (y + H) * (2 * M)

\* The place of 0 in a symmetric interval [-a, a].
Middle(H, M) == (2 * H - 1) * M
-----------------------------------------------------------------------------
(* Which bits a packet has                                                 *)

HEADER_SIZE == 1
PAYLOAD_SIZE == 28
DATAGRAM_CHUNK_SIZE == PAYLOAD_SIZE - 1

\* The bits of every FloatCodec.
POS == 11
VEL == 12
ACC == 13
JERK == 15
ANGLE == 9
ANGLE_VEL == 10
ANGLE_ACC == 14
ANGLE_JERK == 17
DRIBBLER == 8
LOAD_TORQUE == 8
MEASURED == [pos |-> 14, vel |-> 15, angle |-> 14, angle_vel |-> 14]
PATH == [alpha |-> 15, t |-> 15, acc |-> 12, vel |-> 12, slow_down |-> 9]

\* Counter, acknum, datagram.  Then a sequence number, a type tag and a chunk.
PacketHeader == 6 + 1 + 1
DatagramPayload == 1 + 7 + 8 * DATAGRAM_CHUNK_SIZE

\* Start, end, shape and limits of a path; three polynomials of a spline.
TrajectoryPath ==
    (2 * POS + ANGLE + 2 * VEL) + (ANGLE + 2 * VEL)
    + PATH.alpha + PATH.t + PATH.acc + PATH.vel + PATH.slow_down + 1
Spline == 2 * (POS + VEL + ACC + JERK) + ANGLE + ANGLE_VEL + ANGLE_ACC + ANGLE_JERK

\* Halt; Path; GlobalSpline and LocalSpline; after a tag of 4 bits.
Trajectory == {4, 4 + TrajectoryPath, 4 + Spline}

\* time_offset, dribbler, shot_power; six flags; the detection; padding; the trajectory.
RegularCommandPayload(trajectory) ==
    8 + DRIBBLER + 8 + 6 + (2 * POS + ANGLE) + 7 + trajectory

MotorStatus == 3 + 5
KickerStatus == 2 + 6
IMUStatus == 1 + 7
SdStatus == 3 + 5

\* Battery and packet loss; the states; torques; measured values; flags; padding.
RegularResponsePayload ==
    (8 + 8) + (5 * MotorStatus + KickerStatus + IMUStatus + SdStatus) + 5 * LOAD_TORQUE
    + (2 * MEASURED.pos + MEASURED.angle + 2 * MEASURED.vel + MEASURED.angle_vel) + 2 + 16

EchoDatagram == 8 * 100
BoardIdsResponseDatagram == 7 * (3 * 32)
WriteKickCalibrationCommandDatagram == 19 * 8 + 3 * (3 * 32)

\* What DekuPackedSize says of each of them.
Layouts ==
    {[bits |-> PacketHeader, size |-> HEADER_SIZE],
     [bits |-> DatagramPayload, size |-> PAYLOAD_SIZE],
     [bits |-> RegularResponsePayload, size |-> PAYLOAD_SIZE],
     [bits |-> EchoDatagram, size |-> 100],
     [bits |-> BoardIdsResponseDatagram, size |-> 84],
     [bits |-> WriteKickCalibrationCommandDatagram, size |-> 55]}
    \cup {[bits |-> RegularCommandPayload(t), size |-> PAYLOAD_SIZE] : t \in Trajectory}
=============================================================================
