---------------------------- MODULE MCProto2025 ----------------------------
(* Small instances of Proto2025 for TLC.                                    *)
EXTENDS Proto2025, TLC

CONSTANTS short, long, long2

\* One datagram type without payload and one that takes two chunks.
MCCmdSize == short :> 0 @@ long :> 3
\* Only the one without payload.
MCShortCmd == short :> 0
\* Response types of one, two and two chunks.
MCRespSize == short :> 1 @@ long :> 3 @@ long2 :> 4
\* Only a response of two chunks.
MCLongResp == long :> 3
=============================================================================
