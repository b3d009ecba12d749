---------------------------- MODULE MCCmdParser ----------------------------
(* Three frames with payloads of 4, 5 and 4 bytes; as a length, the text of *)
(* the second fits into g_data, the text of the others does not.            *)
EXTENDS CmdParser
MCPayloads == <<4, 5, 4>>
MCText == [b \in Bytes |-> IF b[1] = 2 THEN 7 ELSE 9]
=============================================================================
