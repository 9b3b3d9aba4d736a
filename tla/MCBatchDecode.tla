--------------------------- MODULE MCBatchDecode ---------------------------
(* A small instance of BatchDecode.  With these constants frames of more    *)
(* than six bytes are sized, a record is full after two or three ops, and   *)
(* the engine takes keys and values of at most one byte.                    *)
EXTENDS BatchDecode

(* Three payload lengths: empty, one and two bytes.                         *)
MCPayloads == {<<>>, <<1>>, <<2, 0>>}

(* Every frame of up to eight bytes.                                        *)
MCFrames == UNION {[1..k -> Byte] : k \in 0..8}
=============================================================================
