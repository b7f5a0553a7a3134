----------------------------- MODULE MCRedoLog -----------------------------
(* Every log of up to three writes, for RedoLog. *)
EXTENDS RedoLog, TLC

CONSTANTS old

Logs == UNION { [1 .. n -> Writes] : n \in 0 .. 3 }

MCImages == { [fs |-> [x \in Block |-> old], wal |-> w] : w \in Logs }

=============================================================================
