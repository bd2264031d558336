----------------------------- MODULE ByteQueue -----------------------------
(***************************************************************************)
(* What a pipe promises to its readers and writers (kernel/pipe.c): a      *)
(* bounded first-in first-out queue of bytes, written only while the read  *)
(* end is open, each byte handed to exactly one reader.                    *)
(***************************************************************************)
EXTENDS Naturals, Sequences

CONSTANTS Reader,   \* processes that may read
          Byte,     \* the values of a byte
          Capacity

VARIABLES queue,      \* the bytes written and not yet read, oldest first
          ch,         \* the last byte each reader took
          readopen,   \* the read end is open
          writeopen   \* the write end is open

vars == <<queue, ch, readopen, writeopen>>

Init ==
  /\ queue = <<>>
  /\ ch \in [Reader -> Byte]
  /\ readopen = TRUE
  /\ writeopen = TRUE

Put(b) ==
  /\ readopen /\ writeopen
  /\ Len(queue) < Capacity
  /\ queue' = Append(queue, b)
  /\ UNCHANGED <<ch, readopen, writeopen>>

Get(r) ==
  /\ readopen
  /\ queue # <<>>
  /\ ch' = [ch EXCEPT ![r] = Head(queue)]
  /\ queue' = Tail(queue)
  /\ UNCHANGED <<readopen, writeopen>>

CloseRead ==
  /\ readopen
  /\ readopen' = FALSE
  /\ UNCHANGED <<queue, ch, writeopen>>

CloseWrite ==
  /\ writeopen
  /\ writeopen' = FALSE
  /\ UNCHANGED <<queue, ch, readopen>>

Next ==
  \/ \E b \in Byte : Put(b)
  \/ \E r \in Reader : Get(r)
  \/ CloseRead
  \/ CloseWrite

Spec == Init /\ [][Next]_vars
=============================================================================
