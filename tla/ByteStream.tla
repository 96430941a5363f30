----------------------------- MODULE ByteStream -----------------------------
(***************************************************************************)
(* What a pipe promises: readers take, in order and once, the bytes that   *)
(* writers put in, and meet the end of the stream only when the last       *)
(* writer is gone and every byte has been taken.                           *)
(***************************************************************************)
EXTENDS Integers, Sequences

CONSTANTS Procs, Pipes, Bytes, NONE

VARIABLES queue,   \* the bytes under way in every pipe
          ends,    \* the ends of every pipe that are open
          got      \* what the read() of every process returns, or NONE

stream == <<queue, ends, got>>

Init ==
  /\ queue = [i \in Pipes |-> <<>>]
  /\ ends = [i \in Pipes |-> {}]
  /\ got = [p \in Procs |-> NONE]

Open(i) ==
  /\ ends[i] = {}
  /\ ends' = [ends EXCEPT ![i] = {"read", "write"}]
  /\ queue' = [queue EXCEPT ![i] = <<>>]
  /\ UNCHANGED got

Close(i, e) ==
  /\ ends' = [ends EXCEPT ![i] = @ \ {e}]
  /\ queue' = [queue EXCEPT ![i] = IF ends'[i] = {} THEN <<>> ELSE @]
  /\ UNCHANGED got

Write(i) ==
  /\ "write" \in ends[i]
  /\ Len(queue'[i]) > Len(queue[i])
  /\ SubSeq(queue'[i], 1, Len(queue[i])) = queue[i]
  /\ queue' = [queue EXCEPT ![i] = queue'[i]]
  /\ UNCHANGED <<ends, got>>

Read(p, i) ==
  /\ got[p] = NONE
  /\ "read" \in ends[i]
  /\ \E n \in 0 .. Len(queue[i]) :
       /\ n = 0 => queue[i] = <<>> /\ "write" \notin ends[i]
       /\ got' = [got EXCEPT ![p] = SubSeq(queue[i], 1, n)]
       /\ queue' = [queue EXCEPT ![i] = SubSeq(@, n + 1, Len(@))]
  /\ UNCHANGED ends

Return(p) == got' = [got EXCEPT ![p] = NONE] /\ UNCHANGED <<queue, ends>>

Next ==
  \/ \E i \in Pipes : Open(i) \/ Write(i) \/ \E e \in {"read", "write"} : Close(i, e)
  \/ \E p \in Procs : Return(p) \/ \E i \in Pipes : Read(p, i)

Spec == Init /\ [][Next]_stream
=============================================================================
