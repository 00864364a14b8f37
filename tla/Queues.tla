------------------------------- MODULE Queues -------------------------------
(* The queues of the kernel (include/queue.h, system/queue.c, getitem.c) as *)
(* sequences of what is linked in them, head first: enqueue() is Append,   *)
(* dequeue() is Head and Tail, getitem() is Unlink.                        *)
EXTENDS Integers, SequencesExt

(* getitem(): unlink p from the queue that holds it. *)
Unlink(q, p) == RemoveAt(q, CHOOSE i \in 1 .. Len(q) : q[i] = p)

(* p is on q; nobody is on q twice. *)
InQ(q, p) == \E i \in 1 .. Len(q) : q[i] = p
Once(q)   == \A i, j \in 1 .. Len(q) : q[i] = q[j] => i = j

(* n[q] places in each queue q of S. *)
Places(S, n) == UNION {{q} \X (1 .. n[q]) : q \in S}
=============================================================================
