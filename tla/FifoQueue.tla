------------------------------ MODULE FifoQueue ------------------------------
(***************************************************************************)
(* What a ClauseBuffer promises ("Clause buffer is a queue containning      *)
(* shared clauses", ClauseBuffer.h): every clause a producer adds is handed *)
(* out once, to one consumer, in the order of the additions.  The k-th      *)
(* clause of producer p is <<p, k>>.                                        *)
(***************************************************************************)
EXTENDS Naturals, Sequences

CONSTANTS Producers, Consumers, MaxAdds    \* clauses a producer adds

VARIABLES sent,       \* how many clauses each producer has added
          queue,      \* the clauses in the buffer
          taken       \* the clauses each consumer was handed

vars == <<sent, queue, taken>>

Init ==
  /\ sent = [p \in Producers |-> 0]
  /\ queue = <<>>
  /\ taken = [c \in Consumers |-> <<>>]

Put(p) ==
  /\ sent[p] < MaxAdds
  /\ sent' = [sent EXCEPT ![p] = @ + 1]
  /\ queue' = Append(queue, <<p, sent[p] + 1>>)
  /\ UNCHANGED taken

Take(c) ==
  /\ queue # <<>>
  /\ taken' = [taken EXCEPT ![c] = Append(@, Head(queue))]
  /\ queue' = Tail(queue)
  /\ UNCHANGED sent

Next == (\E p \in Producers : Put(p)) \/ (\E c \in Consumers : Take(c))

Spec == Init /\ [][Next]_vars
=============================================================================
