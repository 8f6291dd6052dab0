---------------------------- MODULE RequestReply ----------------------------
(***************************************************************************)
(* What the exchange over shared memory promises to a thread of the proxy: *)
(* the server handles its request exactly once, and it gets an answer only *)
(* after that.  SharedMem implements this specification.                   *)
(***************************************************************************)
EXTENDS Sequences, Functions

CONSTANTS Proxies,  \* the threads that ask
          Numbers,  \* numbers that tell the calls of one thread apart
          NoCall    \* the call of a thread that is not asking

VARIABLES call,     \* the call each thread is waiting for, <<thread, number>>
          handled   \* the calls the server has handled, in order

vars == <<call, handled>>

Init ==
    /\ call = [p \in Proxies |-> NoCall]
    /\ handled = <<>>

Ask(p, n) ==
    /\ call[p] = NoCall
    /\ <<p, n>> \notin Range(handled)
    /\ call' = [call EXCEPT ![p] = <<p, n>>]
    /\ UNCHANGED handled

Handle(p) ==
    /\ call[p] # NoCall
    /\ call[p] \notin Range(handled)
    /\ handled' = Append(handled, call[p])
    /\ UNCHANGED call

Answer(p) ==
    /\ call[p] \in Range(handled)
    /\ call' = [call EXCEPT ![p] = NoCall]
    /\ UNCHANGED handled

Next == \E p \in Proxies : Handle(p) \/ Answer(p) \/ \E n \in Numbers : Ask(p, n)

Spec == Init /\ [][Next]_vars
=============================================================================
