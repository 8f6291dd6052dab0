------------------------------- MODULE Client -------------------------------
(***************************************************************************)
(* The benchmark client, client.c.  main() starts numThreads threads, each *)
(* of which runs accessServer(): it reads the list of files, fetches       *)
(* NUMACCESSES of them one after the other, each on a socket of its own,   *)
(* and returns the number of body bytes.  main() joins the threads in      *)
(* order and adds up.  Any error of any thread calls exit() and so takes   *)
(* the other threads along.                                                *)
(*                                                                         *)
(* numThreads and NUMACCESSES are any two numbers whose product is the     *)
(* bound NumConns; the threads are numbered from 1.                        *)
(* A byte count is a count of response pieces.  The generator of every     *)
(* thread starts from the same state, so the n-th access of all threads is *)
(* to the same file, picks[n].                                             *)
(***************************************************************************)
EXTENDS HttpStream

VARIABLES numThreads,   \* the run-time parameter
          accesses,     \* NUMACCESSES
          picks,        \* the files rand_r() leads to
          thread,       \* the threads running accessServer()
          joined,       \* the threads main() has joined
          total,        \* the sum main() prints
          exit          \* how the process ended, "no" while it runs; the
                        \* exit codes of failures are one here

params     == <<numThreads, accesses, picks>>
clientVars == <<params, thread, joined, total, exit>>

Statuses == {"no", "SUCCESS", "failure"}

NoThread == [at |-> "returned", n |-> 1, bLen |-> 0, bodyLen |-> 0, retVal |-> 0]

ClientInit ==
    /\ numThreads \in Threads /\ accesses \in Threads
    /\ numThreads * accesses = NumConns
    /\ picks \in [1 .. accesses -> Files]
    /\ thread = [t \in Threads |-> IF t <= numThreads
                                   THEN [NoThread EXCEPT !.at = "socket"]
                                   ELSE NoThread]
    /\ joined = 0
    /\ total = 0
    /\ exit = "no"

ClientTypeOK ==
    /\ picks \in [1 .. accesses -> Files]
    /\ \A t \in Threads :
           /\ thread[t].at \in {"socket", "send", "header", "body",
                                "returned"}
           /\ thread[t].n \in 1 .. accesses
           /\ {thread[t].bLen + 1, thread[t].bodyLen, thread[t].retVal} \subseteq Nat
    /\ joined \in 0 .. numThreads
    /\ total \in Nat
    /\ exit \in Statuses

\* exit() and the end of main() take the threads along and close the
\* sockets cs; a request of which n parts have left is cut off there.
EndProcess(status, cs) ==
    /\ exit' = status
    /\ thread' = [t \in Threads |-> NoThread]
    /\ \E n \in NoRequest .. Whole :
           conn' = [k \in Conns |->
                       IF cs[k].client = "open"
                       THEN [cs[k] EXCEPT !.client = "shut", !.down = <<>>,
                                          !.up = IF @ > n THEN n ELSE @]
                       ELSE cs[k]]

Current(t) == <<t, thread[t].n>>

----------------------------------------------------------------------------
\* Before the first access the list of files is read; it can be missing, and
\* with no file on it rand_r() % numFiles divides by zero.  Then socket() and
\* connect(), to a proxy that must be listening.  Opening the next connection
\* does not close the last one.
OpenConnection(t, listening) ==
    /\ thread[t].at = "socket"
    /\ \/ /\ listening
          /\ conn' = [conn EXCEPT ![Current(t)].client = "open",
                                  ![Current(t)].file = picks[thread[t].n]]
          /\ thread' = [thread EXCEPT ![t].at = "send"]
          /\ Works
          /\ UNCHANGED exit
       \/ /\ EndProcess("failure", conn)
          /\ IF listening THEN Fails ELSE Works
    /\ UNCHANGED <<params, joined, total>>

\* sendAll() of the request; sending to an end that is shut may fail.
SendRequest(t) ==
    LET k == Current(t)
        given == [conn EXCEPT ![k].up = Whole]
    IN  /\ thread[t].at = "send"
        /\ \/ /\ conn' = given
              /\ thread' = [thread EXCEPT ![t].at = "header"]
              /\ Works
              /\ UNCHANGED exit
           \/ /\ EndProcess("failure", given)
              /\ IF conn[k].server = "shut" THEN Works ELSE Fails
        /\ UNCHANGED <<params, joined, total>>

\* Mutant of Ended: the end of the stream goes unnoticed.
EndedNever(k) == FALSE

\* recv() returns 0.
Ended(k) == conn[k].down = <<>> /\ conn[k].server = "shut"

Expect(t, bLen) ==
    thread' = [thread EXCEPT ![t].at = "body", ![t].bLen = bLen, ![t].bodyLen = 0]

\* recvHeader() in recvAll_NoData().  The end of the stream, or the error a
\* connection that was reset gives, is taken for a header without a body.
RecvHeader(t) ==
    LET k == Current(t)
        c == conn[k]
    IN  /\ thread[t].at = "header"
        /\ \/ /\ c.down # <<>>
              /\ Expect(t, BodyLength(Head(c.down)))
              /\ conn' = [conn EXCEPT ![k].down = Tail(@)]
              /\ Works
           \/ Ended(k) /\ Expect(t, 0) /\ Works /\ UNCHANGED conn
        /\ UNCHANGED <<params, joined, total, exit>>

\* The loop of recvAll_NoData(); recv() fails on a connection that was reset.
RecvBody(t) ==
    LET k == Current(t)
    IN  /\ thread[t].at = "body"
        /\ thread[t].bodyLen < thread[t].bLen
        /\ \/ /\ conn[k].down # <<>>
              /\ conn' = [conn EXCEPT ![k].down = Tail(@)]
              /\ thread' = [thread EXCEPT ![t].bodyLen = @ + 1]
              /\ Works
              /\ UNCHANGED exit
           \/ /\ conn[k].server = "shut"
              /\ EndProcess("failure", conn)
              /\ Fails
        /\ UNCHANGED <<params, joined, total>>

\* Mutant of LastAccess: one access too many.
LastAccessOff(t) == thread[t].n > accesses

\* for (i = 0; i < NUMACCESSES; i++)
LastAccess(t) == thread[t].n = accesses

\* The loop is done, or recv() returned 0: retVal += bodyLen, and on to the
\* next access.  After the last one remoteSocket alone is closed.
EndAccess(t) ==
    LET k == Current(t)
        last == LastAccess(t)
    IN  /\ thread[t].at = "body"
        /\ \/ thread[t].bodyLen >= thread[t].bLen
           \/ Ended(k)
        /\ thread' = [thread EXCEPT
               ![t].retVal = @ + thread[t].bodyLen,
               ![t].bLen = 0, ![t].bodyLen = 0,
               ![t].n = IF last THEN @ ELSE @ + 1,
               ![t].at = IF last THEN "returned" ELSE "socket"]
        /\ conn' = IF last THEN [conn EXCEPT ![k].client = "shut",
                                             ![k].down = <<>>] ELSE conn
        /\ Works
        /\ UNCHANGED <<params, joined, total, exit>>

\* Mutant of NewTotal: the sum is overwritten.
NewTotalOnly(t) == thread[t].retVal

\* total += (long)retVal
NewTotal(t) == total + thread[t].retVal

\* pthread_join() of the next thread.
JoinThread ==
    /\ joined < numThreads
    /\ thread[joined + 1].at = "returned"
    /\ total' = NewTotal(joined + 1)
    /\ joined' = joined + 1
    /\ Works
    /\ UNCHANGED <<params, thread, exit, conn>>

Finish ==
    /\ joined = numThreads
    /\ EndProcess("SUCCESS", conn)
    /\ Works
    /\ UNCHANGED <<params, joined, total>>

ThreadStep(t, listening) ==
    /\ exit = "no"
    /\ \/ OpenConnection(t, listening) \/ SendRequest(t)
       \/ RecvHeader(t) \/ RecvBody(t) \/ EndAccess(t)

MainStep == exit = "no" /\ (JoinThread \/ Finish)
============================================================================
