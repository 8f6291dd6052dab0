------------------------------ MODULE JobQueue ------------------------------
(***************************************************************************)
(* What a pool of workers fed by a list of connections promises: jobs are  *)
(* taken in the order they were put, every job is handed to exactly one    *)
(* worker, a worker has one job at a time, and jobs are thrown away only   *)
(* while no worker has one.  It is the abstraction of the connection list, *)
(* its mutex and its condition variable in server.c and proxy.c; the       *)
(* module WorkerPool implements it.                                        *)
(***************************************************************************)
EXTENDS Sequences

CONSTANTS Workers,  \* the worker threads
          Jobs,     \* what can be put on the list
          NoJob     \* the job of an idle worker, not a member of Jobs

VARIABLES queue,    \* jobs waiting, oldest first
          job       \* the job each worker is busy with

vars == <<queue, job>>

Init ==
    /\ queue = <<>>
    /\ job = [w \in Workers |-> NoJob]

Put(j) ==
    /\ queue' = Append(queue, j)
    /\ UNCHANGED job

Get(w) ==
    /\ job[w] = NoJob
    /\ queue # <<>>
    /\ job' = [job EXCEPT ![w] = Head(queue)]
    /\ queue' = Tail(queue)

Finish(w) ==
    /\ job[w] # NoJob
    /\ job' = [job EXCEPT ![w] = NoJob]
    /\ UNCHANGED queue

Discard ==
    /\ \A w \in Workers : job[w] = NoJob
    /\ queue' = <<>>
    /\ UNCHANGED job

Next ==
    \/ \E j \in Jobs : Put(j)
    \/ \E w \in Workers : Get(w) \/ Finish(w)
    \/ Discard

Spec == Init /\ [][Next]_vars
=============================================================================
