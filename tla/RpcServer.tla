----------------------------- MODULE RpcServer -----------------------------
(***************************************************************************)
(* The image compression server, rpc/rpcserver.c: the method compress()    *)
(* that the Abyss server of Xmlrpc-c runs for each call, one thread per    *)
(* connection.  A call takes a number from the unprotected counter         *)
(* imageNumber, writes its image to the temporary file of that number,     *)
(* opens the file again, has it compressed from the descriptor and         *)
(* unlinks it.                                                             *)
(*                                                                         *)
(* Files are modelled as names that refer to inodes, so that truncating,   *)
(* unlinking and reading through a descriptor interact as they do on a     *)
(* POSIX file system: an inode is named by the call that created it.       *)
(* Image data is a token; Compressed tells what change_res_JPEG() made of  *)
(* it.                                                                     *)
(***************************************************************************)
EXTENDS Faults

CONSTANTS Callers,      \* the threads of the proxies that call compress()
          Images,       \* the data they send
          MaxCalls      \* bound on the calls in a behaviour

VARIABLES imageNumber,  \* the global counter
          names,        \* the directory images/: number -> inode or 0
          data,         \* the contents of the inodes
          call,         \* the call of each caller
          calls         \* calls made so far; numbers the inodes

rpcVars == <<imageNumber, names, data, call, calls>>

Ids    == 0 .. MaxCalls - 1
Inodes == 1 .. MaxCalls

\* What a file holds: nothing, part of an image, or an image.
Empty    == <<>>
Part     == <<"part">>
Contents == Images \cup {Empty, Part}

\* What compress() returns: data of length 0, a fault, or a compressed image.
Nothing       == [is |-> "nothing"]
RpcFault      == [is |-> "fault"]
Compressed(i) == [is |-> "image", of |-> i]
Results       == {Nothing, RpcFault} \cup {Compressed(i) : i \in Images}

NoCall  == [at |-> "idle"]
Stages  == {"load", "store", "fopen", "fwrite", "open",
            "compress", "unlink", "done"}
CallType == [at : Stages, arg : Contents, id : Ids, fd : Inodes \cup {0},
             me : Inodes, result : Results]

RpcInit ==
    /\ imageNumber = 0
    /\ names = [n \in Ids |-> 0]
    /\ data = [i \in Inodes |-> Empty]
    /\ call = [c \in Callers |-> NoCall]
    /\ calls = 0

Advance(c, stage) == call' = [call EXCEPT ![c].at = stage]

\* Every early return of compress() leaves files and descriptors alone.
Return(c, r) == call' = [call EXCEPT ![c].at = "done", ![c].result = r]

----------------------------------------------------------------------------
\* xmlrpc_client_call() reaches the server, which starts a thread.
CallCompress(c, image) ==
    /\ call[c].at = "idle"
    /\ calls < MaxCalls
    /\ calls' = calls + 1
    /\ call' = [call EXCEPT ![c] = [at |-> "load", arg |-> image, id |-> 0,
                                    fd |-> 0, me |-> calls + 1,
                                    result |-> Nothing]]
    /\ UNCHANGED <<imageNumber, names, data>>

\* int id = imageNumber++ reads the counter ...
LoadNumber(c) ==
    /\ call[c].at = "load"
    /\ call' = [call EXCEPT ![c].at = "store", ![c].id = imageNumber]
    /\ Works
    /\ UNCHANGED <<imageNumber, names, data, calls>>

\* ... and writes it back.
StoreNumber(c) ==
    /\ call[c].at = "store"
    /\ imageNumber' = call[c].id + 1
    /\ Advance(c, "fopen")
    /\ Works
    /\ UNCHANGED <<names, data, calls>>

\* xmlrpc_decompose_value(), where a fault is what the caller gets, and
\* fopen(name, "w"), which creates the file or truncates the one that is there.
OpenForWriting(c) ==
    LET old == names[call[c].id]
        ino == IF old = 0 THEN call[c].me ELSE old
    IN  /\ call[c].at = "fopen"
        /\ \/ /\ names' = [names EXCEPT ![call[c].id] = ino]
              /\ data' = [data EXCEPT ![ino] = Empty]
              /\ call' = [call EXCEPT ![c].at = "fwrite", ![c].fd = ino]
              /\ Works
           \/ /\ \E r \in {Nothing, RpcFault} : Return(c, r)
              /\ Fails
              /\ UNCHANGED <<names, data>>
        /\ UNCHANGED <<imageNumber, calls>>

\* fwrite() and fclose(); a short write returns with the file in place.
WriteFile(c) ==
    /\ call[c].at = "fwrite"
    /\ \/ /\ data' = [data EXCEPT ![call[c].fd] = call[c].arg]
          /\ Advance(c, "open")
          /\ Works
       \/ /\ data' = [data EXCEPT ![call[c].fd] = Part]
          /\ Return(c, Nothing)
          /\ Fails
    /\ UNCHANGED <<imageNumber, names, calls>>

\* open(name, O_RDWR) fails as well when the file has been unlinked.
OpenForReading(c) ==
    /\ call[c].at = "open"
    /\ \/ /\ names[call[c].id] # 0
          /\ call' = [call EXCEPT ![c].at = "compress",
                                  ![c].fd = names[call[c].id]]
          /\ Works
       \/ Return(c, Nothing) /\ (IF names[call[c].id] = 0 THEN Works ELSE Fails)
    /\ UNCHANGED <<imageNumber, names, data, calls>>

\* change_res_JPEG() of what the descriptor leads to; it refuses what is not
\* a whole image, and then neither close() nor unlink() is reached.
ChangeRes(c) ==
    LET found == data[call[c].fd]
    IN  /\ call[c].at = "compress"
        /\ \/ /\ found \in Images
              /\ call' = [call EXCEPT ![c].at = "unlink",
                                      ![c].result = Compressed(found)]
              /\ Works
           \/ Return(c, Nothing) /\ (IF found \in Images THEN Fails ELSE Works)
        /\ UNCHANGED <<imageNumber, names, data, calls>>

\* close() and unlink(), whatever the name refers to by now.
UnlinkFile(c) ==
    /\ call[c].at = "unlink"
    /\ names' = [names EXCEPT ![call[c].id] = 0]
    /\ Advance(c, "done")
    /\ Works
    /\ UNCHANGED <<imageNumber, data, calls>>

\* The caller has taken the result.
EndCall(c) ==
    /\ call[c].at = "done"
    /\ call' = [call EXCEPT ![c] = NoCall]
    /\ UNCHANGED <<imageNumber, names, data, calls>>

CompressStep(c) ==
    \/ LoadNumber(c) \/ StoreNumber(c) \/ OpenForWriting(c)
    \/ WriteFile(c) \/ OpenForReading(c) \/ ChangeRes(c) \/ UnlinkFile(c)

\* The server by itself, called by anyone at any time.
Call(c)  == \E i \in Images : CallCompress(c, i) /\ Works
Reply(c) == EndCall(c) /\ Works

RpcNext == \E c \in Callers : Call(c) \/ CompressStep(c) \/ Reply(c)
RpcSpec == RpcInit /\ faults = 0 /\ [][RpcNext]_<<rpcVars, faults>>

----------------------------------------------------------------------------
RpcTypeOK ==
    /\ imageNumber \in 0 .. MaxCalls
    /\ names \in [Ids -> Inodes \cup {0}]
    /\ data \in [Inodes -> Contents]
    /\ call \in [Callers -> {NoCall} \cup CallType]
    /\ calls \in 0 .. MaxCalls
    /\ faults \in 0 .. MaxFaults

(***************************************************************************)
(* compress() returns the compressed form of the image it was given, or    *)
(* data of length 0, or a fault: never what another call left in the file. *)
(***************************************************************************)
OwnImage ==
    \A c \in Callers : call[c].at = "done" =>
        call[c].result \in {Nothing, RpcFault, Compressed(call[c].arg)}
============================================================================
