----------------------------- MODULE HttpStream -----------------------------
(***************************************************************************)
(* The connections between the clients and the proxy, as the socket calls  *)
(* of both sides see them, and what travels on them: of a request how much *)
(* has been sent, of a response its header and the pieces of its body.     *)
(***************************************************************************)
EXTENDS Integers, Sequences, Faults

CONSTANTS NumConns,     \* how many connections the client makes in all
          Files         \* what it asks for

ASSUME NumConnsNat == NumConns \in Nat \ {0}
ASSUME FilesNotEmpty == Files # {}

\* The n-th connection of thread t.
Threads == 1 .. NumConns
Conns   == {k \in Threads \X Threads : k[1] * k[2] <= NumConns}

VARIABLE conn           \* the state of each connection

\* A request is sent and received in three parts: the request line, the Host
\* field with the end of its line, and the empty line.
NoRequest == 0
HasLine   == 1
HasHost   == 2
Whole     == 3

\* A piece of a response.  A header says len = NoLength when it has no
\* Content-Length; req is the request the piece answers.
NoLength == -1
Header(k, status, len) ==
    [req |-> k, is |-> "header", status |-> status, len |-> len]
Body(k)  == [req |-> k, is |-> "body",  status |-> 0, len |-> 0]
Image(k) == [req |-> k, is |-> "image", status |-> 0, len |-> 0]
\* What is left of a header when the peer closes in the middle of it.
Stub(k)  == [req |-> k, is |-> "stub",  status |-> 0, len |-> 0]

Ends == {"none", "open", "shut"}

\* client and server are the two ends; up counts the parts of the request
\* that are under way, down holds the response pieces not yet received.
StreamInit ==
    conn = [k \in Conns |-> [client |-> "none", server |-> "none",
                             file |-> CHOOSE f \in Files : TRUE,
                             up |-> NoRequest, down |-> <<>>]]

StreamTypeOK ==
    \A k \in Conns :
        /\ conn[k].client \in Ends /\ conn[k].server \in Ends
        /\ conn[k].file \in Files
        /\ conn[k].up \in NoRequest .. Whole
        /\ \A i \in DOMAIN conn[k].down :
               conn[k].down[i].is \in {"header", "body", "image", "stub"}

\* getStatusCode(): the number behind the first blank of the status line.
StatusCode(header) == header.status

\* The body length recvHeader() reports: the Content-Length, or -1 (receive
\* until the peer closes) for a 200 without one, or 0.
BodyLength(piece) ==
    CASE piece.is = "header" /\ piece.len # NoLength -> piece.len
      [] piece.is = "header" /\ piece.len = NoLength /\ StatusCode(piece) = 200 -> -1
      [] OTHER -> 0
============================================================================
