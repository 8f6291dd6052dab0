----------------------------- MODULE FileServe ------------------------------
(***************************************************************************)
(* One request from the text a client writes to the file it is answered    *)
(* with: the rewriting by the proxy, if there is one, and checkAndSend()   *)
(* of server.c with the calls it makes on the file system.                 *)
(*                                                                         *)
(* The file system is not modelled: every call on it may return whatever   *)
(* it can return, since files come, go, grow and shrink between any two    *)
(* calls.  A size is a small number of blocks.                             *)
(***************************************************************************)
EXTENDS HttpText, FiniteSets

CONSTANTS Chars,        \* tokens a request target is made of
          MaxTarget,    \* bound on the length of a target sent to the server
          FewChars,     \* some of them, for targets that are
          MaxLong,      \* so much longer
          MaxRelayed,   \* bound on the length of one sent to the proxy
          Names, Ports, \* of origin servers; <<>> is a URL without a port
          MaxSize,      \* bound on the size of a file
          Entries       \* names of the entries of a directory

ASSUME EntriesFinite == IsFiniteSet(Entries)

\* A target ends at the first white space of the request line, so it has none;
\* a name ends where a port, the target or the line begins.
Space == {" ", "\r", "\n"}
IsPlain(S, stops) == S \cap stops = {}
IsName(s) == s \in Seq(ToSet(s)) /\ s # <<>> /\ IsPlain(ToSet(s), Space \cup {":"})
IsPort(s) == s \in Seq(Digits)

ASSUME TargetsPlain == IsPlain(Chars, Space) /\ IsPlain(FewChars, Space)
ASSUME NamesPlain   == \A name \in Names : IsName(name)
ASSUME PortsPlain   == \A port \in Ports : IsPort(port)
ASSUME BoundsNat == {MaxTarget, MaxLong, MaxRelayed, MaxSize} \subseteq Nat

VARIABLES request,      \* what the client wants
          msg,          \* the text of the request, as it travels
          at,           \* where the request is
          looked,       \* the server the proxy looks up
          file,         \* file and, at an index page, idx
          size,         \* sb.st_size
          held,         \* descriptors of files that are open
          mapped,       \* mappings of files
          answer,       \* what has been sent to the client
          cut           \* a transfer ended before its time

vars == <<request, msg, at, looked, file, size, held, mapped, answer, cut>>

----------------------------------------------------------------------------
Host(r) == r.name \o (IF r.port = <<>> THEN <<>> ELSE <<":">> \o r.port)

Targets == BoundedSeq(Chars, MaxTarget)
             \cup {<<"/">> \o t : t \in BoundedSeq(FewChars, MaxLong)}

\* A client asks the server itself, or the proxy, which passes the request on
\* over a socket or through shared memory.  What the proxy is asked is an absolute
\* URL whose authority is also in the Host field, which is what stripAbsURL() is
\* written for.  It cuts the length of "http://" and the Host field off any other
\* request, too; what becomes of such a request is not modelled.
Requests ==
    [via : {"server"}, method : {"GET", "POST"}, name : {<<"h">>}, port : {<<>>},
     target : Targets, fields : {<<"host">>}]
      \cup
    [via : {"socket", "shared"}, method : {"GET"}, name : Names, port : Ports,
     target : {t \in BoundedSeq(Chars, MaxRelayed) : t # <<>> => t[1] = "/"},
     fields : {<<"Host">>, <<"Accept", "host">>}]

\* The lines of the header; only the Host field is looked at.
HeaderLines(r) ==
    LET line(f) == <<f, ":", " ">> \o (IF f = "Accept" THEN <<"any">> ELSE Host(r))
                                   \o EOL
    IN  FlattenSeq([i \in DOMAIN r.fields |-> line(r.fields[i])])

\* To a proxy the target is absolute.
RequestText(r) ==
    <<r.method, " ">> \o (IF r.via = "server" THEN <<>> ELSE Http \o Host(r))
        \o r.target \o <<" ", "HTTP/1.0">> \o EOL \o HeaderLines(r) \o EOL

NoServer == [name |-> <<>>, port |-> <<>>]
Nothing  == [status |-> 0, len |-> 0, body |-> <<>>]

Init ==
    /\ request \in Requests
    /\ msg = RequestText(request)
    /\ at = IF request.via = "server" THEN "recv" ELSE "proxy"
    /\ looked = NoServer
    /\ file = <<>> /\ size = 0 /\ held = 0 /\ mapped = 0
    /\ answer = Nothing
    /\ cut = FALSE

----------------------------------------------------------------------------
\* sendError(): the page is one piece, of the length that is announced.
ErrorPage(status) == [status |-> status, len |-> 1, body |-> <<"error">>]
sendError(status) == answer' = ErrorPage(status) /\ at' = "close"

fsState == <<file, size, held, mapped>>

\* handleClient() of the proxy: recvHeader() up to the empty line, or up to
\* the end of the stream if the client breaks off; the Host field; and the
\* new header.  The server itself may be unknown.
Relay ==
    /\ at = "proxy"
    /\ \E n \in 0 .. Len(msg) :
         LET header     == SubSeq(msg, 1, n)
             fullServer == getHeaderField(header, <<"\n", "Host">>)
         IN  IF fullServer = NULL
             THEN sendError(500) /\ msg' = <<>> /\ UNCHANGED looked
             ELSE /\ looked' = [name |-> chopPortNum(fullServer),
                                port |-> getPortNumber(fullServer)]
                  /\ \/ sendError(404) /\ msg' = <<>>
                     \/ /\ msg' = stripAbsURL(header)
                        /\ at' = "recv"
                        /\ UNCHANGED answer
    /\ UNCHANGED <<request, fsState, cut>>

\* A single recv(): what has arrived by then, at most 19999 bytes of it.  It
\* may fail.  Through shared memory the request comes whole.
Receive ==
    /\ at = "recv"
    /\ \/ /\ \E n \in 0 .. Len(msg) :
               /\ request.via = "shared" => n = Len(msg)
               /\ msg' = SubSeq(msg, 1, n)
          /\ at' = "parse"
          /\ UNCHANGED answer
       \/ request.via # "shared" /\ sendError(400) /\ msg' = <<>>
    /\ UNCHANGED <<request, looked, fsState, cut>>

FileName(path) == LET f == CString(strDecode(Tail(path)))
                  IN  IF f = <<>> THEN <<".", "/">> ELSE f

\* The checks of the request, in their order; 0 if it passes them.
Refusal(line) ==
    IF ~ Parses(line) THEN 400
    ELSE IF Method(line) # <<"GET">> THEN 501
    ELSE IF Path(line)[1] # "/" \/ Forbidden(FileName(Path(line))) THEN 400
    ELSE 0

Parse ==
    /\ at = "parse"
    /\ msg' = <<>>
    /\ \/ Refusal(msg) # 0 /\ sendError(Refusal(msg)) /\ UNCHANGED file
       \/ /\ Refusal(msg) = 0
          /\ file' = FileName(Path(msg))
          /\ at' = "stat"
          /\ UNCHANGED answer
    /\ UNCHANGED <<request, looked, size, held, mapped, cut>>

\* stat(file).
StatFile ==
    /\ at = "stat"
    /\ \/ sendError(404) /\ UNCHANGED size
       \/ /\ at' = "open" /\ size' \in 0 .. MaxSize       \* not a directory
          /\ UNCHANGED answer
       \/ IF Last(file) # "/"                             \* S_ISDIR
          THEN sendError(302) /\ UNCHANGED size
          ELSE at' = "index" /\ UNCHANGED <<size, answer>>
    /\ UNCHANGED <<request, msg, looked, file, held, mapped, cut>>

\* stat(idx); what it finds may again be a directory, which nobody asks.
StatIndex ==
    /\ at = "index"
    /\ \/ /\ file' = file \o <<"index.html">>
          /\ size' \in 0 .. MaxSize
          /\ at' = "open"
       \/ at' = "scan" /\ UNCHANGED <<file, size>>
    /\ UNCHANGED <<request, msg, looked, held, mapped, answer, cut>>

\* open(); fileContents() makes a negative descriptor a failure.
Open ==
    /\ at = "open"
    /\ \/ sendError(403) /\ UNCHANGED held
       \/ held' = held + 1 /\ at' = "map" /\ UNCHANGED answer
    /\ UNCHANGED <<request, msg, looked, file, size, mapped, cut>>

\* Mutants of fileContents: without a close(), and with one in any case.
fileContentsKeeps ==
    \/ mapped' = mapped + 1 /\ at' = "send" /\ UNCHANGED <<held, answer>>
    \/ sendError(403) /\ UNCHANGED <<held, mapped>>
fileContentsCloses ==
    /\ held' = held - 1
    /\ \/ mapped' = mapped + 1 /\ at' = "send" /\ UNCHANGED answer
       \/ sendError(403) /\ UNCHANGED mapped

\* mmap() and, if it fails, close().  No bytes cannot be mapped.
fileContents ==
    \/ /\ size > 0
       /\ mapped' = mapped + 1
       /\ at' = "send"
       /\ UNCHANGED <<held, answer>>
    \/ held' = held - 1 /\ sendError(403) /\ UNCHANGED mapped

Map ==
    /\ at = "map"
    /\ fileContents
    /\ UNCHANGED <<request, msg, looked, file, size, cut>>

\* sendResponse(), with the size that stat() gave.  If the file has shrunk or
\* the client is gone, send() fails part of the way and nobody minds.  Through
\* shared memory the whole is copied first, by memcpy(), and the process gets
\* SIGBUS where the file ends.
Send ==
    /\ at = "send"
    /\ \E n \in 0 .. size :
         IF n < size /\ request.via = "shared"
         THEN at' = "killed" /\ cut' = TRUE /\ UNCHANGED answer
         ELSE /\ answer' = [status |-> 200, len |-> size,
                            body |-> [i \in 1 .. n |-> file]]
              /\ cut' = (n < size)
              /\ at' = "unmap"
    /\ UNCHANGED <<request, msg, looked, fsState>>

\* munmap() and close().
Release ==
    /\ at = "unmap"
    /\ mapped' = mapped - 1
    /\ held' = held - 1
    /\ at' = "close"
    /\ UNCHANGED <<request, msg, looked, file, size, answer, cut>>

\* The page that the names of a directory are made into, one after another;
\* size is counted on the way.
Listing(dl) ==
    LET page[k \in 0 .. Len(dl)] ==
            IF k = 0 THEN [text |-> appendStr(<<>>, "Index of"), size |-> 1]
            ELSE LET text == appendStr(page[k - 1].text, dl[k])
                 IN  [text |-> text,
                      size |-> page[k - 1].size + (Len(text) - Len(page[k - 1].text))]
    IN  page[Len(dl)]

\* scandir(), the page and, last, the name of the server.
ScanDirectory ==
    /\ at = "scan"
    /\ \/ sendError(500)
       \/ \E dl \in SetToSeqs(Entries) \cup {<<>>} :
            /\ answer' = [status |-> 200, len |-> Listing(dl).size + 1,
                          body |-> appendStr(Listing(dl).text, SERVER_NAME)]
            /\ at' = "close"
    /\ UNCHANGED <<request, msg, looked, fsState, cut>>

Next == Relay \/ Receive \/ Parse \/ StatFile \/ StatIndex \/ Open \/ Map
          \/ Send \/ Release \/ ScanDirectory

Spec == Init /\ [][Next]_vars

----------------------------------------------------------------------------
FileCalls == {"stat", "index", "open", "map", "send", "unmap", "scan"}
Answered  == {200, 302, 400, 403, 404, 500, 501}

TypeOK ==
    /\ at \in FileCalls \cup {"proxy", "recv", "parse", "close", "killed"}
    /\ size \in 0 .. MaxSize
    /\ {held, mapped} \subseteq {0, 1}
    /\ answer.status \in Answered \cup {0}
    /\ cut \in BOOLEAN

(***************************************************************************)
(* No path that the server hands to the file system is absolute or has a   *)
(* component "..": the tests of checkAndSend() are complete, whatever the  *)
(* encodings in the request, and they see what stat() and open() see.      *)
(***************************************************************************)
DotDotAt(f, i) ==
    /\ i < Len(f) /\ f[i] = "." /\ f[i + 1] = "."
    /\ i = 1 \/ f[i - 1] = "/"
    /\ i + 1 = Len(f) \/ f[i + 2] = "/"

SafePath ==
    at \in FileCalls =>
        /\ file # <<>> /\ file[1] # "/" /\ ~ Contains(file, NUL)
        /\ \A i \in DOMAIN file : ~ DotDotAt(file, i)

(***************************************************************************)
(* The file that is looked for is the one the client asked for, however    *)
(* little of the request the single recv() returned, and also when the     *)
(* proxy has rewritten the request: a request that was cut in its path is  *)
(* refused, never taken for a request for a shorter one.                   *)
(***************************************************************************)
AsAsked ==
    at \in FileCalls =>
        /\ request.method = "GET"
        /\ request.target # <<>> /\ request.target[1] = "/"
        /\ LET wanted == FileName(request.target)
           IN  \/ file = wanted
               \/ Last(wanted) = "/" /\ file = wanted \o <<"index.html">>

(***************************************************************************)
(* The proxy looks up the server and the port that the URL names, but for  *)
(* two kinds of name: without a port, one that ends in a digit (the digit  *)
(* is lost); with a port, one that ends in 'p' (the port becomes 80).      *)
(***************************************************************************)
RightServer ==
    looked # NoServer =>
        /\ \/ looked.name = request.name
           \/ request.port = <<>> /\ Last(request.name) \in Digits
        /\ \/ looked.port = IF request.port = <<>> THEN <<"80">> ELSE request.port
           \/ request.port # <<>> /\ Last(request.name) = "p"

(***************************************************************************)
(* When checkAndSend() returns it has sent one answer, whose body is as    *)
(* long as its Content-Length says unless the transfer broke off, and no   *)
(* descriptor and no mapping is left, on any of its ways out.              *)
(***************************************************************************)
CleanEnd ==
    at = "close" =>
        /\ held = 0 /\ mapped = 0
        /\ answer.status \in Answered
        /\ IF cut THEN Len(answer.body) < answer.len
                  ELSE Len(answer.body) = answer.len

----------------------------------------------------------------------------
(***************************************************************************)
(* The inductive invariant behind SafePath and CleanEnd: which resources   *)
(* are held at each point, what an answer looks like once it is there, and *)
(* that what the functions of HttpText are applied to is a text.           *)
(***************************************************************************)
IsText(s) == s \in Seq(ToSet(s))

\* The file is open from open() to close(), and mapped until munmap().
Resources ==
    /\ held   = IF at \in {"map", "send", "unmap", "killed"} THEN 1 ELSE 0
    /\ mapped = IF at \in {"send", "unmap", "killed"} THEN 1 ELSE 0

\* An answer is whole unless the transfer was cut, which only Send does.
AnswerWhole ==
    /\ at \in {"unmap", "close"} =>
         /\ answer.status \in Answered
         /\ IF cut THEN Len(answer.body) < answer.len
                   ELSE Len(answer.body) = answer.len
    /\ at \notin {"unmap", "close", "killed"} => ~cut /\ answer = Nothing

Texts ==
    /\ at = "parse" => IsText(msg)
    /\ at \in FileCalls => IsText(file)

ServeInv == TypeOK /\ Resources /\ AnswerWhole /\ Texts /\ SafePath

(***************************************************************************)
(* And the one behind AsAsked and RightServer: the text agrees with the    *)
(* request line of a client of the server as far as both go, and it has no *)
(* other use once the path is made.                                        *)
(***************************************************************************)
RequestLine(r) == <<r.method, " ">> \o r.target \o <<" ", "HTTP/1.0">>
Agree(s, t)    == \A i \in DOMAIN s \cap DOMAIN t : s[i] = t[i]

Traveling ==
    /\ at = "proxy" => request.via # "server" /\ msg = RequestText(request)
    /\ at \in {"recv", "parse"} => IsText(msg) /\ Agree(msg, RequestLine(request))

PathMade ==
    /\ at \in {"stat", "index", "scan"} => file = FileName(request.target)
    /\ at \in {"index", "scan"} => Last(file) = "/"

AskInv == request \in Requests /\ Traveling /\ PathMade /\ AsAsked /\ RightServer
============================================================================
