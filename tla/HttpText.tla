------------------------------ MODULE HttpText ------------------------------
(***************************************************************************)
(* The string functions that stand between a request and a file name.  A   *)
(* text is a sequence of tokens: a character that some function looks at   *)
(* is a token, and so is a longer run that all of them take or leave as a  *)
(* whole ("http://", "%2e").  A C string that is missing is NULL.          *)
(***************************************************************************)
EXTENDS Integers, Sequences, SequencesExt

NULL  == <<"NULL">>
NUL   == "\\0"
EOL   == <<"\r", "\n">>
Http  == <<"http://">>
Digits == {"1", "8"}

From(s, i) == SubSeq(s, i, Len(s))

\* strstr(), strchr() and strrchr(): the index of what was found, or 0.
Matches(s, i, sub) ==
    i + Len(sub) - 1 <= Len(s) /\ SubSeq(s, i, i + Len(sub) - 1) = sub
strstr(s, sub) ==
    SelectInSeq([i \in 1 .. Len(s) |-> Matches(s, i, sub)], LAMBDA hit : hit)
strchr(s, c)  == SelectInSeq(s, LAMBDA d : d = c)
strrchr(s, c) == SelectLastInSeq(s, LAMBDA d : d = c)

\* What the functions of the C library see of a buffer.
CString(s) == IF Contains(s, NUL) THEN SubSeq(s, 1, strchr(s, NUL) - 1) ELSE s

----------------------------------------------------------------------------
\* strDecode(): every encoding becomes its character, once.
Decoded == [e \in {"%2e", "%2f", "%00", "%252e"} |->
                CASE e = "%2e" -> "." [] e = "%2f" -> "/"
                  [] e = "%00" -> NUL [] OTHER -> "%2e"]
strDecode(from) ==
    [i \in DOMAIN from |-> IF from[i] \in DOMAIN Decoded THEN Decoded[from[i]]
                                                         ELSE from[i]]

\* sscanf(line, "%[^ ] %[^ ] %[^ ]", ...): a field goes up to a blank, and the
\* blank of the format skips all white space.
Field(s) == IF Contains(s, " ") THEN SubSeq(s, 1, strchr(s, " ") - 1) ELSE s
SkipSpace(s) ==
    LET i == SelectInSeq(s, LAMBDA c : c \notin {" ", "\r", "\n"})
    IN  IF i = 0 THEN <<>> ELSE From(s, i)
After(s) == SkipSpace(From(s, Len(Field(s)) + 1))

Method(line)   == Field(line)
Path(line)     == Field(After(line))
Protocol(line) == Field(After(After(line)))

\* Mutant of Parses: the protocol is not asked for.
ParsesTwo(line) == Method(line) # <<>> /\ Path(line) # <<>>

Parses(line) == /\ Method(line) # <<>> /\ Path(line) # <<>>
                /\ Protocol(line) # <<>>

\* Mutant of Forbidden: a path that ends in /.. passes.
ForbiddenNoEnd(file) ==
    \/ file[1] = "/" \/ file = <<".", ".">>
    \/ IsPrefix(<<".", ".", "/">>, file)
    \/ strstr(file, <<"/", ".", ".", "/">>) # 0

\* The five tests for file names that lead out of the root.  For a name of
\* one character the last one looks at the byte before path, and at the '/'
\* in path[0], which is not a '.'.
Forbidden(file) ==
    \/ file[1] = "/" \/ file = <<".", ".">>
    \/ IsPrefix(<<".", ".", "/">>, file)
    \/ strstr(file, <<"/", ".", ".", "/">>) # 0
    \/ IsSuffix(<<"/", ".", ".">>, file)

----------------------------------------------------------------------------
\* toupper(), for the tokens that occur in both cases.
Upper(c) == IF c = "host" THEN "Host" ELSE c
UpperAll(s) == [i \in DOMAIN s |-> Upper(s[i])]

\* The loop runs to haystackLength - needleLength, so it does not see a match
\* at the very end.
strcasestr(haystack, needle) ==
    LET starts == 1 .. Len(haystack) - Len(needle)
        hits == {i \in starts : Matches(UpperAll(haystack), i, UpperAll(needle))}
    IN  IF hits = {} THEN 0 ELSE CHOOSE i \in hits : \A j \in hits : i <= j

\* The value of a field, from behind the colon and blanks to the end of the
\* line that starts in the middle of the EOL before it.
getHeaderField(header, field) ==
    LET line  == From(header, strcasestr(header, field))
        value == SubSeq(line, strchr(line, ":") + 1, strstr(line, EOL) - 1)
    IN  IF strcasestr(header, field) = 0 \/ strstr(line, EOL) = 0
        THEN NULL
        ELSE From(value, SelectInSeq(value, LAMBDA c : c # " "))

\* The port behind the last colon, unless a 'p' is before it, as in http:.
getPortNumber(server) ==
    LET colon == strrchr(server, ":")
    IN  IF colon = 0 \/ server[colon - 1] = "p" THEN <<"80">>
        ELSE From(server, colon + 1)

\* Mutant of chopPortNum: the loop does not stop at the colon.
chopPortNumOn(server) ==
    SubSeq(server, 1,
           SelectLastInSeq(server, LAMBDA c : c \notin Digits \cup {" ", ":"}))

\* Strips digits and blanks from the end, up to and with the first colon.  A
\* name that ends in a digit and has no port loses that digit too.
chopPortNum(server) ==
    LET eos == SelectLastInSeq(server, LAMBDA c : c \notin Digits \cup {" "})
    IN  SubSeq(server, 1, IF server[eos] = ":" THEN eos - 1 ELSE eos)

\* Drops from behind the first blank as many bytes as http:// and the Host
\* have, whatever they are.
stripAbsURL(header) ==
    LET toFind == Http \o getHeaderField(header, <<"\n", "Host">>)
        start  == strchr(header, " ")
    IN  SubSeq(header, 1, start) \o From(header, start + Len(toFind) + 1)

----------------------------------------------------------------------------
\* appendStr(): the first string is taken as it is, a string with the name of
\* the server is appended, and any other is made a link, which has it twice.
SERVER_NAME == "Squinn!"
appendStr(content, toAdd) ==
    content \o (IF content = <<>> \/ toAdd = SERVER_NAME THEN <<toAdd>>
                                                          ELSE <<toAdd, toAdd>>)
============================================================================
