-------------------------- MODULE FileServe_proofs --------------------------
(***************************************************************************)
(* What checkAndSend() opens and what it leaves open, for every request    *)
(* and every directory.  First facts about the library's string functions, *)
(* then about the path that is put together, then one lemma for each step. *)
(***************************************************************************)
EXTENDS FileServe, DataLemmas, FiniteSetTheorems

\* Min() of the community modules is the least number of the set.
LEMMA MinFacts ==
    ASSUME NEW T, T \subseteq Nat, T # {}
    PROVE  Min(T) \in T /\ \A m \in T : Min(T) <= m
  BY LeastOne DEF Min

\* strchr() finds the first occurrence of a character.
LEMMA strchrFacts ==
    ASSUME NEW S, NEW s \in Seq(S), NEW c, Contains(s, c)
    PROVE  /\ strchr(s, c) \in 1 .. Len(s) /\ s[strchr(s, c)] = c
           /\ \A i \in 1 .. strchr(s, c) - 1 : s[i] # c
<1> DEFINE I == {i \in 1 .. Len(s) : s[i] = c}
<1>1. I # {} /\ I \subseteq Nat
  BY DEF Contains
<1>2. strchr(s, c) = Min(I)
  BY <1>1 DEF strchr, SelectInSeq
<1>3. Min(I) \in I /\ \A m \in I : Min(I) <= m
  BY <1>1, MinFacts
<1>4. strchr(s, c) \in I /\ \A m \in I : strchr(s, c) <= m
  BY <1>2, <1>3
<1> QED
  BY <1>4

\* strstr() returns 0 only if there is no occurrence.
LEMMA strstrFacts ==
    ASSUME NEW S, NEW s \in Seq(S), NEW sub, strstr(s, sub) = 0
    PROVE  \A i \in 1 .. Len(s) : ~ Matches(s, i, sub)
<1> DEFINE hits == [i \in 1 .. Len(s) |-> Matches(s, i, sub)]
           I == {i \in 1 .. Len(hits) : hits[i]}
<1>1. Len(hits) = Len(s) /\ I \subseteq Nat
  OBVIOUS
<1>2. I = {}
  <2>1. CASE I # {}
    <3>1. strstr(s, sub) = Min(I)
      BY <2>1 DEF strstr, SelectInSeq
    <3>2. Min(I) \in I
      BY <1>1, <2>1, MinFacts
    <3>3. 0 \in I
      BY <3>1, <3>2
    <3> QED
      BY <3>3
  <2> QED
    BY <2>1
<1> QED
  BY <1>1, <1>2

\* What a function of the C library sees of a buffer has no NUL in it.
LEMMA CStringFacts ==
    ASSUME NEW S, NEW s \in Seq(S)
    PROVE  CString(s) \in Seq(S) /\ ~ Contains(CString(s), NUL)
<1>1. CASE Contains(s, NUL)
  <2> DEFINE k == strchr(s, NUL)
  <2>1. k \in 1 .. Len(s) /\ \A i \in 1 .. k - 1 : s[i] # NUL
    BY <1>1, strchrFacts
  <2> HIDE DEF k
  <2>2. /\ SubSeq(s, 1, k - 1) \in Seq(S) /\ Len(SubSeq(s, 1, k - 1)) = k - 1
        /\ \A i \in 1 .. k - 1 : SubSeq(s, 1, k - 1)[i] = s[i]
    BY <2>1
  <2>3. CString(s) = SubSeq(s, 1, k - 1)
    BY <1>1 DEF CString, k
  <2> QED
    BY <2>1, <2>2, <2>3 DEF Contains
<1>2. CASE ~ Contains(s, NUL)
  BY <1>2 DEF CString
<1> QED
  BY <1>1, <1>2

\* sscanf() takes the path from the line: it is a text, whatever the line.
LEMMA FieldFacts ==
    ASSUME NEW S, NEW s \in Seq(S)
    PROVE  Field(s) \in Seq(S)
<1>1. CASE Contains(s, " ")
  <2>1. strchr(s, " ") \in 1 .. Len(s)
    BY <1>1, strchrFacts
  <2>2. \A k \in 1 .. Len(s) : SubSeq(s, 1, k - 1) \in Seq(S)
    OBVIOUS
  <2> QED
    BY <1>1, <2>1, <2>2 DEF Field
<1>2. CASE ~ Contains(s, " ")
  BY <1>2 DEF Field
<1> QED
  BY <1>1, <1>2

\* White space is skipped, up to the end of the line if there is nothing else.
LEMMA AfterFacts ==
    ASSUME NEW S, NEW s \in Seq(S)
    PROVE  After(s) \in Seq(S)
<1>1. ASSUME NEW r \in Seq(S), NEW i \in Nat \ {0} PROVE From(r, i) \in Seq(S)
  BY DEF From
<1>2. ASSUME NEW r \in Seq(S) PROVE SkipSpace(r) \in Seq(S)
  <2> DEFINE White == {" ", "\r", "\n"}
             I == {j \in 1 .. Len(r) : r[j] \notin White}
             k == SelectInSeq(r, LAMBDA c : c \notin White)
  <2>1. SkipSpace(r) = IF k = 0 THEN <<>> ELSE From(r, k)
    BY DEF SkipSpace
  <2> HIDE DEF White
  <2>2. k = IF I # {} THEN Min(I) ELSE 0
    BY DEF SelectInSeq
  <2>3. I \subseteq Nat \ {0}
    OBVIOUS
  <2>4. I # {} => Min(I) \in I
    BY <2>3, MinFacts
  <2> HIDE DEF I, k
  <2>5. k # 0 => k \in Nat \ {0}
    BY <2>2, <2>3, <2>4
  <2> QED
    BY <1>1, <2>1, <2>5
<1>3. Field(s) \in Seq(S)
  BY FieldFacts
<1>4. Len(Field(s)) + 1 \in Nat \ {0}
  BY <1>3
<1> QED
  BY <1>1, <1>2, <1>4 DEF After

\* A sequence is one over the set of its elements.
LEMMA TextFacts == ASSUME NEW S, NEW s \in Seq(S) PROVE s \in Seq(ToSet(s))
  BY DEF ToSet

\* Four characters in a row.
LEMMA FourOf ==
    ASSUME NEW S, NEW f \in Seq(S), NEW k \in Nat \ {0}, k + 3 <= Len(f)
    PROVE  SubSeq(f, k, k + 3) = <<f[k], f[k + 1], f[k + 2], f[k + 3]>>
<1> DEFINE r == SubSeq(f, k, k + 3)
<1>1. Len(f) \in Nat
  OBVIOUS
<1>2. /\ r \in Seq(S) /\ Len(r) = 4
      /\ \A j \in 1 .. 4 : r[j] = f[k + j - 1]
  <2>1. \A j \in k .. k + 3 : f[j] \in S
    BY <1>1
  <2>2. /\ SubSeq(f, k, k + 3) \in Seq(S)
        /\ Len(SubSeq(f, k, k + 3)) = IF k <= k + 3 THEN (k + 3) - k + 1 ELSE 0
        /\ \A j \in 1 .. (k + 3) - k + 1 : SubSeq(f, k, k + 3)[j] = f[k + j - 1]
    BY <2>1, SubSeqProperties
  <2>3. (k + 3) - k + 1 = 4 /\ k <= k + 3
    OBVIOUS
  <2> QED
    BY <2>2, <2>3
<1> HIDE DEF r
<1>3. k + 1 - 1 = k /\ k + 2 - 1 = k + 1 /\ k + 3 - 1 = k + 2 /\ k + 4 - 1 = k + 3
  OBVIOUS
<1>4. r[1] = f[k] /\ r[2] = f[k + 1] /\ r[3] = f[k + 2] /\ r[4] = f[k + 3]
  BY <1>2, <1>3
<1>5. r = <<f[k], f[k + 1], f[k + 2], f[k + 3]>>
  BY <1>2, <1>4
<1> QED
  BY <1>5 DEF r

\* Where two dots make a component, it is all there is, at one of the ends, or
\* in the middle.
LEMMA DotDotPlaces ==
    ASSUME NEW S, NEW f \in Seq(S), NEW i \in Nat \ {0}, DotDotAt(f, i)
    PROVE  \/ Len(f) = 2 /\ f[1] = "." /\ f[2] = "."
           \/ Len(f) >= 3 /\ f[1] = "." /\ f[2] = "." /\ f[3] = "/"
           \/ /\ Len(f) >= 3
              /\ f[Len(f)] = "." /\ f[Len(f) - 1] = "." /\ f[Len(f) - 2] = "/"
           \/ \E k \in Nat \ {0} :
                /\ k + 3 <= Len(f)
                /\ f[k] = "/" /\ f[k + 1] = "." /\ f[k + 2] = "." /\ f[k + 3] = "/"
<1>0. Len(f) \in Nat
  OBVIOUS
<1>1. /\ i < Len(f) /\ f[i] = "." /\ f[i + 1] = "."
      /\ i = 1 \/ f[i - 1] = "/"
      /\ i + 1 = Len(f) \/ f[i + 2] = "/"
  BY DEF DotDotAt
<1>2. CASE i = 1
  <2>1. /\ Len(f) >= 2 /\ f[1] = "." /\ f[2] = "."
        /\ Len(f) = 2 \/ f[3] = "/"
    BY <1>0, <1>1, <1>2
  <2>2. Len(f) = 2 \/ (Len(f) # 2 /\ Len(f) >= 3)
    <3>1. \A n \in Nat : n >= 2 => n = 2 \/ (n # 2 /\ n >= 3)
      OBVIOUS
    <3> QED
      BY <1>0, <2>1, <3>1
  <2>3. CASE Len(f) = 2
    BY <2>1, <2>3
  <2>4. CASE Len(f) # 2 /\ Len(f) >= 3
    BY <2>1, <2>4
  <2> QED
    BY <2>2, <2>3, <2>4
<1>3. CASE i > 1 /\ i + 1 = Len(f)
  <2>1. Len(f) >= 3 /\ i = Len(f) - 1 /\ i - 1 = Len(f) - 2
    BY <1>0, <1>3
  <2> QED
    BY <1>1, <1>3, <2>1
<1>4. CASE i > 1 /\ i + 1 # Len(f)
  <2> DEFINE k == i - 1
  <2>1. k \in Nat \ {0} /\ k + 3 <= Len(f) /\ k + 1 = i /\ k + 2 = i + 1 /\ k + 3 = i + 2
    BY <1>0, <1>1, <1>4
  <2>2. f[k] = "/" /\ f[k + 1] = "." /\ f[k + 2] = "." /\ f[k + 3] = "/"
    BY <1>1, <1>4, <2>1
  <2> HIDE DEF k
  <2> QED
    BY <2>1, <2>2
<1> QED
  BY <1>2, <1>3, <1>4

\* The tests of checkAndSend() miss no "..", at the ends or in the middle.
LEMMA ForbiddenFacts ==
    ASSUME NEW S, NEW f \in Seq(S), NEW i \in Nat \ {0}, DotDotAt(f, i)
    PROVE  Forbidden(f)
<1>1. CASE Len(f) = 2 /\ f[1] = "." /\ f[2] = "."
  <2>1. f = <<".", ".">>
    BY <1>1
  <2> QED
    BY <2>1 DEF Forbidden
<1>2. CASE Len(f) >= 3 /\ f[1] = "." /\ f[2] = "." /\ f[3] = "/"
  <2>1. SubSeq(<<".", ".", "/">>, 1, 3) = SubSeq(f, 1, 3)
    BY <1>2
  <2>2. IsPrefix(<<".", ".", "/">>, f)
    BY <1>2, <2>1 DEF IsPrefix
  <2> QED
    BY <2>2 DEF Forbidden
<1>3. CASE /\ Len(f) >= 3
           /\ f[Len(f)] = "." /\ f[Len(f) - 1] = "." /\ f[Len(f) - 2] = "/"
  <2>1. SubSeq(Reverse(<<"/", ".", ".">>), 1, 3) = SubSeq(Reverse(f), 1, 3)
    BY <1>3 DEF Reverse
  <2>2. Len(Reverse(<<"/", ".", ".">>)) = 3 /\ Len(Reverse(f)) = Len(f)
    BY DEF Reverse
  <2>3. IsSuffix(<<"/", ".", ".">>, f)
    BY <1>3, <2>1, <2>2 DEF IsSuffix, IsPrefix
  <2> QED
    BY <2>3 DEF Forbidden
<1>4. ASSUME NEW k \in Nat \ {0}, k + 3 <= Len(f),
             f[k] = "/" /\ f[k + 1] = "." /\ f[k + 2] = "." /\ f[k + 3] = "/"
      PROVE  Forbidden(f)
  <2>1. SubSeq(f, k, k + 3) = <<"/", ".", ".", "/">>
    BY <1>4, FourOf
  <2>2. k \in 1 .. Len(f) /\ k + 4 - 1 = k + 3 /\ Len(<<"/", ".", ".", "/">>) = 4
    BY <1>4
  <2>3. Matches(f, k, <<"/", ".", ".", "/">>)
    BY <1>4, <2>1, <2>2 DEF Matches
  <2> QED
    BY <2>2, <2>3, strstrFacts DEF Forbidden
<1> QED
  BY <1>1, <1>2, <1>3, <1>4, DotDotPlaces

\* Decoding changes characters, not how many there are.
LEMMA DecodeFacts ==
    ASSUME NEW S, NEW s \in Seq(S)
    PROVE  strDecode(s) \in Seq(ToSet(strDecode(s)))
<1>1. DOMAIN strDecode(s) = 1 .. Len(s) /\ Len(s) \in Nat
  BY DEF strDecode
<1>2. strDecode(s) = [i \in 1 .. Len(s) |-> strDecode(s)[i]]
  BY <1>1 DEF strDecode
<1>3. \A i \in 1 .. Len(s) : strDecode(s)[i] \in ToSet(strDecode(s))
  BY <1>1 DEF ToSet
<1> QED
  BY <1>1, <1>2, <1>3

\* A name that passes the tests is a safe one.
LEMMA FileNameFacts ==
    ASSUME NEW S, NEW line \in Seq(S), Refusal(line) = 0
    PROVE  LET f == FileName(Path(line))
           IN  /\ f \in Seq(ToSet(f)) /\ f # <<>> /\ f[1] # "/" /\ ~ Contains(f, NUL)
               /\ \A i \in DOMAIN f : ~ DotDotAt(f, i)
<1> DEFINE path == Path(line)
           d == strDecode(Tail(path))
           f == FileName(path)
<1>1. path # <<>> /\ ~ Forbidden(f)
  BY DEF Refusal, Parses
<1>2. path \in Seq(S)
  BY AfterFacts, FieldFacts DEF Path
<1>3. Tail(path) \in Seq(S)
  BY <1>1, <1>2
<1>4. d \in Seq(ToSet(d))
  BY <1>3, DecodeFacts
<1>5. CString(d) \in Seq(ToSet(d)) /\ ~ Contains(CString(d), NUL)
  BY <1>4, CStringFacts
<1>6. f = IF CString(d) = <<>> THEN <<".", "/">> ELSE CString(d)
  BY DEF FileName
<1> HIDE DEF path, d, f
<1>7. \E T : f \in Seq(T) /\ f # <<>> /\ ~ Contains(f, NUL)
  <2>1. CASE CString(d) = <<>>
    <3>1. <<".", "/">> \in Seq({".", "/"}) /\ <<".", "/">> # <<>>
      OBVIOUS
    <3>2. ~ Contains(<<".", "/">>, NUL)
      BY DEF Contains, NUL
    <3> QED
      BY <1>6, <2>1, <3>1, <3>2
  <2>2. CASE CString(d) # <<>>
    BY <1>5, <1>6, <2>2
  <2> QED
    BY <2>1, <2>2
<1>8. PICK T : f \in Seq(T) /\ f # <<>> /\ ~ Contains(f, NUL)
  BY <1>7
<1>9. \A i \in DOMAIN f : i \in Nat \ {0}
  BY <1>8
<1>10. f \in Seq(ToSet(f)) /\ f[1] # "/" /\ \A i \in DOMAIN f : ~ DotDotAt(f, i)
  BY <1>1, <1>8, <1>9, TextFacts, ForbiddenFacts DEF Forbidden
<1> QED
  BY <1>8, <1>10 DEF f, path

----------------------------------------------------------------------------
\* appendStr() makes a text longer by one or two pieces.
LEMMA appendStrFacts ==
    ASSUME NEW S, NEW s \in Seq(S), NEW e
    PROVE  LET t == appendStr(s, e)
           IN  /\ t \in Seq(ToSet(t)) /\ t # <<>> /\ Len(s) \in Nat
               /\ Len(t) = Len(s) + IF s = <<>> \/ e = SERVER_NAME THEN 1 ELSE 2
<1> DEFINE t == appendStr(s, e)
<1>1. PICK x \in {<<e>>, <<e, e>>} :
          /\ t = s \o x /\ Len(x) = IF s = <<>> \/ e = SERVER_NAME THEN 1 ELSE 2
  BY DEF appendStr
<1> DEFINE T == S \cup {e}
<1>2. s \in Seq(T) /\ x \in Seq(T) /\ Len(x) \in Nat \ {0} /\ Len(s) \in Nat
  BY <1>1
<1> HIDE DEF t, T
<1>3. t \in Seq(T) /\ Len(t) = Len(s) + Len(x)
  <2>1. s \o x \in Seq(T) /\ Len(s \o x) = Len(s) + Len(x)
    BY <1>2
  <2> QED
    BY <1>1, <2>1
<1>4. t # <<>> /\ t \in Seq(ToSet(t))
  BY <1>2, <1>3, TextFacts
<1> QED
  BY <1>1, <1>2, <1>3, <1>4 DEF t

\* The loop over the entries counts what it appends.
LEMMA ListingFacts ==
    ASSUME NEW S, NEW dl \in Seq(S)
    PROVE  LET r == Listing(dl)
           IN  r.text \in Seq(ToSet(r.text)) /\ r.text # <<>> /\ r.size = Len(r.text)
<1> DEFINE first == [text |-> appendStr(<<>>, "Index of"), size |-> 1]
           next(r, k) == [text |-> appendStr(r.text, dl[k]),
                          size |-> r.size + (Len(appendStr(r.text, dl[k])) - Len(r.text))]
           Page(g, n) == g = [k \in 0 .. n |-> IF k = 0 THEN first ELSE next(g[k - 1], k)]
           Good(r) == /\ r.text \in Seq(ToSet(r.text)) /\ r.text # <<>>
                      /\ r.size = Len(r.text)
<1>1. Listing(dl) = (CHOOSE g : Page(g, Len(dl)))[Len(dl)]
  BY DEF Listing
<1> HIDE DEF first, next
<1>2. \A n \in Nat : \E g : Page(g, n)
  <2> DEFINE T == {n \in Nat : ~ \E g : Page(g, n)}
  <2>1. CASE T # {}
    <3>1. PICK n \in T : \A m \in T : n <= m
      BY <2>1, LeastOne
    <3>2. CASE n = 0
      <4>1. Page([k \in 0 .. 0 |-> first], 0)
        OBVIOUS
      <4> QED
        BY <3>1, <3>2, <4>1
    <3>3. CASE n # 0
      <4>1. n - 1 \in Nat /\ n - 1 \notin T
        <5>1. n \in Nat /\ n - 1 \in Nat /\ ~ (n <= n - 1)
          BY <3>3
        <5> QED
          BY <3>1, <5>1
      <4>2. PICK h : Page(h, n - 1)
        BY <4>1
      <4> DEFINE g == [k \in 0 .. n |-> IF k = n THEN next(h[n - 1], n) ELSE h[k]]
      <4>3. \A k \in 0 .. n - 1 : g[k] = h[k]
        BY <3>1
      <4>4. \A k \in 0 .. n : g[k] = IF k = 0 THEN first ELSE next(g[k - 1], k)
        <5> SUFFICES ASSUME NEW k \in 0 .. n
                     PROVE  g[k] = IF k = 0 THEN first ELSE next(g[k - 1], k)
          OBVIOUS
        <5>1. CASE k = n
          <6>1. g[k] = next(h[n - 1], n) /\ g[k - 1] = h[n - 1]
            BY <3>1, <3>3, <4>3, <5>1
          <6> QED
            BY <3>3, <5>1, <6>1
        <5>2. CASE k # n
          <6>1. k \in 0 .. n - 1 /\ (k # 0 => k - 1 \in 0 .. n - 1)
            BY <3>1, <5>2
          <6>2. h[k] = IF k = 0 THEN first ELSE next(h[k - 1], k)
            BY <4>2, <6>1
          <6> QED
            BY <4>3, <6>1, <6>2
        <5> QED
          BY <5>1, <5>2
      <4>5. Page(g, n)
        BY <4>4
      <4> QED
        BY <3>1, <4>5
    <3> QED
      BY <3>2, <3>3
  <2> QED
    BY <2>1
<1>3. PICK g : Page(g, Len(dl)) /\ Listing(dl) = g[Len(dl)]
  <2>1. Len(dl) \in Nat
    OBVIOUS
  <2>2. \E g : Page(g, Len(dl))
    BY <1>2, <2>1
  <2> HIDE DEF Page
  <2> QED
    BY <1>1, <2>2
<1>4. Good(first)
  <2>1. first = [text |-> <<"Index of">>, size |-> 1]
    BY DEF first, appendStr
  <2>2. /\ <<"Index of">> \in Seq({"Index of"}) /\ <<"Index of">> # <<>>
        /\ Len(<<"Index of">>) = 1
    OBVIOUS
  <2>3. <<"Index of">> \in Seq(ToSet(<<"Index of">>))
    BY <2>2, TextFacts
  <2> QED
    BY <2>1, <2>2, <2>3
<1>5. ASSUME NEW r, Good(r), NEW k \in 1 .. Len(dl) PROVE Good(next(r, k))
  <2> DEFINE t == appendStr(r.text, dl[k])
  <2>1. t \in Seq(ToSet(t)) /\ t # <<>> /\ Len(t) \in Nat /\ Len(r.text) \in Nat
    BY <1>5, appendStrFacts
  <2>2. next(r, k) = [text |-> t, size |-> r.size + (Len(t) - Len(r.text))]
    BY DEF next
  <2> HIDE DEF t
  <2> QED
    BY <1>5, <2>1, <2>2
<1>6. \A k \in 0 .. Len(dl) : Good(g[k])
  <2> DEFINE T == {k \in 0 .. Len(dl) : ~ Good(g[k])}
  <2> HIDE DEF Good
  <2>1. CASE T # {}
    <3>1. PICK k \in T : \A m \in T : k <= m
      <4>1. T \subseteq Nat
        OBVIOUS
      <4> HIDE DEF T
      <4> QED
        BY <2>1, <4>1, LeastOne
    <3>2. k # 0
      BY <1>3, <1>4, <3>1
    <3>3. k \in 1 .. Len(dl) /\ k - 1 \in 0 .. Len(dl) /\ k - 1 \notin T
      BY <3>1, <3>2
    <3>4. Good(g[k - 1])
      BY <3>3
    <3>5. g[k] = next(g[k - 1], k)
      BY <1>3, <3>2, <3>3
    <3> QED
      BY <1>5, <3>1, <3>3, <3>4, <3>5
  <2> QED
    BY <2>1
<1> QED
  BY <1>3, <1>6

----------------------------------------------------------------------------
\* A page of sendError() is as long as it says.
LEMMA ErrorPageFacts ==
    ASSUME NEW s \in Answered
    PROVE  ErrorPage(s).status \in Answered /\ Len(ErrorPage(s).body) = ErrorPage(s).len
  BY DEF ErrorPage

\* An error ends the request, with all resources released.
LEMMA ErrorStep ==
    ASSUME ServeInv, NEW s \in Answered, sendError(s), held' = 0, mapped' = 0,
           at \notin {"unmap", "close", "killed"},
           UNCHANGED cut, size' = size
    PROVE  ServeInv'
<1>1. at' = "close" /\ answer' = ErrorPage(s) /\ ~cut'
  BY DEF sendError, ServeInv, AnswerWhole
<1>2. answer'.status \in Answered /\ Len(answer'.body) = answer'.len
  BY <1>1, ErrorPageFacts
<1>3. TypeOK'
  BY <1>1, <1>2 DEF ServeInv, TypeOK
<1> QED
  BY <1>1, <1>2, <1>3 DEF ServeInv, Resources, AnswerWhole, Texts, SafePath, FileCalls

\* A step that sends nothing, up to the system calls that release resources.
LEMMA QuietStep ==
    ASSUME ServeInv, UNCHANGED <<cut, answer>>,
           at \notin {"unmap", "close", "killed"}, at' \in FileCalls \ {"unmap"},
           size' \in 0 .. MaxSize, Resources',
           IsText(file') /\ SafePath'
    PROVE  ServeInv'
<1>1. at' \notin {"unmap", "close", "killed", "parse"}
  BY DEF FileCalls
<1>2. AnswerWhole'
  BY <1>1 DEF ServeInv, AnswerWhole
<1>3. {held', mapped'} \subseteq {0, 1}
  BY DEF Resources
<1>4. TypeOK'
  BY <1>3 DEF ServeInv, TypeOK
<1>5. Texts'
  BY <1>1 DEF Texts, IsText
<1> QED
  BY <1>2, <1>4, <1>5 DEF ServeInv

\* Before the path is known there is nothing but the text.
LEMMA TextStep ==
    ASSUME ServeInv, UNCHANGED <<fsState, cut, answer>>,
           at \in {"proxy", "recv"}, at' \in {"recv", "parse"},
           at' = "parse" => IsText(msg')
    PROVE  ServeInv'
<1> USE DEF fsState
<1>1. TypeOK'
  BY DEF ServeInv, TypeOK, FileCalls
<1>2. Resources' /\ AnswerWhole'
  BY DEF ServeInv, Resources, AnswerWhole
<1>3. Texts' /\ SafePath'
  BY DEF Texts, IsText, SafePath, FileCalls
<1> QED
  BY <1>1, <1>2, <1>3 DEF ServeInv

\* The proxy makes a new header or answers with an error; it opens nothing.
LEMMA RelayStep == ServeInv /\ Relay => ServeInv'
<1> SUFFICES ASSUME ServeInv, Relay PROVE ServeInv'
  OBVIOUS
<1>1. at = "proxy" /\ held = 0 /\ mapped = 0 /\ UNCHANGED <<fsState, cut>>
  BY DEF Relay, ServeInv, Resources
<1>2. \/ sendError(500) \/ sendError(404)
      \/ at' = "recv" /\ UNCHANGED answer
  BY DEF Relay
<1> QED
  BY <1>1, <1>2, ErrorStep, TextStep DEF Answered, fsState

\* What recv() has put in the buffer is a text, whatever was sent.
LEMMA ReceiveStep == ServeInv /\ Receive => ServeInv'
<1> SUFFICES ASSUME ServeInv, Receive PROVE ServeInv'
  OBVIOUS
<1>1. at = "recv" /\ held = 0 /\ mapped = 0 /\ UNCHANGED <<fsState, cut>>
  BY DEF Receive, ServeInv, Resources
<1>2. CASE sendError(400)
  BY <1>1, <1>2, ErrorStep DEF Answered, fsState
<1>3. CASE ~ sendError(400)
  <2>1. PICK n \in 0 .. Len(msg) : msg' = SubSeq(msg, 1, n)
    BY <1>3 DEF Receive
  <2>2. at' = "parse" /\ UNCHANGED answer
    BY <1>3 DEF Receive
  <2>3. n \in Nat
    OBVIOUS
  <2>4. msg' \in Seq({msg[i] : i \in 1 .. n})
    BY <2>1, <2>3
  <2>5. IsText(msg')
    BY <2>4, TextFacts DEF IsText
  <2> QED
    BY <1>1, <2>2, <2>5, TextStep
<1> QED
  BY <1>2, <1>3

\* The path that is made from the line passes the tests and is safe.
LEMMA ParseStep == ServeInv /\ Parse => ServeInv'
<1> SUFFICES ASSUME ServeInv, Parse PROVE ServeInv'
  OBVIOUS
<1>1. /\ at = "parse" /\ held = 0 /\ mapped = 0 /\ UNCHANGED <<size, held, mapped, cut>>
      /\ IsText(msg)
  BY DEF Parse, ServeInv, Resources, Texts
<1>2. CASE Refusal(msg) # 0
  <2>1. sendError(Refusal(msg)) /\ Refusal(msg) \in Answered
    BY <1>2 DEF Parse, Refusal, Answered
  <2> QED
    BY <1>1, <2>1, ErrorStep
<1>3. CASE Refusal(msg) = 0
  <2>1. file' = FileName(Path(msg)) /\ at' = "stat" /\ UNCHANGED answer
    BY <1>3 DEF Parse
  <2>2. /\ IsText(file') /\ file' # <<>> /\ file'[1] # "/" /\ ~ Contains(file', NUL)
        /\ \A i \in DOMAIN file' : ~ DotDotAt(file', i)
    BY <1>1, <1>3, <2>1, FileNameFacts DEF IsText
  <2>3. SafePath'
    BY <2>2 DEF SafePath, DotDotAt, Contains
  <2>4. Resources'
    BY <1>1, <2>1 DEF Resources
  <2>5. at' \in FileCalls \ {"unmap"} /\ size' \in 0 .. MaxSize
    BY <1>1, <2>1 DEF ServeInv, TypeOK, FileCalls
  <2> QED
    BY <1>1, <2>1, <2>2, <2>3, <2>4, <2>5, QuietStep
<1> QED
  BY <1>2, <1>3

\* stat(file): a step on, or an error; file stays what it is.
LEMMA StatFileStep == ServeInv /\ StatFile => ServeInv'
<1> SUFFICES ASSUME ServeInv, StatFile PROVE ServeInv'
  OBVIOUS
<1>1. /\ at = "stat" /\ held = 0 /\ mapped = 0 /\ UNCHANGED <<file, held, mapped, cut>>
  BY DEF StatFile, ServeInv, Resources
<1>2. size \in 0 .. MaxSize /\ IsText(file) /\ SafePath
  BY <1>1 DEF ServeInv, TypeOK, Texts, FileCalls
<1>3. \/ (sendError(404) \/ sendError(302)) /\ UNCHANGED size
      \/ at' \in {"open", "index"} /\ size' \in 0 .. MaxSize /\ UNCHANGED answer
  BY <1>2 DEF StatFile
<1>4. CASE at' \in {"open", "index"} /\ size' \in 0 .. MaxSize /\ UNCHANGED answer
  <2>1. SafePath' /\ IsText(file')
    BY <1>1, <1>2, <1>4 DEF SafePath, FileCalls, DotDotAt
  <2>2. Resources' /\ at' \in FileCalls \ {"unmap"}
    BY <1>1, <1>4 DEF Resources, FileCalls
  <2> QED
    BY <1>1, <1>4, <2>1, <2>2, QuietStep
<1> QED
  BY <1>1, <1>3, <1>4, ErrorStep DEF Answered

\* The name of the index page hides no "..".
LEMMA IndexFacts ==
    ASSUME NEW S, NEW f \in Seq(S), f # <<>>, f[1] # "/", ~ Contains(f, NUL),
           \A i \in DOMAIN f : ~ DotDotAt(f, i),
           NEW g, g = f \o <<"index.html">>
    PROVE  /\ IsText(g) /\ g # <<>> /\ g[1] # "/" /\ ~ Contains(g, NUL)
           /\ \A i \in DOMAIN g : ~ DotDotAt(g, i)
<1>1. /\ g \in Seq(S \cup {"index.html"}) /\ Len(f) \in Nat \ {0} /\ Len(g) = Len(f) + 1
      /\ DOMAIN g = 1 .. (Len(f) + 1) /\ DOMAIN f = 1 .. Len(f)
      /\ \A i \in 1 .. Len(f) : g[i] = f[i]
      /\ g[Len(f) + 1] = "index.html"
  OBVIOUS
<1>2. IsText(g)
  BY <1>1, TextFacts DEF IsText
<1>3. g # <<>> /\ g[1] # "/" /\ ~ Contains(g, NUL)
  BY <1>1 DEF Contains, NUL
<1>4. ASSUME NEW i \in DOMAIN g, DotDotAt(g, i) PROVE FALSE
  <2> DEFINE n == Len(f)
  <2>1. n \in Nat /\ i \in Nat \ {0} /\ i < n + 1 /\ g[i] = "." /\ g[i + 1] = "."
    BY <1>1, <1>4 DEF DotDotAt
  <2>2. i + 1 # n + 1
    BY <1>1, <2>1
  <2>3. g[i + 2] = "/"
    BY <1>1, <1>4, <2>2 DEF DotDotAt
  <2>4. i + 2 # n + 1
    BY <1>1, <2>3
  <2>5. i + 2 <= n
    BY <2>1, <2>2, <2>4
  <2>6. /\ i \in 1 .. n /\ i < n /\ f[i] = g[i] /\ f[i + 1] = g[i + 1] /\ f[i + 2] = g[i + 2]
        /\ i # 1 => f[i - 1] = g[i - 1]
    BY <1>1, <2>1, <2>5
  <2>7. DotDotAt(f, i)
    BY <1>4, <2>1, <2>3, <2>6 DEF DotDotAt
  <2> QED
    BY <1>1, <2>6, <2>7
<1> QED
  BY <1>2, <1>3, <1>4

\* stat(idx), with the path of the index page or of the directory.
LEMMA StatIndexStep == ServeInv /\ StatIndex => ServeInv'
<1> SUFFICES ASSUME ServeInv, StatIndex PROVE ServeInv'
  OBVIOUS
<1>1. /\ at = "index" /\ held = 0 /\ mapped = 0 /\ UNCHANGED <<held, mapped, answer, cut>>
      /\ at' \in FileCalls \ {"unmap"} /\ Resources'
  BY DEF StatIndex, ServeInv, Resources, FileCalls
<1>2. /\ size \in 0 .. MaxSize /\ IsText(file)
      /\ file # <<>> /\ file[1] # "/" /\ ~ Contains(file, NUL)
      /\ \A i \in DOMAIN file : ~ DotDotAt(file, i)
  BY <1>1 DEF ServeInv, TypeOK, Texts, SafePath, FileCalls
<1>3. size' \in 0 .. MaxSize
  BY <1>2 DEF StatIndex
<1>4. /\ IsText(file') /\ file' # <<>> /\ file'[1] # "/" /\ ~ Contains(file', NUL)
      /\ \A i \in DOMAIN file' : ~ DotDotAt(file', i)
  <2>1. CASE file' = file
    BY <1>2, <2>1
  <2>2. CASE file' = file \o <<"index.html">>
    BY <1>2, <2>2, IndexFacts DEF IsText
  <2> QED
    BY <2>1, <2>2 DEF StatIndex
<1>5. SafePath'
  BY <1>4 DEF SafePath, DotDotAt, Contains
<1> QED
  BY <1>1, <1>3, <1>4, <1>5, QuietStep

\* The path of a file that is being worked on does not change any more.
LEMMA PathKept ==
    ASSUME ServeInv, at \in FileCalls, UNCHANGED file
    PROVE  IsText(file') /\ SafePath'
  BY DEF ServeInv, Texts, IsText, SafePath, DotDotAt, Contains

\* open() and stat() of the path that was made.
LEMMA OpenStep == ServeInv /\ Open => ServeInv'
<1> SUFFICES ASSUME ServeInv, Open PROVE ServeInv'
  OBVIOUS
<1>1. /\ at = "open" /\ held = 0 /\ mapped = 0 /\ UNCHANGED <<file, size, mapped, cut>>
      /\ at \in FileCalls
  BY DEF Open, ServeInv, Resources, FileCalls
<1>2. CASE sendError(403) /\ UNCHANGED held
  BY <1>1, <1>2, ErrorStep DEF Answered
<1>3. CASE held' = held + 1 /\ at' = "map" /\ UNCHANGED answer
  <2>1. Resources' /\ at' \in FileCalls \ {"unmap"} /\ size' \in 0 .. MaxSize
    BY <1>1, <1>3 DEF Resources, FileCalls, ServeInv, TypeOK
  <2> QED
    BY <1>1, <1>3, <2>1, PathKept, QuietStep
<1> QED
  BY <1>2, <1>3 DEF Open

\* mmap() of what was opened.
LEMMA MapStep == ServeInv /\ Map => ServeInv'
<1> SUFFICES ASSUME ServeInv, Map PROVE ServeInv'
  OBVIOUS
<1>1. /\ at = "map" /\ held = 1 /\ mapped = 0 /\ UNCHANGED <<file, size, cut>>
      /\ at \in FileCalls
  BY DEF Map, ServeInv, Resources, FileCalls
<1>2. CASE held' = held - 1 /\ sendError(403) /\ UNCHANGED mapped
  BY <1>1, <1>2, ErrorStep DEF Answered
<1>3. CASE mapped' = mapped + 1 /\ at' = "send" /\ UNCHANGED <<held, answer>>
  <2>1. Resources' /\ at' \in FileCalls \ {"unmap"} /\ size' \in 0 .. MaxSize
    BY <1>1, <1>3 DEF Resources, FileCalls, ServeInv, TypeOK
  <2> QED
    BY <1>1, <1>3, <2>1, PathKept, QuietStep
<1> QED
  BY <1>2, <1>3 DEF Map, fileContents

\* What was sent is as long as was announced, or the transfer was cut.
LEMMA SendStep == ServeInv /\ Send => ServeInv'
<1> SUFFICES ASSUME ServeInv, Send PROVE ServeInv'
  OBVIOUS
<1>1. /\ at = "send" /\ held = 1 /\ mapped = 1 /\ UNCHANGED fsState
      /\ at \in FileCalls /\ size \in 0 .. MaxSize /\ answer.status \in Answered \cup {0}
  BY DEF Send, ServeInv, Resources, FileCalls, TypeOK
<1>2. PICK n \in 0 .. size :
        \/ at' = "killed" /\ cut' = TRUE /\ UNCHANGED answer
        \/ /\ answer' = [status |-> 200, len |-> size, body |-> [i \in 1 .. n |-> file]]
           /\ cut' = (n < size) /\ at' = "unmap"
  BY DEF Send
<1>3. Resources' /\ IsText(file') /\ SafePath'
  BY <1>1, <1>2, PathKept DEF Resources, fsState
<1>4. CASE at' = "killed" /\ cut' = TRUE /\ UNCHANGED answer
  <2>1. TypeOK'
    BY <1>1, <1>4 DEF TypeOK, fsState
  <2>2. AnswerWhole' /\ Texts'
    BY <1>4 DEF AnswerWhole, Texts, FileCalls
  <2> QED
    BY <1>3, <2>1, <2>2 DEF ServeInv
<1>5. CASE /\ answer' = [status |-> 200, len |-> size, body |-> [i \in 1 .. n |-> file]]
           /\ cut' = (n < size) /\ at' = "unmap"
  <2>1. n \in Nat /\ size \in Nat /\ n <= size
    BY <1>1, BoundsNat
  <2>2. answer'.status = 200 /\ answer'.len = size /\ Len(answer'.body) = n
    BY <1>5, <2>1
  <2>3. AnswerWhole'
    <3>1. IF cut' THEN Len(answer'.body) < answer'.len ELSE Len(answer'.body) = answer'.len
      <4>1. cut' <=> n < size
        BY <1>5
      <4>2. ~ (n < size) => n = size
        BY <2>1
      <4>3. n < size => Len(answer'.body) < answer'.len
        BY <2>2
      <4>4. n = size => Len(answer'.body) = answer'.len
        BY <2>2
      <4> QED
        BY <4>1, <4>2, <4>3, <4>4
    <3> QED
      BY <1>5, <2>2, <3>1 DEF AnswerWhole, Answered
  <2>4. TypeOK'
    <3>1. cut' \in BOOLEAN
      BY <1>5
    <3> QED
      BY <1>1, <1>5, <2>2, <3>1 DEF TypeOK, fsState, FileCalls, Answered
  <2> QED
    BY <1>3, <1>5, <2>3, <2>4 DEF ServeInv, Texts
<1> QED
  BY <1>2, <1>4, <1>5

\* munmap() and close() of what is mapped and open.
LEMMA ReleaseStep == ServeInv /\ Release => ServeInv'
<1> SUFFICES ASSUME ServeInv, Release PROVE ServeInv'
  OBVIOUS
<1>1. /\ at = "unmap" /\ held = 1 /\ mapped = 1 /\ at' = "close"
      /\ held' = 0 /\ mapped' = 0 /\ UNCHANGED <<size, answer, cut>>
  BY DEF Release, ServeInv, Resources
<1>2. TypeOK'
  BY <1>1 DEF ServeInv, TypeOK
<1>3. AnswerWhole' /\ Resources'
  BY <1>1 DEF ServeInv, AnswerWhole, Resources
<1> QED
  BY <1>1, <1>2, <1>3 DEF ServeInv, Texts, SafePath, FileCalls

\* The Content-Length of an index is the length of the page.
LEMMA ScanDirectoryStep == ServeInv /\ ScanDirectory => ServeInv'
<1> SUFFICES ASSUME ServeInv, ScanDirectory PROVE ServeInv'
  OBVIOUS
<1>1. at = "scan" /\ held = 0 /\ mapped = 0 /\ UNCHANGED <<fsState, cut>> /\ ~cut
  BY DEF ScanDirectory, ServeInv, Resources, AnswerWhole
<1>2. CASE sendError(500)
  BY <1>1, <1>2, ErrorStep DEF Answered, fsState
<1>3. CASE ~ sendError(500)
  <2>1. PICK dl \in SetToSeqs(Entries) \cup {<<>>} :
            answer' = [status |-> 200, len |-> Listing(dl).size + 1,
                       body |-> appendStr(Listing(dl).text, SERVER_NAME)]
    BY <1>3 DEF ScanDirectory
  <2>2. at' = "close"
    BY <1>3 DEF ScanDirectory
  <2>3. dl \in Seq(Entries)
    <3>1. Cardinality(Entries) \in Nat
      BY EntriesFinite, FS_CardinalityType
    <3>2. dl = <<>> \/ dl \in [1 .. Cardinality(Entries) -> Entries]
      BY <2>1 DEF SetToSeqs
    <3>3. \A n \in Nat : \A f \in [1 .. n -> Entries] : f \in Seq(Entries)
      OBVIOUS
    <3>4. <<>> \in Seq(Entries)
      OBVIOUS
    <3> QED
      BY <3>1, <3>2, <3>3, <3>4
  <2> DEFINE r == Listing(dl)
  <2>4. r.text \in Seq(ToSet(r.text)) /\ r.text # <<>> /\ r.size = Len(r.text)
    BY <2>3, ListingFacts
  <2> HIDE DEF r
  <2>5. Len(appendStr(r.text, SERVER_NAME)) = r.size + 1
    BY <2>4, appendStrFacts
  <2>6. answer'.status = 200 /\ Len(answer'.body) = answer'.len
    BY <2>1, <2>5 DEF r
  <2>7. TypeOK'
    BY <1>1, <2>2, <2>6 DEF ServeInv, TypeOK, fsState, Answered
  <2>8. AnswerWhole' /\ Resources'
    BY <1>1, <2>2, <2>6 DEF AnswerWhole, Resources, Answered, fsState
  <2> QED
    BY <2>2, <2>7, <2>8 DEF ServeInv, Texts, SafePath, FileCalls
<1> QED
  BY <1>2, <1>3

\* At first there is no path and nothing is open.
LEMMA ServeInit == Init => ServeInv
<1> SUFFICES ASSUME Init PROVE ServeInv
  OBVIOUS
<1>1. /\ at \in {"recv", "proxy"} /\ file = <<>> /\ size = 0 /\ held = 0 /\ mapped = 0
      /\ answer = Nothing /\ cut = FALSE
  BY DEF Init
<1>2. 0 \in 0 .. MaxSize
  BY BoundsNat
<1> QED
  BY <1>1, <1>2 DEF ServeInv, TypeOK, Resources, AnswerWhole, Texts, SafePath, FileCalls,
                    Nothing

\* Every step keeps ServeInv.
LEMMA ServeStep == ServeInv /\ [Next]_vars => ServeInv'
<1> SUFFICES ASSUME ServeInv, [Next]_vars PROVE ServeInv'
  OBVIOUS
<1>1. CASE UNCHANGED vars
  BY <1>1 DEF vars, ServeInv, TypeOK, Resources, AnswerWhole, Texts, IsText, SafePath,
              DotDotAt, Contains
<1> QED
  BY <1>1, RelayStep, ReceiveStep, ParseStep, StatFileStep, StatIndexStep, OpenStep, MapStep,
     SendStep, ReleaseStep, ScanDirectoryStep DEF Next

----------------------------------------------------------------------------
(* What the server reads of a request line that was cut anywhere.          *)

\* The rest of a text from some place on.
LEMMA FromFacts ==
    ASSUME NEW S, NEW s \in Seq(S), NEW i \in Nat \ {0}, i <= Len(s) + 1
    PROVE  /\ From(s, i) \in Seq(S) /\ Len(From(s, i)) = Len(s) - i + 1
           /\ \A j \in 1 .. (Len(s) - i + 1) : From(s, i)[j] = s[i + j - 1]
  BY DEF From

\* The first part of a text.
LEMMA PartFacts ==
    ASSUME NEW S, NEW s \in Seq(S), NEW n \in Nat, n <= Len(s)
    PROVE  /\ SubSeq(s, 1, n) \in Seq(S) /\ Len(SubSeq(s, 1, n)) = n
           /\ \A j \in 1 .. n : SubSeq(s, 1, n)[j] = s[j]
  OBVIOUS

\* strchr() is the place of the first occurrence.
LEMMA strchrAt ==
    ASSUME NEW S, NEW s \in Seq(S), NEW c, NEW k \in 1 .. Len(s), s[k] = c,
           \A i \in 1 .. k - 1 : s[i] # c
    PROVE  strchr(s, c) = k
<1>1. Contains(s, c)
  BY DEF Contains
<1> DEFINE m == strchr(s, c)
<1>2. m \in 1 .. Len(s) /\ s[m] = c /\ \A i \in 1 .. m - 1 : s[i] # c
  BY <1>1, strchrFacts
<1> HIDE DEF m
<1>3. ~ (m < k) /\ ~ (k < m)
  BY <1>2
<1> QED
  BY <1>2, <1>3 DEF m

\* A text over fewer tokens is one over more.
LEMMA SeqWiden == ASSUME NEW S, NEW T, S \subseteq T, NEW s \in Seq(S) PROVE s \in Seq(T)
  OBVIOUS

\* A field ends before the first blank,
LEMMA FieldBefore ==
    ASSUME NEW S, NEW s \in Seq(S), NEW k \in 1 .. Len(s), NEW c, c = " ", s[k] = c,
           \A i \in 1 .. k - 1 : s[i] # c
    PROVE  /\ Field(s) \in Seq(S) /\ Len(Field(s)) = k - 1
           /\ \A j \in 1 .. k - 1 : Field(s)[j] = s[j]
<1>1. strchr(s, c) = k
  BY ONLY s \in Seq(S), k \in 1 .. Len(s), s[k] = c, \A i \in 1 .. k - 1 : s[i] # c,
          strchrAt
<1>2. Contains(s, c)
  BY ONLY k \in 1 .. Len(s), s[k] = c DEF Contains
<1>3. Field(s) = SubSeq(s, 1, k - 1)
  BY <1>1, <1>2 DEF Field
<1>4. k - 1 \in Nat /\ k - 1 <= Len(s)
  BY ONLY s \in Seq(S), k \in 1 .. Len(s)
<1> QED
  BY ONLY <1>3, <1>4, s \in Seq(S), PartFacts

\* or is all there is.
LEMMA FieldWhole ==
    ASSUME NEW S, NEW s \in Seq(S), \A i \in 1 .. Len(s) : s[i] # " "
    PROVE  Field(s) = s
  BY DEF Field, Contains

\* Nothing is left behind white space only,
LEMMA SkipAll ==
    ASSUME NEW S, NEW s \in Seq(S), \A i \in 1 .. Len(s) : s[i] \in Space
    PROVE  SkipSpace(s) = <<>>
<1>1. {i \in 1 .. Len(s) : s[i] \notin {" ", "\r", "\n"}} = {}
  BY DEF Space
<1> QED
  BY <1>1 DEF SkipSpace, SelectInSeq

\* and otherwise what is behind it.
LEMMA SkipSome ==
    ASSUME NEW S, NEW s \in Seq(S), NEW k \in 1 .. Len(s), s[k] \notin Space,
           \A i \in 1 .. k - 1 : s[i] \in Space
    PROVE  SkipSpace(s) = From(s, k)
<1> DEFINE I == {i \in 1 .. Len(s) : s[i] \notin Space}
           m == SelectInSeq(s, LAMBDA c : c \notin Space)
<1>0. Len(s) \in Nat
  BY SeqFacts
<1>1. k \in I /\ I \subseteq Nat
  BY <1>0
<1>2. m = Min(I)
  BY <1>1 DEF SelectInSeq
<1>3. Min(I) \in I /\ \A j \in I : Min(I) <= j
  BY <1>1, MinFacts
<1>4. m \in I /\ m <= k
  BY <1>1, <1>2, <1>3
<1>5. m \in 1 .. Len(s) /\ s[m] \notin Space
  BY <1>4
<1> HIDE DEF m, I
<1>6. m = k /\ k # 0
  BY <1>0, <1>4, <1>5
<1>7. SkipSpace(s) = IF m = 0 THEN <<>> ELSE From(s, m)
  BY DEF SkipSpace, m, Space
<1> QED
  BY <1>6, <1>7

\* Of the empty text nothing is a field.
LEMMA EmptyFacts == Field(<<>>) = <<>> /\ SkipSpace(<<>>) = <<>>
<1>1. <<>> \in Seq({}) /\ Len(<<>>) = 0
  OBVIOUS
<1>2. 1 .. Len(<<>>) = {}
  BY <1>1
<1> QED
  BY <1>1, <1>2, FieldWhole, SkipAll

\* Two texts, one behind the other.
LEMMA ConcatFacts ==
    ASSUME NEW S, NEW s \in Seq(S), NEW t \in Seq(S), NEW r, r = s \o t
    PROVE  /\ r \in Seq(S) /\ Len(s) \in Nat /\ Len(t) \in Nat /\ Len(r) = Len(s) + Len(t)
           /\ DOMAIN r = 1 .. (Len(s) + Len(t))
           /\ \A i \in 1 .. Len(s) : r[i] = s[i]
           /\ \A i \in 1 .. Len(t) : r[Len(s) + i] = t[i]
<1>1. /\ r \in Seq(S) /\ Len(s) \in Nat /\ Len(t) \in Nat /\ Len(r) = Len(s) + Len(t)
      /\ DOMAIN r = 1 .. Len(r)
      /\ \A i \in 1 .. Len(r) : r[i] = IF i <= Len(s) THEN s[i] ELSE t[i - Len(s)]
  BY ConcatProperties, SeqFacts
<1>2. ASSUME NEW i \in 1 .. Len(s) PROVE r[i] = s[i]
  BY <1>1
<1>3. ASSUME NEW i \in 1 .. Len(t) PROVE r[Len(s) + i] = t[i]
  <2>1. Len(s) + i \in 1 .. Len(r) /\ ~ (Len(s) + i <= Len(s)) /\ (Len(s) + i) - Len(s) = i
    BY <1>1
  <2> QED
    BY <1>1, <2>1
<1> QED
  BY <1>1, <1>2, <1>3

\* What a request line is made of.
LineParts(l, m, t) ==
    /\ Len(t) \in Nat /\ DOMAIN l = 1 .. (Len(t) + 4)
    /\ l[1] = m /\ l[2] = " "
    /\ \A j \in 1 .. Len(t) : l[2 + j] = t[j]
    /\ l[Len(t) + 3] = " " /\ l[Len(t) + 4] = "HTTP/1.0"

\* Where the parts of a request line are.
LEMMA LineShape ==
    ASSUME NEW r, NEW T, r.target \in Seq(T)
    PROVE  LineParts(RequestLine(r), r.method, r.target)
<1>0. PICK t, l : t \in Seq(T) /\ t = r.target /\ l = RequestLine(r)
  OBVIOUS
<1> DEFINE U == T \cup {r.method, " ", "HTTP/1.0"}
           a == <<r.method, " ">>
           z == <<" ", "HTTP/1.0">>
<1>1. t \in Seq(U) /\ a \in Seq(U) /\ z \in Seq(U)
  <2>1. T \subseteq U
    OBVIOUS
  <2>2. a \in Seq({r.method, " "}) /\ {r.method, " "} \subseteq U
    OBVIOUS
  <2>3. z \in Seq({" ", "HTTP/1.0"}) /\ {" ", "HTTP/1.0"} \subseteq U
    OBVIOUS
  <2> HIDE DEF a, z, U
  <2> QED
    BY <1>0, <2>1, <2>2, <2>3, SeqWiden
<1>2. Len(a) = 2 /\ a[1] = r.method /\ a[2] = " " /\ Len(z) = 2 /\ z[1] = " " /\ z[2] = "HTTP/1.0"
  OBVIOUS
<1>3. l = (a \o t) \o z
  BY <1>0 DEF RequestLine
<1> HIDE DEF U, a, z
<1>4. Len(a) = 2 /\ Len(z) = 2
  BY <1>2
<1>5. PICK b : b = a \o t
  OBVIOUS
<1>6. /\ b \in Seq(U) /\ Len(t) \in Nat /\ Len(b) = 2 + Len(t)
      /\ \A i \in 1 .. 2 : b[i] = a[i]
      /\ \A i \in 1 .. Len(t) : b[2 + i] = t[i]
  <2>1. /\ b \in Seq(U) /\ Len(t) \in Nat /\ Len(b) = Len(a) + Len(t)
        /\ \A i \in 1 .. Len(a) : b[i] = a[i]
        /\ \A i \in 1 .. Len(t) : b[Len(a) + i] = t[i]
    BY ONLY <1>1, <1>5, ConcatFacts
  <2> QED
    BY <1>4, <2>1
<1>7. /\ DOMAIN l = 1 .. (2 + Len(t) + 2)
      /\ \A i \in 1 .. (2 + Len(t)) : l[i] = b[i]
      /\ \A i \in 1 .. 2 : l[(2 + Len(t)) + i] = z[i]
  <2>1. b \in Seq(U) /\ z \in Seq(U) /\ l = b \o z
    BY <1>1, <1>3, <1>5, <1>6
  <2>2. /\ DOMAIN l = 1 .. (Len(b) + Len(z))
        /\ \A i \in 1 .. Len(b) : l[i] = b[i]
        /\ \A i \in 1 .. Len(z) : l[Len(b) + i] = z[i]
    BY ONLY <2>1, ConcatFacts
  <2> QED
    BY <1>4, <1>6, <2>2
<1>8. \A j \in 1 .. Len(t) : l[2 + j] = t[j]
  <2> TAKE j \in 1 .. Len(t)
  <2>1. 2 + j \in 1 .. (2 + Len(t))
    BY <1>6
  <2> QED
    BY <1>6, <1>7, <2>1
<1>9. l[1] = a[1] /\ l[2] = a[2]
  BY <1>6, <1>7
<1>10. (2 + Len(t)) + 1 = Len(t) + 3 /\ (2 + Len(t)) + 2 = Len(t) + 4 /\ 2 + Len(t) + 2 = Len(t) + 4
  BY <1>6
<1>11. l[Len(t) + 3] = z[1] /\ l[Len(t) + 4] = z[2]
  BY <1>7, <1>10
<1>12. DOMAIN l = 1 .. (Len(t) + 4)
  BY <1>7, <1>10
<1> QED
  BY ONLY <1>0, <1>2, <1>6, <1>8, <1>9, <1>11, <1>12 DEF LineParts

\* However much of a request line has arrived: if three fields are found, the
\* second is the target, or the protocol if there is no target.
LEMMA ParsedLine ==
    ASSUME NEW r, NEW T, NEW t, t \in Seq(T), t = r.target, NEW m, m = r.method,
           \A j \in 1 .. Len(t) : t[j] \notin Space, m \notin Space,
           NEW S, NEW line \in Seq(S), Agree(line, RequestLine(r)), Parses(line)
    PROVE  /\ Method(line) = <<m>>
           /\ t # <<>> => Path(line) = t
           /\ t = <<>> => Path(line)[1] = "HTTP/1.0"
<1>1. PICK c, w : c = " " /\ w = "HTTP/1.0"
  OBVIOUS
<1>2. c \in Space /\ w \notin Space
  BY <1>1 DEF Space
<1> DEFINE n == Len(line)
           h == Len(t)
<1>3. n \in Nat /\ h \in Nat /\ DOMAIN line = 1 .. n /\ (t = <<>> <=> h = 0)
  BY ONLY line \in Seq(S), t \in Seq(T), SeqFacts
<1>4. /\ n >= 1 => line[1] = m
      /\ n >= 2 => line[2] = c
      /\ \A j \in 1 .. h : 2 + j <= n => line[2 + j] = t[j]
      /\ n >= h + 3 => line[h + 3] = c
      /\ n >= h + 4 => line[h + 4] = w
  <2>1. PICK l : l = RequestLine(r)
    OBVIOUS
  <2>2. /\ DOMAIN l = 1 .. (h + 4) /\ l[1] = m /\ l[2] = c
        /\ \A j \in 1 .. h : l[2 + j] = t[j]
        /\ l[h + 3] = c /\ l[h + 4] = w
    <3>1. /\ DOMAIN l = 1 .. (Len(t) + 4) /\ l[1] = r.method /\ l[2] = " "
          /\ \A j \in 1 .. Len(t) : l[2 + j] = t[j]
          /\ l[Len(t) + 3] = " " /\ l[Len(t) + 4] = "HTTP/1.0"
      <4>1. r.target \in Seq(T)
        OBVIOUS
      <4>2. LineParts(RequestLine(r), r.method, r.target)
        BY ONLY <4>1, LineShape
      <4>3. LineParts(l, r.method, t)
        BY <2>1, <4>2
      <4> QED
        BY ONLY <4>3 DEF LineParts
    <3> QED
      BY <1>1, <3>1
  <2>3. \A i \in 1 .. n : i \in 1 .. (h + 4) => line[i] = l[i]
    BY <1>3, <2>1, <2>2 DEF Agree
  <2> HIDE DEF n, h
  <2>4. \A j \in 1 .. h : 2 + j <= n => line[2 + j] = t[j]
    <3> SUFFICES ASSUME NEW j \in 1 .. h, 2 + j <= n PROVE line[2 + j] = t[j]
      OBVIOUS
    <3>1. 2 + j \in 1 .. n /\ 2 + j \in 1 .. (h + 4)
      BY <1>3
    <3> QED
      BY <2>2, <2>3, <3>1
  <2>5. /\ n >= 1 => line[1] = m
        /\ n >= 2 => line[2] = c
    BY <1>3, <2>2, <2>3
  <2>6. /\ n >= h + 3 => line[h + 3] = c
        /\ n >= h + 4 => line[h + 4] = w
    BY <1>3, <2>2, <2>3
  <2> QED
    BY <2>4, <2>5, <2>6
<1>5. Method(line) # <<>> /\ Path(line) # <<>> /\ Protocol(line) # <<>>
  BY DEF Parses
<1> DEFINE a == From(line, 2)
\* There is a blank behind the method: otherwise there is no path.
<1>6. n >= 2 /\ Method(line) = <<m>> /\ Path(line) = Field(SkipSpace(a))
        /\ Protocol(line) = Field(After(SkipSpace(a)))
  <2>1. n # 0
    <3>1. SUFFICES ASSUME n = 0 PROVE FALSE
      OBVIOUS
    <3>2. line = <<>>
      BY <3>1
    <3> QED
      BY <1>5, <3>2, EmptyFacts DEF Method
  <2>2. m # c /\ line[1] = m
    BY <1>2, <1>3, <1>4, <2>1
  <2>3. n # 1
    <3>1. SUFFICES ASSUME n = 1 PROVE FALSE
      OBVIOUS
    <3>2. \A i \in 1 .. Len(line) : line[i] # c
      BY <2>2, <3>1
    <3>3. Field(line) = line
      BY <1>1, <3>2, FieldWhole
    <3>4. From(line, 2) = <<>>
      BY <3>1 DEF From
    <3>5. Len(Field(line)) + 1 = 2
      BY ONLY <3>1, <3>3
    <3>6. After(line) = <<>>
      BY <3>4, <3>5, EmptyFacts DEF After
    <3> QED
      BY <1>5, <3>6, EmptyFacts DEF Path
  <2>4. n >= 2 /\ line[2] = c /\ 2 \in 1 .. n /\ 2 - 1 = 1
    BY <1>3, <1>4, <2>1, <2>3
  <2>5. \A i \in 1 .. 2 - 1 : line[i] # c
    BY <2>2
  <2>6. Field(line) \in Seq(S) /\ Len(Field(line)) = 2 - 1 /\ \A j \in 1 .. 2 - 1 : Field(line)[j] = line[j]
    <3>1. 2 \in 1 .. Len(line) /\ line[2] = c /\ c = " "
      BY <1>1, <2>4
    <3> HIDE DEF n
    <3>2. PICK k : k = 2
      OBVIOUS
    <3>3. k \in 1 .. Len(line) /\ line[k] = c /\ c = " " /\ \A i \in 1 .. k - 1 : line[i] # c
      BY <2>5, <3>1, <3>2
    <3>4. /\ Field(line) \in Seq(S) /\ Len(Field(line)) = k - 1
          /\ \A j \in 1 .. k - 1 : Field(line)[j] = line[j]
      BY ONLY line \in Seq(S), <3>3, FieldBefore
    <3> QED
      BY ONLY <3>2, <3>4
  <2>7. Field(line) = <<m>>
    BY <2>2, <2>4, <2>6
  <2>8. After(line) = SkipSpace(a)
    BY <2>4, <2>6 DEF After
  <2> QED
    BY <2>4, <2>7, <2>8 DEF Method, Path, Protocol
<1>7. /\ a \in Seq(S) /\ Len(a) = n - 1 /\ a[1] = c
      /\ \A j \in 1 .. n - 1 : a[j] = line[j + 1]
  <2>1. /\ a \in Seq(S) /\ Len(a) = n - 2 + 1
        /\ \A j \in 1 .. (n - 2 + 1) : a[j] = line[2 + j - 1]
    <3>1. 2 \in Nat \ {0} /\ 2 <= Len(line) + 1
      BY <1>3, <1>6
    <3> QED
      BY ONLY line \in Seq(S), <3>1, FromFacts
  <2>2. n - 2 + 1 = n - 1 /\ 1 \in 1 .. n - 1 /\ \A j \in 1 .. n - 1 : 2 + j - 1 = j + 1
    BY <1>3, <1>6
  <2> QED
    BY <1>4, <1>6, <2>1, <2>2
<1> HIDE DEF a
\* And something behind the blank.
<1>8. n >= 3
  <2>1. SUFFICES ASSUME n = 2 PROVE FALSE
    BY <1>3, <1>6
  <2>2. \A i \in 1 .. Len(a) : a[i] \in Space
    BY <1>2, <1>7, <2>1
  <2> QED
    BY <1>5, <1>6, <1>7, <2>2, SkipAll, EmptyFacts
<1>9. ASSUME t # <<>> PROVE Path(line) = t
  <2> DEFINE b == From(a, 2)
  <2>1. h >= 1 /\ line[3] = t[1] /\ t[1] \notin Space
    BY <1>3, <1>4, <1>8, <1>9
  <2>2. 2 \in 1 .. Len(a) /\ a[2] \notin Space /\ \A i \in 1 .. 2 - 1 : a[i] \in Space
    BY <1>2, <1>3, <1>7, <1>8, <2>1
  <2>3. SkipSpace(a) = b
    BY <1>7, <2>2, SkipSome
  <2>4. b \in Seq(S) /\ Len(b) = n - 2 /\ \A j \in 1 .. n - 2 : b[j] = line[j + 2]
    <3>1. /\ b \in Seq(S) /\ Len(b) = (n - 1) - 2 + 1
          /\ \A j \in 1 .. ((n - 1) - 2 + 1) : b[j] = a[2 + j - 1]
      <4>1. 2 \in Nat \ {0} /\ 2 <= Len(a) + 1 /\ Len(a) = n - 1 /\ a \in Seq(S)
        BY <1>3, <1>7, <1>8
      <4> QED
        BY ONLY <4>1, FromFacts
    <3>2. /\ (n - 1) - 2 + 1 = n - 2
          /\ \A j \in 1 .. n - 2 : 2 + j - 1 \in 1 .. n - 1 /\ (2 + j - 1) + 1 = j + 2
      BY <1>3
    <3> QED
      BY <1>7, <3>1, <3>2
  <2> HIDE DEF b
  <2>5. CASE n <= h + 2
    <3>1. \A j \in 1 .. Len(b) : b[j] # c
      <4> SUFFICES ASSUME NEW j \in 1 .. n - 2 PROVE b[j] # c
        BY <2>4
      <4>1. j \in 1 .. h /\ 2 + j <= n /\ j + 2 = 2 + j
        BY <1>3, <2>5
      <4>2. b[j] = t[j]
        BY <1>4, <2>4, <4>1
      <4> QED
        BY <1>2, <4>1, <4>2
    <3>2. Field(b) = b
      BY <1>1, <2>4, <3>1, FieldWhole
    <3>3. From(b, Len(b) + 1) = <<>>
      BY <2>4 DEF From
    <3>4. After(b) = <<>>
      BY <3>2, <3>3, EmptyFacts DEF After
    <3> QED
      BY <1>5, <1>6, <2>3, <3>4, EmptyFacts
  <2>6. CASE n >= h + 3
    <3>1. h + 1 \in 1 .. Len(b) /\ b[h + 1] = c /\ (h + 1) - 1 = h
      <4>1. h + 1 \in 1 .. n - 2 /\ (h + 1) + 2 = h + 3 /\ (h + 1) - 1 = h
        BY <1>3, <2>6
      <4> QED
        BY <1>4, <2>4, <2>6, <4>1
    <3>2. \A j \in 1 .. h : b[j] = t[j] /\ b[j] # c
      <4> SUFFICES ASSUME NEW j \in 1 .. h PROVE b[j] = t[j] /\ b[j] # c
        OBVIOUS
      <4>1. j \in 1 .. n - 2 /\ 2 + j <= n /\ j + 2 = 2 + j
        BY <1>3, <2>6
      <4>2. b[j] = t[j]
        BY <1>4, <2>4, <4>1
      <4> QED
        BY <1>2, <4>2
    <3>3. \A j \in 1 .. (h + 1) - 1 : b[j] # c
      BY <3>1, <3>2
    <3>4. Field(b) \in Seq(S) /\ Len(Field(b)) = (h + 1) - 1 /\ \A j \in 1 .. (h + 1) - 1 : Field(b)[j] = b[j]
      BY ONLY <1>1, <2>4, <3>1, <3>3, FieldBefore
    <3>5. Field(b) = t
      BY ONLY <3>1, <3>2, <3>4, t \in Seq(T)
    <3> QED
      BY <1>6, <2>3, <3>5
  <2> QED
    BY <1>3, <2>5, <2>6
<1>10. ASSUME t = <<>> PROVE Path(line)[1] = w
  <2> DEFINE b == From(a, 3)
  <2>1. h = 0 /\ line[3] = c
    BY <1>3, <1>4, <1>8, <1>10
  <2>2. a[2] = c /\ 2 \in 1 .. Len(a)
    BY <1>3, <1>7, <1>8, <2>1
  <2>3. n # 3
    <3>1. SUFFICES ASSUME n = 3 PROVE FALSE
      OBVIOUS
    <3>2. \A i \in 1 .. Len(a) : a[i] \in Space
      BY <1>2, <1>7, <2>2, <3>1
    <3> QED
      BY <1>5, <1>6, <1>7, <3>2, SkipAll, EmptyFacts
  <2>4. n >= 4 /\ line[4] = w
    BY <1>3, <1>4, <1>8, <2>1, <2>3
  <2>5. 3 \in 1 .. Len(a) /\ a[3] \notin Space /\ \A i \in 1 .. 3 - 1 : a[i] \in Space
    BY <1>2, <1>3, <1>7, <2>2, <2>4
  <2>6. SkipSpace(a) = b
    BY <1>7, <2>5, SkipSome
  <2>7. b \in Seq(S) /\ Len(b) >= 1 /\ b[1] = w
    <3>1. /\ b \in Seq(S) /\ Len(b) = (n - 1) - 3 + 1
          /\ \A j \in 1 .. ((n - 1) - 3 + 1) : b[j] = a[3 + j - 1]
      <4>1. 3 \in Nat \ {0} /\ 3 <= Len(a) + 1 /\ Len(a) = n - 1 /\ a \in Seq(S)
        BY <1>3, <1>7, <2>4
      <4> QED
        BY ONLY <4>1, FromFacts
    <3>2. (n - 1) - 3 + 1 >= 1 /\ 1 \in 1 .. ((n - 1) - 3 + 1) /\ 3 + 1 - 1 = 3
      BY <1>3, <2>4
    <3>3. a[3] = w
      BY <1>7, <2>4, <2>5
    <3> QED
      BY <3>1, <3>2, <3>3
  <2> HIDE DEF b
  <2>8. Field(b)[1] = w
    <3>1. CASE \A i \in 1 .. Len(b) : b[i] # c
      BY <1>1, <2>7, <3>1, FieldWhole
    <3>2. CASE \E i \in 1 .. Len(b) : b[i] = c
      <4> DEFINE k == strchr(b, c)
      <4>1. k \in 1 .. Len(b) /\ b[k] = c
        BY <2>7, <3>2, strchrFacts DEF Contains
      <4>2. Field(b) = SubSeq(b, 1, k - 1)
        BY <1>1, <3>2 DEF Field, Contains
      <4> HIDE DEF k
      <4>3. k # 1
        BY <1>2, <2>7, <4>1
      <4>4. k - 1 \in Nat /\ k - 1 <= Len(b) /\ 1 \in 1 .. k - 1
        BY <2>7, <4>1, <4>3
      <4> QED
        BY <2>7, <4>2, <4>4, PartFacts
    <3> QED
      BY <3>1, <3>2
  <2> QED
    BY <1>6, <2>6, <2>8
<1> QED
  BY <1>1, <1>6, <1>9, <1>10

----------------------------------------------------------------------------
(* What a client asks for.                                                 *)

\* A target is a text of its characters.
LEMMA BoundedFacts ==
    ASSUME NEW C, NEW n \in Nat, NEW t \in BoundedSeq(C, n)
    PROVE  t \in Seq(C)
<1>1. PICK k \in 0 .. n : t \in [1 .. k -> C]
  BY DEF BoundedSeq, SeqOf
<1> QED
  BY <1>1

\* What one kind of request is like,
LEMMA DirectFacts ==
    ASSUME NEW r \in Requests, r.via = "server"
    PROVE  r.target \in Seq(Chars \cup FewChars \cup {"/"})
<1>1. r.target \in Targets
  BY DEF Requests
<1>2. CASE r.target \in BoundedSeq(Chars, MaxTarget)
  <2>1. r.target \in Seq(Chars)
    BY <1>2, BoundsNat, BoundedFacts
  <2> QED
    BY <2>1, SeqWiden
<1>3. ASSUME NEW t \in BoundedSeq(FewChars, MaxLong), r.target = <<"/">> \o t
      PROVE  r.target \in Seq(Chars \cup FewChars \cup {"/"})
  <2> DEFINE U == Chars \cup FewChars \cup {"/"}
  <2>1. t \in Seq(FewChars)
    BY BoundsNat, BoundedFacts
  <2>2. t \in Seq(U)
    BY <2>1, SeqWiden
  <2>3. <<"/">> \in Seq(U)
    OBVIOUS
  <2> HIDE DEF U
  <2>4. <<"/">> \o t \in Seq(U)
    BY <2>2, <2>3, ConcatProperties
  <2> QED
    BY <1>3, <2>4 DEF U
<1> QED
  BY <1>1, <1>2, <1>3 DEF Targets

\* and the other.
LEMMA ProxiedFacts ==
    ASSUME NEW r \in Requests, r.via # "server"
    PROVE  /\ r.method = "GET" /\ r.name \in Names /\ r.port \in Ports
           /\ r.target \in Seq(Chars)
           /\ r.fields = <<"Host">> \/ r.fields = <<"Accept", "host">>
<1>1. r \in [via : {"socket", "shared"}, method : {"GET"}, name : Names, port : Ports,
             target : {t \in BoundedSeq(Chars, MaxRelayed) : t # <<>> => t[1] = "/"},
             fields : {<<"Host">>, <<"Accept", "host">>}]
  BY DEF Requests
<1>2. r.target \in BoundedSeq(Chars, MaxRelayed)
  BY <1>1
<1> QED
  BY <1>1, <1>2, BoundsNat, BoundedFacts

\* In a target there is no white space.
LEMMA TargetFacts ==
    ASSUME NEW r \in Requests
    PROVE  /\ r.target \in Seq(Chars \cup FewChars \cup {"/"})
           /\ \A j \in 1 .. Len(r.target) : r.target[j] \notin Space
           /\ r.method \in {"GET", "POST"}
<1> DEFINE U == Chars \cup FewChars \cup {"/"}
<1>1. r.target \in Seq(U)
  <2>1. CASE r.via = "server"
    BY <2>1, DirectFacts
  <2>2. CASE r.via # "server"
    BY <2>2, ProxiedFacts, SeqWiden
  <2> QED
    BY <2>1, <2>2
<1>2. U \cap Space = {}
  BY TargetsPlain DEF IsPlain, Space
<1> HIDE DEF U
<1>3. \A j \in 1 .. Len(r.target) : r.target[j] \notin Space
  BY <1>1, <1>2
<1>4. r.method \in {"GET", "POST"}
  BY DEF Requests
<1> QED
  BY <1>1, <1>3, <1>4 DEF U

\* A URL names a server without blanks in it.
HostToken(r) == ToSet(r.name) \cup {":"} \cup Digits

\* The host is a text without white space.
LEMMA HostFacts ==
    ASSUME NEW r, r.name \in Names, r.port \in Ports
    PROVE  /\ Host(r) \in Seq(HostToken(r)) /\ Host(r) # <<>> /\ HostToken(r) \cap Space = {}
<1> DEFINE U == HostToken(r)
<1>1. /\ r.name \in Seq(ToSet(r.name)) /\ r.name # <<>> /\ ToSet(r.name) \cap Space = {}
      /\ r.port \in Seq(Digits)
  BY NamesPlain, PortsPlain DEF IsName, IsPort, IsPlain
<1>2. U \cap Space = {}
  BY <1>1 DEF Space, HostToken, Digits
<1>3. ToSet(r.name) \subseteq U /\ Digits \subseteq U /\ ":" \in U
  BY DEF HostToken
<1> HIDE DEF U
<1>4. r.name \in Seq(U) /\ r.port \in Seq(U)
  BY <1>1, <1>3, SeqWiden
<1>5. <<":">> \in Seq(U) /\ <<>> \in Seq(U)
  BY <1>3
<1>6. <<":">> \o r.port \in Seq(U)
  BY <1>4, <1>5, ConcatProperties
<1>7. PICK x : x \in Seq(U) /\ Host(r) = r.name \o x
  BY <1>5, <1>6 DEF Host
<1>8. r.name \o x \in Seq(U) /\ Len(r.name \o x) = Len(r.name) + Len(x) /\ Len(r.name) >= 1 /\ Len(x) \in Nat
  BY <1>1, <1>4, <1>7, ConcatProperties
<1>9. r.name \o x # <<>>
  BY <1>8
<1> QED
  BY <1>2, <1>7, <1>8, <1>9 DEF U

----------------------------------------------------------------------------
(* The header it writes,                                                   *)

\* One line of a header: the name of the field, its value and the line's end.
FieldLine(f, v) == <<f, ":", " ">> \o v \o EOL

\* FlattenSeq() of one line is the line,
LEMMA FlattenOne ==
    ASSUME NEW x, NEW s, s = <<x>>
    PROVE  FlattenSeq(s) = x
<1> DEFINE Flat(f) == f = [i \in 1 .. Len(s) |-> IF i = 1 THEN s[i] ELSE f[i - 1] \o s[i]]
<1>1. Len(s) = 1 /\ s[1] = x
  OBVIOUS
<1>2. FlattenSeq(s) = (CHOOSE f : Flat(f))[Len(s)]
  BY <1>1 DEF FlattenSeq
<1>3. Flat([i \in 1 .. Len(s) |-> x])
  BY <1>1
<1>4. Flat(CHOOSE f : Flat(f))
  <2> HIDE DEF Flat
  <2> QED
    BY <1>3
<1>5. \A f : Flat(f) => f[1] = x
  BY <1>1
<1> QED
  BY <1>1, <1>2, <1>4, <1>5

\* and of two lines one behind the other.
LEMMA FlattenTwo ==
    ASSUME NEW x, NEW y, NEW s, s = <<x, y>>
    PROVE  FlattenSeq(s) = x \o y
<1> DEFINE Flat(f) == f = [i \in 1 .. Len(s) |-> IF i = 1 THEN s[i] ELSE f[i - 1] \o s[i]]
<1>1. Len(s) = 2 /\ s[1] = x /\ s[2] = y
  OBVIOUS
<1>2. FlattenSeq(s) = (CHOOSE f : Flat(f))[Len(s)]
  BY <1>1 DEF FlattenSeq
<1>3. Flat([i \in 1 .. Len(s) |-> IF i = 1 THEN x ELSE x \o y])
  <2> DEFINE g == [i \in 1 .. Len(s) |-> IF i = 1 THEN x ELSE x \o y]
  <2>1. g[1] = x
    BY <1>1
  <2>2. \A i \in 1 .. Len(s) : g[i] = IF i = 1 THEN s[i] ELSE g[i - 1] \o s[i]
    <3>1. 1 .. Len(s) = {1, 2}
      BY <1>1
    <3> QED
      BY <1>1, <2>1, <3>1
  <2> HIDE DEF g
  <2>3. g = [i \in 1 .. Len(s) |-> g[i]]
    BY DEF g
  <2> QED
    BY <2>2, <2>3 DEF g
<1>4. Flat(CHOOSE f : Flat(f))
  <2> HIDE DEF Flat
  <2> QED
    BY <1>3
<1>5. \A f : Flat(f) => f[2] = x \o y
  <2> SUFFICES ASSUME NEW f, Flat(f) PROVE f[2] = x \o y
    OBVIOUS
  <2>1. f[1] = x
    BY <1>1
  <2>2. \A i \in 1 .. Len(s) : f[i] = IF i = 1 THEN s[i] ELSE f[i - 1] \o s[i]
    OBVIOUS
  <2>3. 2 \in 1 .. Len(s) /\ 2 # 1 /\ 2 - 1 = 1
    BY <1>1
  <2>4. f[2] = f[1] \o s[2]
    BY ONLY <2>2, <2>3
  <2> QED
    BY <1>1, <2>1, <2>4
<1> QED
  BY <1>1, <1>2, <1>4, <1>5

\* A header sent to the proxy has the Host field, in one spelling or the
\* other, first or behind another one.
LEMMA HeaderFacts ==
    ASSUME NEW r, r.fields = <<"Host">> \/ r.fields = <<"Accept", "host">>
    PROVE  \/ HeaderLines(r) = FieldLine("Host", Host(r))
           \/ HeaderLines(r) = FieldLine("Accept", <<"any">>) \o FieldLine("host", Host(r))
<1> DEFINE line(f) == <<f, ":", " ">> \o (IF f = "Accept" THEN <<"any">> ELSE Host(r)) \o EOL
           s == [i \in DOMAIN r.fields |-> line(r.fields[i])]
<1>1. HeaderLines(r) = FlattenSeq(s)
  BY DEF HeaderLines
<1>2. /\ line("Host") = FieldLine("Host", Host(r))
      /\ line("host") = FieldLine("host", Host(r))
      /\ line("Accept") = FieldLine("Accept", <<"any">>)
  BY DEF FieldLine
<1> HIDE DEF line
<1>3. CASE r.fields = <<"Host">>
  <2>1. s = <<line("Host")>>
    <3>1. DOMAIN r.fields = 1 .. 1 /\ r.fields[1] = "Host"
      BY <1>3
    <3>2. s = [i \in 1 .. 1 |-> line("Host")]
      BY <3>1
    <3> QED
      BY <3>2
  <2> HIDE DEF s
  <2>2. FlattenSeq(s) = line("Host")
    BY <2>1, FlattenOne
  <2> QED
    BY <1>1, <1>2, <2>2
<1>4. CASE r.fields = <<"Accept", "host">>
  <2>1. s = <<line("Accept"), line("host")>>
    <3>1. DOMAIN r.fields = 1 .. 2 /\ r.fields[1] = "Accept" /\ r.fields[2] = "host"
      BY <1>4
    <3> QED
      BY <3>1
  <2> HIDE DEF s
  <2>2. FlattenSeq(s) = line("Accept") \o line("host")
    BY <2>1, FlattenTwo
  <2> QED
    BY <1>1, <1>2, <2>2
<1> QED
  BY <1>3, <1>4

\* Where the parts of a line are.
FieldToken(V, f) == V \cup {f, ":", " ", "\r", "\n"}
FieldParts(l, f, v) ==
    /\ Len(v) \in Nat /\ Len(l) = Len(v) + 5
    /\ l[1] = f /\ l[2] = ":" /\ l[3] = " "
    /\ \A j \in 1 .. Len(v) : l[3 + j] = v[j]
    /\ l[Len(v) + 4] = "\r" /\ l[Len(v) + 5] = "\n"

\* A line of the header has its parts there.
LEMMA FieldLineFacts ==
    ASSUME NEW V, NEW v \in Seq(V), NEW f
    PROVE  FieldLine(f, v) \in Seq(FieldToken(V, f)) /\ FieldParts(FieldLine(f, v), f, v)
<1>0. PICK l : l = FieldLine(f, v)
  OBVIOUS
<1> DEFINE U == V \cup {f, ":", " ", "\r", "\n"}
           a == <<f, ":", " ">>
           z == EOL
<1>1. v \in Seq(U) /\ a \in Seq(U) /\ z \in Seq(U)
  <2>1. V \subseteq U
    OBVIOUS
  <2>2. a \in Seq({f, ":", " "}) /\ {f, ":", " "} \subseteq U
    OBVIOUS
  <2>3. z \in Seq({"\r", "\n"}) /\ {"\r", "\n"} \subseteq U
    BY DEF EOL
  <2> HIDE DEF a, z, U
  <2> QED
    BY <2>1, <2>2, <2>3, SeqWiden
<1>2. /\ Len(a) = 3 /\ a[1] = f /\ a[2] = ":" /\ a[3] = " "
      /\ Len(z) = 2 /\ z[1] = "\r" /\ z[2] = "\n"
  BY DEF EOL
<1>3. l = (a \o v) \o z
  BY <1>0 DEF FieldLine
<1> HIDE DEF U, a, z
<1>4. Len(a) = 3 /\ Len(z) = 2
  BY <1>2
<1>5. PICK b : b = a \o v
  OBVIOUS
<1>6. /\ b \in Seq(U) /\ Len(v) \in Nat /\ Len(b) = 3 + Len(v)
      /\ \A i \in 1 .. 3 : b[i] = a[i]
      /\ \A i \in 1 .. Len(v) : b[3 + i] = v[i]
  <2>1. /\ b \in Seq(U) /\ Len(v) \in Nat /\ Len(b) = Len(a) + Len(v)
        /\ \A i \in 1 .. Len(a) : b[i] = a[i]
        /\ \A i \in 1 .. Len(v) : b[Len(a) + i] = v[i]
    BY ONLY <1>1, <1>5, ConcatFacts
  <2> QED
    BY <1>4, <2>1
<1>7. /\ l \in Seq(U) /\ Len(l) = 3 + Len(v) + 2
      /\ \A i \in 1 .. (3 + Len(v)) : l[i] = b[i]
      /\ \A i \in 1 .. 2 : l[(3 + Len(v)) + i] = z[i]
  <2>1. b \in Seq(U) /\ z \in Seq(U) /\ l = b \o z
    BY <1>1, <1>3, <1>5, <1>6
  <2>2. /\ l \in Seq(U) /\ Len(l) = Len(b) + Len(z)
        /\ \A i \in 1 .. Len(b) : l[i] = b[i]
        /\ \A i \in 1 .. Len(z) : l[Len(b) + i] = z[i]
    BY ONLY <2>1, ConcatFacts
  <2> QED
    BY <1>4, <1>6, <2>2
<1>8. \A j \in 1 .. Len(v) : l[3 + j] = v[j]
  <2> TAKE j \in 1 .. Len(v)
  <2>1. 3 + j \in 1 .. (3 + Len(v))
    BY <1>6
  <2> QED
    BY <1>6, <1>7, <2>1
<1>9. l[1] = a[1] /\ l[2] = a[2] /\ l[3] = a[3]
  BY <1>6, <1>7
<1>10. (3 + Len(v)) + 1 = Len(v) + 4 /\ (3 + Len(v)) + 2 = Len(v) + 5 /\ 3 + Len(v) + 2 = Len(v) + 5
  BY <1>6
<1>11. l[Len(v) + 4] = z[1] /\ l[Len(v) + 5] = z[2] /\ Len(l) = Len(v) + 5
  BY <1>7, <1>10
<1>12. l \in Seq(U)
  BY <1>7
<1>13. l \in Seq(FieldToken(V, f))
  BY <1>12 DEF U, FieldToken
<1>14. FieldParts(l, f, v)
  BY ONLY <1>2, <1>6, <1>8, <1>9, <1>11 DEF FieldParts
<1> QED
  BY ONLY <1>0, <1>13, <1>14

----------------------------------------------------------------------------
(* and the line to the proxy.                                              *)

\* The request line of a client of the proxy.
AbsLine(r) == <<r.method, " ">> \o (Http \o Host(r)) \o r.target \o <<" ", "HTTP/1.0">>
AbsToken(r) == HostToken(r) \cup Chars \cup {r.method, " ", "http://", "HTTP/1.0"}

AbsParts(l, m, v, t) ==
    /\ Len(v) \in Nat /\ Len(t) \in Nat /\ Len(l) = Len(v) + Len(t) + 5
    /\ l[1] = m /\ l[2] = " "
    /\ \A j \in 1 .. Len(t) : l[Len(v) + 3 + j] = t[j]
    /\ l[Len(v) + Len(t) + 4] = " " /\ l[Len(v) + Len(t) + 5] = "HTTP/1.0"

\* The request line sent to the proxy has its parts there.
LEMMA AbsLineFacts ==
    ASSUME NEW r, r.name \in Names, r.port \in Ports, r.target \in Seq(Chars)
    PROVE  AbsLine(r) \in Seq(AbsToken(r)) /\ AbsParts(AbsLine(r), r.method, Host(r), r.target)
<1> DEFINE a == <<r.method, " ">>
           z == <<" ", "HTTP/1.0">>
           U == AbsToken(r)
<1>0. PICK v, t, l : v = Host(r) /\ t = r.target /\ l = AbsLine(r)
  OBVIOUS
<1>1. v \in Seq(U) /\ t \in Seq(U) /\ a \in Seq(U) /\ z \in Seq(U) /\ Http \in Seq(U)
  <2>1. a \in Seq({r.method, " "}) /\ {r.method, " "} \subseteq U
    BY DEF AbsToken
  <2>2. z \in Seq({" ", "HTTP/1.0"}) /\ {" ", "HTTP/1.0"} \subseteq U
    BY DEF AbsToken
  <2>3. Http \in Seq({"http://"}) /\ {"http://"} \subseteq U
    BY DEF AbsToken, Http
  <2>4. v \in Seq(HostToken(r)) /\ HostToken(r) \subseteq U /\ t \in Seq(Chars) /\ Chars \subseteq U
    BY <1>0, HostFacts DEF AbsToken
  <2> HIDE DEF a, z, U
  <2> QED
    BY ONLY <2>1, <2>2, <2>3, <2>4, SeqWiden
<1>2. /\ Len(a) = 2 /\ a[1] = r.method /\ a[2] = " "
      /\ Len(z) = 2 /\ z[1] = " " /\ z[2] = "HTTP/1.0" /\ Len(Http) = 1
  BY DEF Http
<1>3. PICK s1, s2, s3 : s1 = Http \o v /\ s2 = a \o s1 /\ s3 = s2 \o t /\ l = s3 \o z
  BY <1>0 DEF AbsLine
<1> HIDE DEF a, z, U
<1>4. Len(a) = 2 /\ Len(z) = 2 /\ Len(Http) = 1
  BY <1>2
<1>5. s1 \in Seq(U) /\ Len(v) \in Nat /\ Len(s1) = Len(v) + 1
  <2>1. Http \in Seq(U) /\ v \in Seq(U) /\ s1 = Http \o v
    BY ONLY <1>1, <1>3
  <2>2. s1 \in Seq(U) /\ Len(v) \in Nat /\ Len(s1) = Len(Http) + Len(v)
    BY ONLY <2>1, ConcatFacts
  <2> QED
    BY ONLY <1>4, <2>2
<1>6. /\ s2 \in Seq(U) /\ Len(s2) = Len(v) + 3
      /\ \A i \in 1 .. 2 : s2[i] = a[i]
  <2>1. a \in Seq(U) /\ s1 \in Seq(U) /\ s2 = a \o s1
    BY ONLY <1>1, <1>3, <1>5
  <2>2. s2 \in Seq(U) /\ Len(s2) = Len(a) + Len(s1) /\ \A i \in 1 .. Len(a) : s2[i] = a[i]
    BY ONLY <2>1, ConcatFacts
  <2>3. Len(a) + Len(s1) = Len(v) + 3
    BY ONLY <1>4, <1>5
  <2> QED
    BY ONLY <1>4, <2>2, <2>3
<1>7. /\ s3 \in Seq(U) /\ Len(t) \in Nat /\ Len(s3) = Len(v) + 3 + Len(t)
      /\ \A i \in 1 .. Len(v) + 3 : s3[i] = s2[i]
      /\ \A j \in 1 .. Len(t) : s3[Len(v) + 3 + j] = t[j]
  <2>1. s2 \in Seq(U) /\ t \in Seq(U) /\ s3 = s2 \o t
    BY ONLY <1>1, <1>3, <1>6
  <2>2. /\ s3 \in Seq(U) /\ Len(t) \in Nat /\ Len(s3) = Len(s2) + Len(t)
        /\ \A i \in 1 .. Len(s2) : s3[i] = s2[i]
        /\ \A j \in 1 .. Len(t) : s3[Len(s2) + j] = t[j]
    BY ONLY <2>1, ConcatFacts
  <2> QED
    BY ONLY <1>6, <2>2
<1>8. /\ l \in Seq(U) /\ Len(l) = (Len(v) + 3 + Len(t)) + 2
      /\ \A i \in 1 .. (Len(v) + 3 + Len(t)) : l[i] = s3[i]
      /\ \A i \in 1 .. 2 : l[(Len(v) + 3 + Len(t)) + i] = z[i]
  <2>1. s3 \in Seq(U) /\ z \in Seq(U) /\ l = s3 \o z
    BY ONLY <1>1, <1>3, <1>7
  <2>2. /\ l \in Seq(U) /\ Len(l) = Len(s3) + Len(z)
        /\ \A i \in 1 .. Len(s3) : l[i] = s3[i]
        /\ \A i \in 1 .. Len(z) : l[Len(s3) + i] = z[i]
    BY ONLY <2>1, ConcatFacts
  <2> QED
    BY ONLY <1>4, <1>7, <2>2
<1>9. \A j \in 1 .. Len(t) : l[Len(v) + 3 + j] = t[j]
  <2>1. \A j \in 1 .. Len(t) : Len(v) + 3 + j \in 1 .. (Len(v) + 3 + Len(t))
    BY ONLY <1>5, <1>7
  <2> QED
    BY ONLY <1>7, <1>8, <2>1
<1>10. l[1] = a[1] /\ l[2] = a[2]
  <2>1. /\ 1 \in 1 .. (Len(v) + 3 + Len(t)) /\ 2 \in 1 .. (Len(v) + 3 + Len(t))
        /\ 1 \in 1 .. Len(v) + 3 /\ 2 \in 1 .. Len(v) + 3
    BY ONLY <1>5, <1>7
  <2> QED
    BY ONLY <1>6, <1>7, <1>8, <2>1
<1>11. /\ (Len(v) + 3 + Len(t)) + 2 = Len(v) + Len(t) + 5
       /\ (Len(v) + 3 + Len(t)) + 1 = Len(v) + Len(t) + 4
  BY ONLY <1>5, <1>7
<1>12. l[Len(v) + Len(t) + 4] = z[1] /\ l[Len(v) + Len(t) + 5] = z[2] /\ Len(l) = Len(v) + Len(t) + 5
  BY ONLY <1>8, <1>11
<1>13. AbsParts(l, r.method, v, t)
  BY ONLY <1>2, <1>5, <1>7, <1>9, <1>10, <1>12 DEF AbsParts
<1> QED
  BY ONLY <1>0, <1>8, <1>13 DEF U

\* Where the Host field is.
HostAt(m, p, v) ==
    /\ p \in Nat \ {0} /\ Len(v) \in Nat /\ Len(m) = p + Len(v) + 7
    /\ m[p] = "\n" /\ m[p + 1] \in {"Host", "host"} /\ m[p + 2] = ":" /\ m[p + 3] = " "
    /\ \A j \in 1 .. Len(v) : m[p + 3 + j] = v[j]
    /\ m[p + Len(v) + 4] = "\r" /\ m[p + Len(v) + 5] = "\n"
    /\ m[p + Len(v) + 6] = "\r" /\ m[p + Len(v) + 7] = "\n"

\* What comes before it has no Host field.
NoHost(b, p) ==
    /\ p \in Nat \ {0} /\ Len(b) = p /\ b[p] = "\n"
    /\ \A i \in 1 .. p - 1 : b[i] = "\n" => b[i + 1] \notin {"Host", "host"}

HostOnce(m, p)    == \A i \in 1 .. p - 1 : m[i] = "\n" => m[i + 1] \notin {"Host", "host"}
SameUpTo(m, b, p) == \A i \in 1 .. p : m[i] = b[i]
HostNames == {"Host", "host"}

\* A field that is appended where none was yet is the only one, and in place.
LEMMA HostAtFacts ==
    ASSUME NEW S, NEW b \in Seq(S), NEW p, NoHost(b, p), NEW V, NEW v \in Seq(V),
           NEW f \in HostNames, NEW m, m = (b \o FieldLine(f, v)) \o EOL
    PROVE  m \in Seq(ToSet(m)) /\ HostAt(m, p, v) /\ HostOnce(m, p) /\ SameUpTo(m, b, p)
<1> DEFINE e == EOL
           W == FieldToken(V, f)
<1>0. PICK l, q : l = FieldLine(f, v) /\ q = b \o l
  OBVIOUS
<1>2. /\ l \in Seq(W) /\ Len(v) \in Nat /\ Len(l) = Len(v) + 5
      /\ l[1] = f /\ l[2] = ":" /\ l[3] = " "
      /\ \A j \in 1 .. Len(v) : l[3 + j] = v[j]
      /\ l[Len(v) + 4] = "\r" /\ l[Len(v) + 5] = "\n"
  <2>1. l \in Seq(W) /\ FieldParts(l, f, v)
    BY <1>0, FieldLineFacts
  <2> QED
    BY ONLY <2>1 DEF FieldParts
<1>3. e \in Seq(W) /\ Len(e) = 2 /\ e[1] = "\r" /\ e[2] = "\n"
  <2>1. e \in Seq({"\r", "\n"}) /\ {"\r", "\n"} \subseteq W
    BY DEF EOL, FieldToken
  <2>2. Len(e) = 2 /\ e[1] = "\r" /\ e[2] = "\n"
    BY DEF EOL
  <2> HIDE DEF e, W
  <2>3. e \in Seq(W)
    BY ONLY <2>1, SeqWiden
  <2> QED
    BY <2>2, <2>3
<1> HIDE DEF e, W
<1>4. p \in Nat \ {0} /\ Len(b) = p
  BY DEF NoHost
<1>5. PICK U : U = S \cup W
  OBVIOUS
<1>6. b \in Seq(U) /\ l \in Seq(U) /\ e \in Seq(U)
  <2>1. S \subseteq U /\ W \subseteq U /\ b \in Seq(S) /\ l \in Seq(W) /\ e \in Seq(W)
    BY <1>2, <1>3, <1>5
  <2> QED
    BY ONLY <2>1, SeqWiden
<1>7. /\ q \in Seq(U) /\ Len(q) = p + Len(l)
      /\ \A i \in 1 .. p : q[i] = b[i]
      /\ \A i \in 1 .. Len(l) : q[p + i] = l[i]
  <2>1. b \in Seq(U) /\ l \in Seq(U) /\ q = b \o l
    BY ONLY <1>0, <1>6
  <2>2. /\ q \in Seq(U) /\ Len(q) = Len(b) + Len(l)
        /\ \A i \in 1 .. Len(b) : q[i] = b[i]
        /\ \A i \in 1 .. Len(l) : q[Len(b) + i] = l[i]
    BY ONLY <2>1, ConcatFacts
  <2> QED
    BY ONLY <1>4, <2>2
<1>8. /\ m \in Seq(U) /\ Len(m) = (p + Len(l)) + Len(e)
      /\ \A i \in 1 .. (p + Len(l)) : m[i] = q[i]
      /\ \A i \in 1 .. Len(e) : m[(p + Len(l)) + i] = e[i]
  <2>1. q \in Seq(U) /\ e \in Seq(U) /\ m = q \o e
    BY <1>0, <1>6, <1>7 DEF e
  <2>2. /\ m \in Seq(U) /\ Len(m) = Len(q) + Len(e)
        /\ \A i \in 1 .. Len(q) : m[i] = q[i]
        /\ \A i \in 1 .. Len(e) : m[Len(q) + i] = e[i]
    BY ONLY <2>1, ConcatFacts
  <2> QED
    BY ONLY <1>7, <2>2
<1>9. PICK h : h = Len(v)
  OBVIOUS
<1>10. Len(l) = h + 5 /\ Len(e) = 2 /\ h \in Nat /\ p \in Nat \ {0}
  BY <1>2, <1>3, <1>4, <1>9
<1>11. \A i \in 1 .. p : m[i] = b[i]
  <2>1. \A i \in 1 .. p : i \in 1 .. (p + Len(l))
    BY ONLY <1>10
  <2> QED
    BY ONLY <1>7, <1>8, <2>1
<1>12. \A i \in 1 .. h + 5 : m[p + i] = l[i]
  <2>1. \A i \in 1 .. h + 5 : p + i \in 1 .. (p + Len(l)) /\ i \in 1 .. Len(l)
    BY ONLY <1>10
  <2> QED
    BY ONLY <1>7, <1>8, <2>1
<1>13. m[p + h + 6] = e[1] /\ m[p + h + 7] = e[2] /\ Len(m) = p + h + 7
  <2>1. /\ (p + Len(l)) + 1 = p + h + 6 /\ (p + Len(l)) + 2 = p + h + 7
        /\ 1 \in 1 .. Len(e) /\ 2 \in 1 .. Len(e)
    BY ONLY <1>10
  <2>2. (p + Len(l)) + Len(e) = p + h + 7
    BY ONLY <1>10
  <2> QED
    BY ONLY <1>8, <2>1, <2>2
<1>14. m[p + 1] = l[1] /\ m[p + 2] = l[2] /\ m[p + 3] = l[3] /\ m[p + h + 4] = l[h + 4] /\ m[p + h + 5] = l[h + 5]
  <2>1. /\ 1 \in 1 .. h + 5 /\ 2 \in 1 .. h + 5 /\ 3 \in 1 .. h + 5 /\ h + 4 \in 1 .. h + 5 /\ h + 5 \in 1 .. h + 5
        /\ p + (h + 4) = p + h + 4 /\ p + (h + 5) = p + h + 5
    BY ONLY <1>10
  <2> QED
    BY ONLY <1>12, <2>1
<1>15. \A j \in 1 .. h : m[p + 3 + j] = l[3 + j]
  <2>1. \A j \in 1 .. h : 3 + j \in 1 .. h + 5 /\ p + (3 + j) = p + 3 + j
    BY ONLY <1>10
  <2> QED
    BY ONLY <1>12, <2>1
<1>16. m[p] = b[p]
  BY ONLY <1>10, <1>11
<1>17. HostAt(m, p, v)
  <2>1. b[p] = "\n"
    BY DEF NoHost
  <2>2. f \in {"Host", "host"}
    BY DEF HostNames
  <2>3. /\ m[p] = "\n" /\ m[p + 1] \in {"Host", "host"} /\ m[p + 2] = ":" /\ m[p + 3] = " "
        /\ m[p + h + 4] = "\r" /\ m[p + h + 5] = "\n"
        /\ m[p + h + 6] = "\r" /\ m[p + h + 7] = "\n"
    BY ONLY <1>2, <1>3, <1>9, <1>13, <1>14, <1>16, <2>1, <2>2
  <2>4. \A j \in 1 .. h : m[p + 3 + j] = v[j]
    BY ONLY <1>2, <1>9, <1>15
  <2> QED
    BY ONLY <1>9, <1>10, <1>13, <2>3, <2>4 DEF HostAt
<1>18. \A i \in 1 .. p - 1 : m[i] = "\n" => m[i + 1] \notin {"Host", "host"}
  <2>1. \A i \in 1 .. p - 1 : i \in 1 .. p /\ i + 1 \in 1 .. p
    BY ONLY <1>10
  <2>2. \A i \in 1 .. p - 1 : m[i] = b[i] /\ m[i + 1] = b[i + 1]
    BY ONLY <1>11, <2>1
  <2> QED
    BY <2>2 DEF NoHost
<1>19. m \in Seq(ToSet(m))
  BY <1>8, TextFacts
<1> QED
  BY ONLY <1>11, <1>17, <1>18, <1>19 DEF HostOnce, SameUpTo

\* The request line has no line end in it,
NoEnd(b, n) == \A i \in 1 .. n : b[i] # "\n"

\* The request line has no Host field in it, nor does it end in a newline.
LEMMA FirstLine ==
    ASSUME NEW r, r.name \in Names, r.port \in Ports, r.target \in Seq(Chars),
           r.method = "GET", NEW b, b = AbsLine(r) \o EOL
    PROVE  /\ b \in Seq(AbsToken(r) \cup {"\r", "\n"})
           /\ NoHost(b, Len(AbsLine(r)) + 2)
           /\ SameUpTo(b, AbsLine(r), Len(AbsLine(r)))
           /\ NoEnd(b, Len(AbsLine(r)) + 1)
<1> DEFINE e == EOL
           U == AbsToken(r)
           W == AbsToken(r) \cup {"\r", "\n"}
<1>1. PICK l, N : l = AbsLine(r) /\ N = Len(l)
  OBVIOUS
<1>2. "\n" \notin U
  <2>1. HostToken(r) \cap Space = {}
    BY HostFacts
  <2>2. Chars \cap Space = {}
    BY TargetsPlain DEF IsPlain
  <2> QED
    BY <2>1, <2>2 DEF AbsToken, Space
<1>3. l \in Seq(U) /\ U \subseteq W
  BY <1>1, AbsLineFacts
<1>4. e \in Seq({"\r", "\n"}) /\ {"\r", "\n"} \subseteq W
  BY DEF EOL
<1>5. Len(e) = 2 /\ e[1] = "\r" /\ e[2] = "\n"
  BY DEF EOL
<1>6. b = l \o e
  BY <1>1
<1> HIDE DEF e, U, W
<1>7. l \in Seq(W) /\ e \in Seq(W)
  BY ONLY <1>3, <1>4, SeqWiden
<1>8. /\ b \in Seq(W) /\ N \in Nat /\ Len(b) = N + Len(e)
      /\ \A i \in 1 .. N : b[i] = l[i]
      /\ \A i \in 1 .. Len(e) : b[N + i] = e[i]
  <2>1. /\ b \in Seq(W) /\ Len(l) \in Nat /\ Len(b) = Len(l) + Len(e)
        /\ \A i \in 1 .. Len(l) : b[i] = l[i]
        /\ \A i \in 1 .. Len(e) : b[Len(l) + i] = e[i]
    BY ONLY <1>6, <1>7, ConcatFacts
  <2> QED
    BY ONLY <1>1, <2>1
<1>9. b[N + 1] = "\r" /\ b[N + 2] = "\n" /\ Len(b) = N + 2
  BY ONLY <1>5, <1>8
<1>10. \A i \in 1 .. N : b[i] # "\n"
  <2>1. \A i \in 1 .. N : l[i] \in U
    BY ONLY <1>1, <1>3
  <2> QED
    BY ONLY <1>2, <1>8, <2>1
<1>11. \A i \in 1 .. N + 1 : b[i] # "\n"
  <2>1. \A i \in 1 .. N + 1 : i \in 1 .. N \/ i = N + 1
    BY ONLY <1>8
  <2>2. b[N + 1] # "\n"
    BY ONLY <1>9
  <2> QED
    BY ONLY <1>10, <2>1, <2>2
<1>12. NoHost(b, N + 2)
  <2>1. N + 2 \in Nat \ {0} /\ (N + 2) - 1 = N + 1
    BY ONLY <1>8
  <2> QED
    BY ONLY <1>9, <1>11, <2>1 DEF NoHost
<1> QED
  BY ONLY <1>1, <1>8, <1>11, <1>12 DEF W, SameUpTo, NoEnd

\* and neither has a line with another field.
AcceptLine  == FieldLine("Accept", <<"any">>)
AcceptToken == FieldToken({"any"}, "Accept")

\* The parts of the Accept field.
LEMMA AcceptFacts == AcceptLine \in Seq(AcceptToken) /\ FieldParts(AcceptLine, "Accept", <<"any">>)
<1>1. <<"any">> \in Seq({"any"})
  OBVIOUS
<1> QED
  BY <1>1, FieldLineFacts DEF AcceptLine, AcceptToken

\* A field that is not Host does not change that.
LEMMA OtherLine ==
    ASSUME NEW S, NEW b \in Seq(S), NEW N \in Nat, NoHost(b, N + 2), NoEnd(b, N + 1),
           NEW d, d = b \o AcceptLine
    PROVE  d \in Seq(S \cup AcceptToken) /\ NoHost(d, N + 8) /\ SameUpTo(d, b, N + 2)
<1> DEFINE v == <<"any">>
           X == AcceptToken
           W == S \cup X
<1>1. PICK l : l = AcceptLine
  OBVIOUS
<1>2. v \in Seq({"any"}) /\ Len(v) = 1 /\ v[1] = "any"
  OBVIOUS
<1>3. d = b \o l
  BY <1>1
<1>4. S \subseteq W /\ X \subseteq W
  OBVIOUS
<1> HIDE DEF v, X, W
<1>5. l \in Seq(X) /\ FieldParts(l, "Accept", v)
  BY ONLY <1>1, AcceptFacts DEF X, v
<1>6. /\ Len(l) = 6 /\ l[1] = "Accept" /\ l[2] = ":" /\ l[3] = " " /\ l[4] = "any"
      /\ l[5] = "\r" /\ l[6] = "\n"
  <2>1. Len(v) + 5 = 6 /\ Len(v) + 4 = 5 /\ 1 \in 1 .. Len(v) /\ 3 + 1 = 4
    BY ONLY <1>2
  <2> QED
    BY ONLY <1>2, <1>5, <2>1 DEF FieldParts
<1>7. b \in Seq(W) /\ l \in Seq(W)
  <2>1. b \in Seq(S)
    OBVIOUS
  <2> QED
    BY ONLY <1>4, <1>5, <2>1, SeqWiden
<1>8. Len(b) = N + 2 /\ N \in Nat
  BY DEF NoHost
<1>9. /\ d \in Seq(W) /\ Len(d) = N + 2 + 6
      /\ \A i \in 1 .. N + 2 : d[i] = b[i]
      /\ \A i \in 1 .. 6 : d[(N + 2) + i] = l[i]
  <2>1. /\ d \in Seq(W) /\ Len(d) = Len(b) + Len(l)
        /\ \A i \in 1 .. Len(b) : d[i] = b[i]
        /\ \A i \in 1 .. Len(l) : d[Len(b) + i] = l[i]
    BY ONLY <1>3, <1>7, ConcatFacts
  <2>2. Len(l) = 6
    BY ONLY <1>6
  <2> QED
    BY ONLY <1>8, <2>1, <2>2
<1>10. /\ d[N + 3] = "Accept" /\ d[N + 4] = ":" /\ d[N + 5] = " " /\ d[N + 6] = "any"
       /\ d[N + 7] = "\r" /\ d[N + 8] = "\n"
  <2>1. /\ d[N + 3] = l[1] /\ d[N + 4] = l[2] /\ d[N + 5] = l[3] /\ d[N + 6] = l[4]
        /\ d[N + 7] = l[5] /\ d[N + 8] = l[6]
    <3>1. /\ (N + 2) + 1 = N + 3 /\ (N + 2) + 2 = N + 4 /\ (N + 2) + 3 = N + 5
          /\ (N + 2) + 4 = N + 6 /\ (N + 2) + 5 = N + 7 /\ (N + 2) + 6 = N + 8
      BY ONLY <1>8
    <3>2. /\ 1 \in 1 .. 6 /\ 2 \in 1 .. 6 /\ 3 \in 1 .. 6
          /\ 4 \in 1 .. 6 /\ 5 \in 1 .. 6 /\ 6 \in 1 .. 6
      OBVIOUS
    <3>3. \A i \in 1 .. 6 : d[(N + 2) + i] = l[i]
      BY ONLY <1>9
    <3>4. /\ d[(N + 2) + 1] = l[1] /\ d[(N + 2) + 2] = l[2] /\ d[(N + 2) + 3] = l[3]
          /\ d[(N + 2) + 4] = l[4] /\ d[(N + 2) + 5] = l[5] /\ d[(N + 2) + 6] = l[6]
      BY ONLY <3>2, <3>3
    <3> QED
      BY ONLY <3>1, <3>4
  <2> QED
    BY ONLY <1>6, <2>1
<1>11. ASSUME NEW i \in 1 .. N + 7, d[i] = "\n" PROVE d[i + 1] = "Accept"
  <2>1. \/ i \in 1 .. N + 1 \/ i = N + 2 \/ i = N + 3 \/ i = N + 4 \/ i = N + 5 \/ i = N + 6
        \/ i = N + 7
    BY ONLY <1>8, i \in 1 .. N + 7
  <2>2. i \notin 1 .. N + 1
    <3>1. \A k \in 1 .. N + 1 : k \in 1 .. N + 2
      BY ONLY <1>8
    <3>2. \A k \in 1 .. N + 1 : d[k] = b[k]
      BY ONLY <1>9, <3>1
    <3>3. \A k \in 1 .. N + 1 : d[k] # "\n"
      BY <3>2 DEF NoEnd
    <3> QED
      BY ONLY <3>3, d[i] = "\n"
  <2>3. i # N + 3 /\ i # N + 4 /\ i # N + 5 /\ i # N + 6 /\ i # N + 7
    BY ONLY <1>10, d[i] = "\n"
  <2>4. i + 1 = N + 3
    BY ONLY <1>8, <2>1, <2>2, <2>3
  <2> QED
    BY ONLY <1>10, <2>4
<1>12. NoHost(d, N + 8)
  <2>1. N + 8 \in Nat \ {0} /\ (N + 8) - 1 = N + 7 /\ N + 2 + 6 = N + 8
    BY ONLY <1>8
  <2>2. \A i \in 1 .. N + 7 : d[i] = "\n" => d[i + 1] \notin {"Host", "host"}
    BY ONLY <1>11
  <2>3. Len(d) = N + 8 /\ d[N + 8] = "\n"
    BY ONLY <1>9, <1>10, <2>1
  <2> QED
    BY ONLY <2>1, <2>2, <2>3 DEF NoHost
<1> QED
  BY ONLY <1>9, <1>12 DEF W, X, SameUpTo

\* A request to the proxy: its line, and the one place of the Host field.
LEMMA RequestShape ==
    ASSUME NEW r \in Requests, r.via # "server", NEW m, m = RequestText(r)
    PROVE  /\ m \in Seq(ToSet(m))
           /\ \E p \in Nat \ {0} : /\ HostAt(m, p, Host(r)) /\ HostOnce(m, p)
                                   /\ p >= Len(AbsLine(r)) + 2
           /\ SameUpTo(m, AbsLine(r), Len(AbsLine(r)))
<1>1. /\ r.method = "GET" /\ r.name \in Names /\ r.port \in Ports
      /\ r.target \in Seq(Chars)
      /\ r.fields = <<"Host">> \/ r.fields = <<"Accept", "host">>
  BY ProxiedFacts
<1>2. PICK v, l, N, H : v = Host(r) /\ l = AbsLine(r) /\ N = Len(l) /\ H = HeaderLines(r)
  OBVIOUS
<1>3. PICK b : b = AbsLine(r) \o EOL
  OBVIOUS
<1>4. m = (b \o H) \o EOL
  BY <1>2, <1>3 DEF RequestText, AbsLine
<1>5. v \in Seq(HostToken(r)) /\ N \in Nat
  BY <1>1, <1>2, HostFacts, AbsLineFacts, SeqFacts
<1>6. PICK S : S = AbsToken(r) \cup {"\r", "\n"}
  OBVIOUS
<1>7. b \in Seq(S) /\ NoHost(b, N + 2) /\ SameUpTo(b, l, N) /\ NoEnd(b, N + 1)
  BY <1>1, <1>2, <1>3, <1>6, FirstLine
<1>8. "Host" \in HostNames /\ "host" \in HostNames
  BY DEF HostNames
<1>9. CASE H = FieldLine("Host", v)
  <2>1. m = (b \o FieldLine("Host", v)) \o EOL
    BY ONLY <1>4, <1>9
  <2>2. m \in Seq(ToSet(m)) /\ HostAt(m, N + 2, v) /\ HostOnce(m, N + 2) /\ SameUpTo(m, b, N + 2)
    BY ONLY <1>5, <1>7, <1>8, <2>1, HostAtFacts
  <2>3. SameUpTo(m, l, N)
    BY ONLY <1>5, <1>7, <2>2 DEF SameUpTo
  <2>4. N + 2 \in Nat \ {0} /\ N + 2 >= N + 2
    BY ONLY <1>5
  <2> QED
    BY <1>2, <2>2, <2>3, <2>4
<1>10. CASE H = AcceptLine \o FieldLine("host", v)
  <2>1. PICK c, d, W : c = FieldLine("host", v) /\ d = b \o AcceptLine /\ W = S \cup AcceptToken
    OBVIOUS
  <2>2. d \in Seq(W) /\ NoHost(d, N + 8) /\ SameUpTo(d, b, N + 2)
    BY ONLY <1>5, <1>7, <2>1, OtherLine
  <2>3. b \o H = d \o c
    <3>1. PICK Y : Y = S \cup AcceptToken \cup FieldToken(HostToken(r), "host")
      OBVIOUS
    <3>2. AcceptLine \in Seq(AcceptToken)
      BY AcceptFacts
    <3>3. c \in Seq(FieldToken(HostToken(r), "host"))
      BY ONLY <1>5, <2>1, FieldLineFacts
    <3>4. S \subseteq Y /\ AcceptToken \subseteq Y /\ FieldToken(HostToken(r), "host") \subseteq Y
      BY ONLY <3>1
    <3>5. b \in Seq(Y) /\ AcceptLine \in Seq(Y) /\ c \in Seq(Y)
      BY ONLY <1>7, <3>2, <3>3, <3>4, SeqWiden
    <3>6. (b \o AcceptLine) \o c = b \o (AcceptLine \o c)
      BY ONLY <3>5, ConcatAssociative
    <3> QED
      BY ONLY <1>10, <2>1, <3>6
  <2>4. m = (d \o FieldLine("host", v)) \o EOL
    BY ONLY <1>4, <2>1, <2>3
  <2>5. m \in Seq(ToSet(m)) /\ HostAt(m, N + 8, v) /\ HostOnce(m, N + 8) /\ SameUpTo(m, d, N + 8)
    BY ONLY <1>5, <1>8, <2>2, <2>4, HostAtFacts
  <2>6. SameUpTo(m, l, N)
    BY ONLY <1>5, <1>7, <2>2, <2>5 DEF SameUpTo
  <2>7. N + 8 \in Nat \ {0} /\ N + 8 >= N + 2
    BY ONLY <1>5
  <2> QED
    BY <1>2, <2>5, <2>6, <2>7
<1> QED
  BY <1>1, <1>2, <1>9, <1>10, HeaderFacts DEF AcceptLine

----------------------------------------------------------------------------
(* What the proxy finds in them: the Host field,                           *)

\* Two characters in a row.
LEMMA TwoOf ==
    ASSUME NEW S, NEW f \in Seq(S), NEW k \in Nat \ {0}, k + 1 <= Len(f)
    PROVE  SubSeq(f, k, k + 1) = <<f[k], f[k + 1]>>
<1> DEFINE r == SubSeq(f, k, k + 1)
<1>1. Len(f) \in Nat
  OBVIOUS
<1>2. \A j \in k .. k + 1 : f[j] \in S
  BY <1>1
<1>3. /\ SubSeq(f, k, k + 1) \in Seq(S)
      /\ Len(SubSeq(f, k, k + 1)) = IF k <= k + 1 THEN (k + 1) - k + 1 ELSE 0
      /\ \A j \in 1 .. (k + 1) - k + 1 : SubSeq(f, k, k + 1)[j] = f[k + j - 1]
  BY <1>2, SubSeqProperties
<1>4. (k + 1) - k + 1 = 2 /\ k <= k + 1
  OBVIOUS
<1>5. r \in Seq(S) /\ Len(r) = 2 /\ \A j \in 1 .. 2 : r[j] = f[k + j - 1]
  BY <1>3, <1>4
<1> HIDE DEF r
<1>6. k + 1 - 1 = k /\ k + 2 - 1 = k + 1
  OBVIOUS
<1>7. r[1] = f[k] /\ r[2] = f[k + 1]
  BY <1>5, <1>6
<1>8. r = <<f[k], f[k + 1]>>
  BY <1>5, <1>7
<1> QED
  BY <1>8 DEF r

\* strstr() is the place of the first match.
LEMMA strstrAt ==
    ASSUME NEW S, NEW s \in Seq(S), NEW sub, NEW k \in 1 .. Len(s), Matches(s, k, sub),
           \A i \in 1 .. k - 1 : ~ Matches(s, i, sub)
    PROVE  strstr(s, sub) = k
<1> DEFINE hits == [i \in 1 .. Len(s) |-> Matches(s, i, sub)]
           I == {i \in 1 .. Len(hits) : hits[i]}
<1>1. Len(hits) = Len(s) /\ Len(s) \in Nat /\ I \subseteq Nat /\ k \in I
  OBVIOUS
<1>2. strstr(s, sub) = Min(I)
  BY <1>1 DEF strstr, SelectInSeq
<1>3. Min(I) \in I /\ \A j \in I : Min(I) <= j
  BY <1>1, MinFacts
<1> DEFINE m == Min(I)
<1>4. m \in 1 .. Len(s) /\ Matches(s, m, sub) /\ m <= k
  BY <1>1, <1>3
<1> HIDE DEF m
<1>5. m = k
  BY <1>1, <1>4
<1> QED
  BY <1>2, <1>5 DEF m

\* strstr() returns 0 where there is no occurrence.
LEMMA strstrNone ==
    ASSUME NEW S, NEW s \in Seq(S), NEW sub, \A i \in 1 .. Len(s) : ~ Matches(s, i, sub)
    PROVE  strstr(s, sub) = 0
<1> DEFINE hits == [i \in 1 .. Len(s) |-> Matches(s, i, sub)]
           I == {i \in 1 .. Len(hits) : hits[i]}
<1>1. Len(hits) = Len(s) /\ I = {}
  OBVIOUS
<1> QED
  BY <1>1 DEF strstr, SelectInSeq

\* strcasestr() finds the field in either spelling.
HostField == <<"\n", "Host">>
IsHit(s, i) == s[i] = "\n" /\ s[i + 1] \in HostNames

\* Only the two spellings of Host become the same.
LEMMA UpperFacts ==
    ASSUME NEW S, NEW s \in Seq(S), NEW i \in Nat \ {0}, i + 1 <= Len(s)
    PROVE  Matches(UpperAll(s), i, UpperAll(HostField)) <=> IsHit(s, i)
<1> DEFINE u == UpperAll(s)
<1>1. Len(s) \in Nat /\ DOMAIN s = 1 .. Len(s)
  OBVIOUS
<1>2. u = [j \in 1 .. Len(s) |-> Upper(s[j])]
  BY <1>1 DEF UpperAll
<1>3. u \in Seq({Upper(s[j]) : j \in 1 .. Len(s)}) /\ Len(u) = Len(s)
  BY <1>1, <1>2
<1>4. u[i] = Upper(s[i]) /\ u[i + 1] = Upper(s[i + 1])
  BY <1>1, <1>2
<1> HIDE DEF u
<1>5. SubSeq(u, i, i + 1) = <<u[i], u[i + 1]>>
  <2>1. i + 1 <= Len(u)
    BY <1>3
  <2> QED
    BY ONLY <1>3, <2>1, i \in Nat \ {0}, TwoOf
<1>6. UpperAll(HostField) = HostField
  <2>1. DOMAIN HostField = 1 .. 2 /\ HostField[1] = "\n" /\ HostField[2] = "Host"
    BY DEF HostField
  <2>2. UpperAll(HostField) = [j \in 1 .. 2 |-> Upper(HostField[j])]
    BY <2>1 DEF UpperAll
  <2>3. Upper(HostField[1]) = "\n" /\ Upper(HostField[2]) = "Host"
    BY <2>1 DEF Upper
  <2> QED
    BY <2>2, <2>3 DEF HostField
<1>7. i + 2 - 1 = i + 1 /\ Len(HostField) = 2
  BY DEF HostField
<1>8. Matches(u, i, HostField) <=> <<u[i], u[i + 1]>> = HostField
  BY <1>3, <1>5, <1>7 DEF Matches
<1>9. <<u[i], u[i + 1]>> = HostField <=> u[i] = "\n" /\ u[i + 1] = "Host"
  BY DEF HostField
<1>10. (Upper(s[i]) = "\n" <=> s[i] = "\n") /\ (Upper(s[i + 1]) = "Host" <=> s[i + 1] \in {"Host", "host"})
  BY DEF Upper
<1> QED
  BY <1>4, <1>6, <1>8, <1>9, <1>10 DEF u, IsHit, HostNames

\* strcasestr() finds the first Host field that is not at the very end.
LEMMA strcasestrFacts ==
    ASSUME NEW S, NEW s \in Seq(S), NEW p, p = strcasestr(s, HostField)
    PROVE  \/ p = 0 /\ \A i \in 1 .. Len(s) - 2 : ~ IsHit(s, i)
           \/ p \in 1 .. Len(s) - 2 /\ IsHit(s, p) /\ \A i \in 1 .. Len(s) - 2 : IsHit(s, i) => p <= i
<1> DEFINE H == {i \in 1 .. Len(s) - Len(HostField) : Matches(UpperAll(s), i, UpperAll(HostField))}
           I == {i \in 1 .. Len(s) - 2 : IsHit(s, i)}
<1>1. Len(HostField) = 2 /\ Len(s) \in Nat
  BY DEF HostField
<1>2. \A i \in 1 .. Len(s) - 2 : i \in Nat \ {0} /\ i + 1 <= Len(s)
  BY <1>1
<1>3. \A i \in 1 .. Len(s) - 2 : Matches(UpperAll(s), i, UpperAll(HostField)) <=> IsHit(s, i)
  BY <1>2, UpperFacts
<1>4. H = I
  BY <1>1, <1>3
<1>5. p = IF H = {} THEN 0 ELSE CHOOSE i \in H : \A j \in H : i <= j
  BY DEF strcasestr
<1>6. I \subseteq Nat
  BY <1>2
<1> HIDE DEF H, I
<1>7. CASE I = {}
  BY <1>4, <1>5, <1>7 DEF I
<1>8. CASE I # {}
  <2>1. \E i \in I : \A j \in I : i <= j
    BY <1>6, <1>8, LeastOne
  <2>2. p \in I /\ \A j \in I : p <= j
    BY <1>4, <1>5, <1>8, <2>1
  <2> QED
    BY <2>2 DEF I
<1> QED
  BY <1>7, <1>8

\* A slice of a text.
LEMMA SliceFacts ==
    ASSUME NEW S, NEW s \in Seq(S), NEW i \in Nat \ {0}, NEW j \in Nat, i <= j + 1, j <= Len(s)
    PROVE  /\ SubSeq(s, i, j) \in Seq(S) /\ Len(SubSeq(s, i, j)) = j - i + 1
           /\ \A k \in 1 .. (j - i + 1) : SubSeq(s, i, j)[k] = s[i + k - 1]
  OBVIOUS

\* EOL is where its two characters are.
LEMMA EOLFacts ==
    ASSUME NEW S, NEW s \in Seq(S), NEW i \in Nat \ {0}
    PROVE  Matches(s, i, EOL) <=> i + 1 <= Len(s) /\ s[i] = "\r" /\ s[i + 1] = "\n"
<1>1. i + 2 - 1 = i + 1 /\ Len(EOL) = 2
  BY DEF EOL
<1>2. Matches(s, i, EOL) <=> i + 1 <= Len(s) /\ SubSeq(s, i, i + 1) = EOL
  BY <1>1 DEF Matches
<1>3. i + 1 <= Len(s) => SubSeq(s, i, i + 1) = <<s[i], s[i + 1]>>
  BY TwoOf
<1>4. <<s[i], s[i + 1]>> = EOL <=> s[i] = "\r" /\ s[i + 1] = "\n"
  BY DEF EOL
<1> QED
  BY <1>2, <1>3, <1>4

\* The line of the field, up to the end of its value: what the rest of
\* getHeaderField() sees when the field has been found.
FoundLine(line, v) ==
    /\ Len(v) \in Nat /\ Len(line) >= Len(v) + 6
    /\ line[1] = "\n" /\ line[2] \in HostNames /\ line[3] = ":" /\ line[4] = " "
    /\ \A j \in 1 .. Len(v) : line[4 + j] = v[j]
    /\ line[Len(v) + 5] = "\r" /\ line[Len(v) + 6] = "\n"

ValueOf(line) == LET value == SubSeq(line, strchr(line, ":") + 1, strstr(line, EOL) - 1)
                 IN  From(value, SelectInSeq(value, LAMBDA c : c # " "))

\* The value of a Host field is what was written.
LEMMA ValueFacts ==
    ASSUME NEW S, NEW line \in Seq(S), NEW V, NEW v \in Seq(V), v # <<>>,
           \A j \in 1 .. Len(v) : v[j] \notin Space, FoundLine(line, v)
    PROVE  strstr(line, EOL) # 0 /\ ValueOf(line) = v
<1> DEFINE h == Len(v)
<1>1. h \in Nat \ {0} /\ Len(line) \in Nat /\ Len(line) >= h + 6
  <2>1. Len(line) >= h + 6
    BY DEF FoundLine
  <2>2. h \in Nat \ {0} /\ Len(line) \in Nat
    BY ONLY line \in Seq(S), v \in Seq(V), v # <<>>, SeqFacts
  <2> QED
    BY ONLY <2>1, <2>2
<1>2. strchr(line, ":") = 3
  <2>1. PICK k, c : k = 3 /\ c = ":"
    OBVIOUS
  <2>2. line[1] # c /\ line[2] # c /\ line[k] = c
    BY <2>1 DEF FoundLine, HostNames
  <2>3. k \in 1 .. Len(line) /\ \A i \in 1 .. k - 1 : i = 1 \/ i = 2
    BY ONLY <1>1, <2>1
  <2>4. \A i \in 1 .. k - 1 : line[i] # c
    BY ONLY <2>2, <2>3
  <2>5. strchr(line, c) = k
    BY ONLY line \in Seq(S), <2>2, <2>3, <2>4, strchrAt
  <2> QED
    BY ONLY <2>1, <2>5
<1>3. PICK cr, nl : cr = "\r" /\ nl = "\n"
  OBVIOUS
<1>4. /\ line[1] = nl /\ line[2] # nl /\ line[3] # nl /\ line[4] # nl
      /\ line[h + 5] = cr /\ line[h + 6] = nl /\ cr # nl
      /\ \A j \in 1 .. h : line[4 + j] # nl
  <2>1. \A j \in 1 .. h : line[4 + j] = v[j]
    BY DEF FoundLine
  <2>2. \A j \in 1 .. h : v[j] # nl
    BY <1>3 DEF Space
  <2>3. \A j \in 1 .. h : line[4 + j] # nl
    BY ONLY <2>1, <2>2
  <2> QED
    BY <1>3, <2>3 DEF FoundLine, HostNames
<1> HIDE DEF h
<1>5. \A i \in 2 .. h + 5 : line[i] # nl
  <2> SUFFICES ASSUME NEW i \in 2 .. h + 5 PROVE line[i] # nl
    OBVIOUS
  <2>1. i = 2 \/ i = 3 \/ i = 4 \/ i = h + 5 \/ (i - 4 \in 1 .. h /\ i = 4 + (i - 4))
    BY ONLY <1>1, i \in 2 .. h + 5
  <2>2. line[h + 5] # nl
    BY ONLY <1>4
  <2> QED
    BY ONLY <1>4, <2>1, <2>2
<1>6. strstr(line, EOL) = h + 5
  <2>1. h + 5 \in 1 .. Len(line) /\ h + 5 \in Nat \ {0} /\ (h + 5) + 1 = h + 6
    BY ONLY <1>1
  <2>2. Matches(line, h + 5, EOL)
    <3>1. (h + 5) + 1 <= Len(line) /\ line[h + 5] = "\r" /\ line[(h + 5) + 1] = "\n"
      BY ONLY <1>1, <1>3, <1>4, <2>1
    <3> QED
      BY ONLY line \in Seq(S), <2>1, <3>1, EOLFacts
  <2>3. ASSUME NEW i \in 1 .. (h + 5) - 1 PROVE ~ Matches(line, i, EOL)
    <3>1. i \in Nat \ {0} /\ i + 1 \in 2 .. h + 5
      BY ONLY <1>1, i \in 1 .. (h + 5) - 1
    <3>2. line[i + 1] # "\n"
      BY ONLY <1>3, <1>5, <3>1
    <3> QED
      BY ONLY line \in Seq(S), <3>1, <3>2, EOLFacts
  <2> QED
    BY ONLY line \in Seq(S), <2>1, <2>2, <2>3, strstrAt
<1> DEFINE value == SubSeq(line, 4, h + 4)
           first == SelectInSeq(value, LAMBDA c : c # " ")
<1>7. ValueOf(line) = From(value, first)
  <2>1. (h + 5) - 1 = h + 4 /\ 3 + 1 = 4
    BY <1>1
  <2> QED
    BY <1>2, <1>6, <2>1 DEF ValueOf
<1>8. /\ value \in Seq(S) /\ Len(value) = h + 1
      /\ \A k \in 1 .. h + 1 : value[k] = line[k + 3]
  <2>1. PICK i, j : i = 4 /\ j = h + 4
    OBVIOUS
  <2>2. i \in Nat \ {0} /\ j \in Nat /\ i <= j + 1 /\ j <= Len(line)
    BY ONLY <1>1, <2>1
  <2>3. /\ SubSeq(line, i, j) \in Seq(S) /\ Len(SubSeq(line, i, j)) = j - i + 1
        /\ \A k \in 1 .. (j - i + 1) : SubSeq(line, i, j)[k] = line[i + k - 1]
    BY ONLY line \in Seq(S), <2>2, SliceFacts
  <2>4. j - i + 1 = h + 1 /\ \A k \in 1 .. h + 1 : i + k - 1 = k + 3
    BY ONLY <1>1, <2>1
  <2> QED
    BY <2>1, <2>3, <2>4
<1> HIDE DEF value
<1>9. value[1] = " " /\ \A j \in 1 .. h : value[j + 1] = v[j]
  <2>1. /\ 1 \in 1 .. h + 1 /\ 1 + 3 = 4
        /\ \A j \in 1 .. h : j + 1 \in 1 .. h + 1 /\ (j + 1) + 3 = 4 + j
    BY ONLY <1>1
  <2>2. value[1] = line[4] /\ \A j \in 1 .. h : value[j + 1] = line[4 + j]
    BY ONLY <1>8, <2>1
  <2> QED
    BY <2>2 DEF FoundLine, h
<1>10. first = 2
  <2>0. PICK c : c = " "
    OBVIOUS
  <2> DEFINE I == {i \in 1 .. Len(value) : value[i] # c}
  <2>1. I \subseteq 1 .. Len(value) /\ I \subseteq Nat /\ 2 \in I /\ 1 \notin I
    <3>1. 1 \in 1 .. h /\ 1 + 1 = 2 /\ 2 \in 1 .. Len(value)
      BY ONLY <1>1, <1>8
    <3>2. value[2] = v[1]
      BY ONLY <1>9, <3>1
    <3>3. v[1] # c
      BY <2>0, <3>1 DEF Space, h
    <3>4. value[1] = c
      BY <1>9, <2>0
    <3>5. Len(value) \in Nat
      BY ONLY <1>1, <1>8
    <3> QED
      BY ONLY <3>1, <3>2, <3>3, <3>4, <3>5
  <2>2. first = IF I # {} THEN Min(I) ELSE 0
    BY <2>0 DEF SelectInSeq
  <2> HIDE DEF I
  <2>3. Min(I) \in I /\ \A j \in I : Min(I) <= j
    BY ONLY <2>1, MinFacts
  <2>4. PICK m : m = Min(I)
    OBVIOUS
  <2>5. m \in 1 .. Len(value) /\ m # 1 /\ m <= 2
    BY ONLY <2>1, <2>3, <2>4
  <2>6. m = 2
    BY ONLY <1>1, <1>8, <2>5
  <2> QED
    BY ONLY <2>1, <2>2, <2>4, <2>6
<1>11. From(value, 2) = v
  <2>1. PICK i : i = 2
    OBVIOUS
  <2>2. i \in Nat \ {0} /\ i <= Len(value) + 1
    BY ONLY <1>1, <1>8, <2>1
  <2>3. /\ From(value, i) \in Seq(S) /\ Len(From(value, i)) = Len(value) - i + 1
        /\ \A j \in 1 .. (Len(value) - i + 1) : From(value, i)[j] = value[i + j - 1]
    BY ONLY <1>8, <2>2, FromFacts
  <2>4. Len(value) - i + 1 = h /\ \A j \in 1 .. h : i + j - 1 = j + 1
    BY ONLY <1>1, <1>8, <2>1
  <2>5. Len(From(value, i)) = Len(v) /\ \A j \in 1 .. Len(v) : From(value, i)[j] = v[j]
    BY ONLY <1>9, <2>3, <2>4 DEF h
  <2>6. From(value, i) = v
    BY ONLY <2>3, <2>5, v \in Seq(V)
  <2> QED
    BY ONLY <2>1, <2>6
<1>12. h + 5 # 0
  BY ONLY <1>1
<1> QED
  BY <1>6, <1>7, <1>10, <1>11, <1>12

\* A text without white space.
PlainText(v) == v # <<>> /\ \A j \in 1 .. Len(v) : v[j] \notin Space

\* A request cut at n, with its Host field at p, in which the field is found.
CutHost(S, V, m, v, p, n, hd) ==
    /\ m \in Seq(S) /\ v \in Seq(V) /\ PlainText(v)
    /\ p \in Nat \ {0} /\ HostAt(m, p, v) /\ HostOnce(m, p)
    /\ n \in 0 .. Len(m) /\ hd = SubSeq(m, 1, n)
    /\ getHeaderField(hd, HostField) # NULL

\* What the proxy takes from a header that was cut anywhere: the host, or it
\* sees that there is none.
LEMMA GetHost ==
    ASSUME NEW S, NEW V, NEW m, NEW v, NEW p, NEW n, NEW hd,
           CutHost(S, V, m, v, p, n, hd)
    PROVE  getHeaderField(hd, HostField) = v /\ n >= p + 5
<1>0. /\ m \in Seq(S) /\ v \in Seq(V) /\ PlainText(v)
      /\ p \in Nat \ {0} /\ HostAt(m, p, v) /\ HostOnce(m, p)
      /\ n \in 0 .. Len(m) /\ hd = SubSeq(m, 1, n)
      /\ getHeaderField(hd, HostField) # NULL
  BY DEF CutHost
<1> USE <1>0
<1>1. PICK h : h = Len(v)
  OBVIOUS
<1>2. PICK i : i = strcasestr(hd, HostField)
  OBVIOUS
<1>3. PICK line : line = From(hd, i)
  OBVIOUS
<1>4. i # 0 /\ strstr(line, EOL) # 0 /\ getHeaderField(hd, HostField) = ValueOf(line)
  BY <1>2, <1>3 DEF getHeaderField, ValueOf
<1>5. n \in Nat /\ n <= Len(m) /\ h \in Nat /\ p \in Nat \ {0} /\ Len(m) = p + h + 7
  <2>1. Len(m) \in Nat /\ Len(v) \in Nat
    BY SeqFacts
  <2>2. Len(m) = p + Len(v) + 7
    BY DEF HostAt
  <2>3. n \in 0 .. Len(m) /\ p \in Nat \ {0}
    OBVIOUS
  <2> QED
    BY ONLY <1>1, <2>1, <2>2, <2>3
<1>6. hd \in Seq(S) /\ Len(hd) = n /\ \A j \in 1 .. n : hd[j] = m[j]
  <2>1. m \in Seq(S) /\ hd = SubSeq(m, 1, n)
    OBVIOUS
  <2> QED
    BY ONLY <1>5, <2>1, PartFacts
<1>7. i \in 1 .. n - 2 /\ IsHit(hd, i) /\ \A j \in 1 .. n - 2 : IsHit(hd, j) => i <= j
  <2>1. \/ i = 0 /\ \A j \in 1 .. Len(hd) - 2 : ~ IsHit(hd, j)
        \/ i \in 1 .. Len(hd) - 2 /\ IsHit(hd, i) /\ \A j \in 1 .. Len(hd) - 2 : IsHit(hd, j) => i <= j
    BY ONLY <1>2, <1>6, strcasestrFacts
  <2> QED
    BY ONLY <1>4, <1>6, <2>1
\* The field is where it was written, and nowhere before.
<1>8. i = p
  <2>1. ~ (i < p)
    <3>1. SUFFICES ASSUME i < p PROVE FALSE
      OBVIOUS
    <3>2. i \in 1 .. n /\ i + 1 \in 1 .. n /\ i \in 1 .. p - 1
      BY ONLY <1>5, <1>7, <3>1
    <3>3. hd[i] = m[i] /\ hd[i + 1] = m[i + 1]
      BY ONLY <1>6, <3>2
    <3> QED
      BY <1>7, <3>2, <3>3 DEF IsHit, HostOnce, HostNames
  <2>2. ~ (p < i)
    <3>1. SUFFICES ASSUME p < i PROVE FALSE
      OBVIOUS
    <3>2. p \in 1 .. n /\ p + 1 \in 1 .. n /\ p \in 1 .. n - 2 /\ ~ (i <= p)
      BY ONLY <1>5, <1>7, <3>1
    <3>3. hd[p] = m[p] /\ hd[p + 1] = m[p + 1]
      BY ONLY <1>6, <3>2
    <3>4. IsHit(hd, p)
      BY <3>3 DEF HostAt, IsHit, HostNames
    <3> QED
      BY ONLY <1>7, <3>2, <3>4
  <2> QED
    BY ONLY <1>5, <1>7, <2>1, <2>2
<1>9. p + 2 <= n
  BY ONLY <1>5, <1>7, <1>8
<1>10. line \in Seq(S) /\ Len(line) = n - p + 1 /\ \A j \in 1 .. n - p + 1 : line[j] = m[p + j - 1]
  <2>1. p \in Nat \ {0} /\ p <= Len(hd) + 1 /\ line = From(hd, p)
    BY ONLY <1>3, <1>5, <1>6, <1>8, <1>9
  <2>2. /\ line \in Seq(S) /\ Len(line) = Len(hd) - p + 1
        /\ \A j \in 1 .. (Len(hd) - p + 1) : line[j] = hd[p + j - 1]
    BY ONLY <1>6, <2>1, FromFacts
  <2>3. \A j \in 1 .. n - p + 1 : p + j - 1 \in 1 .. n
    BY ONLY <1>5, <1>9
  <2> QED
    BY ONLY <1>6, <2>2, <2>3
\* The line is there as a whole: otherwise its end is not found.
<1>11. n >= p + h + 5
  <2>1. SUFFICES ASSUME n < p + h + 5 PROVE FALSE
    BY <1>5
  <2>2. ASSUME NEW j \in 1 .. Len(line) PROVE ~ Matches(line, j, EOL)
    <3>1. SUFFICES ASSUME j + 1 <= Len(line), line[j + 1] = "\n" PROVE FALSE
      <4>1. j \in Nat \ {0}
        OBVIOUS
      <4> QED
        BY ONLY <1>10, <4>1, EOLFacts, j + 1 <= Len(line) /\ line[j + 1] = "\n" => FALSE
    <3>2. PICK k : k = p + j
      OBVIOUS
    <3>3. j + 1 \in 1 .. n - p + 1 /\ p + (j + 1) - 1 = k /\ k \in p + 1 .. p + h + 4
      BY ONLY <1>5, <1>10, <2>1, <3>1, <3>2, j \in 1 .. Len(line)
    <3>4. m[k] = "\n"
      BY ONLY <1>10, <3>1, <3>3
    <3>5. k = p + 1 \/ k = p + 2 \/ k = p + 3 \/ k = p + h + 4 \/ (k - (p + 3) \in 1 .. h /\ k = p + 3 + (k - (p + 3)))
      BY ONLY <1>5, <3>3
    <3>6. m[p + 1] # "\n" /\ m[p + 2] # "\n" /\ m[p + 3] # "\n" /\ m[p + h + 4] # "\n"
      BY <1>1 DEF HostAt
    <3>7. \A x \in 1 .. h : m[p + 3 + x] # "\n"
      <4>1. PICK nl : nl = "\n"
        OBVIOUS
      <4>2. \A x \in 1 .. h : v[x] # nl
        BY <1>1, <4>1 DEF PlainText, Space
      <4>3. \A x \in 1 .. h : m[p + 3 + x] = v[x]
        BY <1>1 DEF HostAt
      <4>4. \A x \in 1 .. h : m[p + 3 + x] # nl
        BY ONLY <4>2, <4>3
      <4> QED
        BY ONLY <4>1, <4>4
    <3> QED
      BY ONLY <3>4, <3>5, <3>6, <3>7
  <2>3. strstr(line, EOL) = 0
    BY ONLY <1>10, <2>2, strstrNone
  <2> QED
    BY ONLY <1>4, <2>3
<1>12. FoundLine(line, v)
  <2>1. Len(line) >= h + 6
    BY ONLY <1>5, <1>10, <1>11
  <2>2. \A j \in 1 .. h + 6 : line[j] = m[p + j - 1]
    BY ONLY <1>5, <1>10, <2>1
  <2>3. /\ line[1] = m[p] /\ line[2] = m[p + 1] /\ line[3] = m[p + 2] /\ line[4] = m[p + 3]
        /\ line[h + 5] = m[p + h + 4] /\ line[h + 6] = m[p + h + 5]
    <3>1. /\ 1 \in 1 .. h + 6 /\ 2 \in 1 .. h + 6 /\ 3 \in 1 .. h + 6 /\ 4 \in 1 .. h + 6
          /\ h + 5 \in 1 .. h + 6 /\ h + 6 \in 1 .. h + 6
          /\ p + 1 - 1 = p /\ p + 2 - 1 = p + 1 /\ p + 3 - 1 = p + 2 /\ p + 4 - 1 = p + 3
          /\ p + (h + 5) - 1 = p + h + 4 /\ p + (h + 6) - 1 = p + h + 5
      BY ONLY <1>5
    <3> QED
      BY ONLY <2>2, <3>1
  <2>4. \A j \in 1 .. h : line[4 + j] = m[p + 3 + j]
    <3>1. \A j \in 1 .. h : 4 + j \in 1 .. h + 6 /\ p + (4 + j) - 1 = p + 3 + j
      BY ONLY <1>5
    <3> QED
      BY ONLY <2>2, <3>1
  <2>5. /\ m[p] = "\n" /\ m[p + 1] \in {"Host", "host"} /\ m[p + 2] = ":" /\ m[p + 3] = " "
        /\ m[p + h + 4] = "\r" /\ m[p + h + 5] = "\n"
    BY <1>1 DEF HostAt
  <2>6. \A j \in 1 .. h : line[4 + j] = v[j]
    <3>1. \A j \in 1 .. h : m[p + 3 + j] = v[j]
      BY <1>1 DEF HostAt
    <3> QED
      BY ONLY <2>4, <3>1
  <2> QED
    BY ONLY <1>1, <1>5, <2>1, <2>3, <2>5, <2>6 DEF FoundLine, HostNames
<1>13. ValueOf(line) = v
  <2>1. v \in Seq(V) /\ v # <<>> /\ \A j \in 1 .. Len(v) : v[j] \notin Space
    BY DEF PlainText
  <2> QED
    BY ONLY <1>10, <1>12, <2>1, ValueFacts
<1>14. n >= p + 5
  BY ONLY <1>5, <1>11
<1> QED
  BY ONLY <1>4, <1>13, <1>14

\* The proxy's rewriting leaves the request line a client of the server sends.
LEMMA StripFacts ==
    ASSUME NEW r \in Requests, r.via # "server", NEW m, m = RequestText(r),
           NEW n \in 0 .. Len(m), NEW hd, hd = SubSeq(m, 1, n),
           getHeaderField(hd, HostField) # NULL
    PROVE  /\ getHeaderField(hd, HostField) = Host(r)
           /\ IsText(stripAbsURL(hd)) /\ Agree(stripAbsURL(hd), RequestLine(r))
<1>1. /\ r.method = "GET" /\ r.name \in Names /\ r.port \in Ports /\ r.target \in Seq(Chars)
  BY ProxiedFacts
<1>2. PICK v, t, A, l : v = Host(r) /\ t = r.target /\ A = AbsLine(r) /\ l = RequestLine(r)
  OBVIOUS
<1>3. PICK V : v \in Seq(V) /\ v # <<>> /\ V \cap Space = {}
  BY <1>1, <1>2, HostFacts
<1>4. /\ m \in Seq(ToSet(m)) /\ SameUpTo(m, A, Len(A))
      /\ \E p \in Nat \ {0} : HostAt(m, p, v) /\ HostOnce(m, p) /\ p >= Len(A) + 2
  BY <1>2, RequestShape
<1>5. PICK p \in Nat \ {0} : HostAt(m, p, v) /\ HostOnce(m, p) /\ p >= Len(A) + 2
  BY <1>4
<1>6. PlainText(v)
  BY ONLY <1>3 DEF PlainText
<1>7. getHeaderField(hd, HostField) = v /\ n >= p + 5
  <2>1. n \in 0 .. Len(m) /\ hd = SubSeq(m, 1, n) /\ getHeaderField(hd, HostField) # NULL
    OBVIOUS
  <2>2. v \in Seq(V) /\ m \in Seq(ToSet(m))
    BY ONLY <1>3, <1>4
  <2>3. p \in Nat \ {0} /\ HostAt(m, p, v) /\ HostOnce(m, p)
    BY ONLY <1>5
  <2> QED
    <3>1. CutHost(ToSet(m), V, m, v, p, n, hd)
      BY ONLY <1>6, <2>1, <2>2, <2>3 DEF CutHost
    <3> QED
      BY ONLY <3>1, GetHost
<1>8. AbsParts(A, "GET", v, t)
  BY <1>1, <1>2, AbsLineFacts
<1>9. LineParts(l, "GET", t)
  BY <1>1, <1>2, LineShape
<1>10. PICK h, q, N : h = Len(v) /\ q = Len(t) /\ N = Len(m)
  OBVIOUS
<1>11. /\ h \in Nat /\ q \in Nat /\ Len(A) = h + q + 5 /\ n \in Nat /\ n >= h + q + 12
       /\ N \in Nat /\ n <= N
  <2>1. h \in Nat /\ q \in Nat /\ Len(A) = h + q + 5
    BY ONLY <1>8, <1>10 DEF AbsParts
  <2>2. N \in Nat
    BY ONLY <1>4, <1>10, SeqFacts
  <2>3. n \in 0 .. N /\ p \in Nat
    BY <1>10
  <2> QED
    BY ONLY <1>5, <1>7, <2>1, <2>2, <2>3
<1>12. hd \in Seq(ToSet(m)) /\ Len(hd) = n /\ \A j \in 1 .. n : hd[j] = m[j]
  <2>1. n <= Len(m) /\ hd = SubSeq(m, 1, n)
    BY <1>10, <1>11
  <2> QED
    BY ONLY <1>4, <1>11, <2>1, PartFacts
<1>13. \A j \in 1 .. (h + q + 5) : hd[j] = A[j]
  <2>1. \A j \in 1 .. (h + q + 5) : j \in 1 .. n
    BY ONLY <1>11
  <2>2. \A j \in 1 .. (h + q + 5) : m[j] = A[j]
    BY ONLY <1>4, <1>11 DEF SameUpTo
  <2> QED
    BY ONLY <1>12, <2>1, <2>2
<1>14. hd[1] = "GET" /\ hd[2] = " "
  <2>1. 1 \in 1 .. (h + q + 5) /\ 2 \in 1 .. (h + q + 5)
    BY ONLY <1>11
  <2>2. A[1] = "GET" /\ A[2] = " "
    BY ONLY <1>8 DEF AbsParts
  <2> QED
    BY ONLY <1>13, <2>1, <2>2
<1>15. strchr(hd, " ") = 2
  <2>0. PICK c : c = " "
    OBVIOUS
  <2>1. PICK k : k = 2
    OBVIOUS
  <2>2. hd[k] = c /\ hd[1] # c
    BY ONLY <1>14, <2>0, <2>1
  <2>3. k \in 1 .. Len(hd) /\ \A i \in 1 .. k - 1 : i = 1
    <3>1. k = 2 /\ Len(hd) >= 2 /\ Len(hd) \in Nat
      BY ONLY <1>11, <1>12, <2>1
    <3> QED
      BY ONLY <3>1
  <2>4. \A i \in 1 .. k - 1 : hd[i] # c
    BY ONLY <2>2, <2>3
  <2>5. strchr(hd, c) = k
    BY ONLY <1>12, <2>2, <2>3, <2>4, strchrAt
  <2> QED
    BY ONLY <2>0, <2>1, <2>5
<1>16. Len(Http \o v) = h + 1
  <2>1. PICK U : U = V \cup {"http://"}
    OBVIOUS
  <2>2. Http \in Seq({"http://"}) /\ Len(Http) = 1
    BY DEF Http
  <2>3. {"http://"} \subseteq U /\ V \subseteq U
    BY ONLY <2>1
  <2>4. Http \in Seq(U) /\ v \in Seq(U)
    BY ONLY <1>3, <2>2, <2>3, SeqWiden
  <2>5. Len(Http \o v) = Len(Http) + Len(v)
    BY ONLY <2>4, ConcatProperties
  <2> QED
    BY ONLY <1>10, <1>11, <2>2, <2>5
<1>17. PICK a, z : a = SubSeq(hd, 1, 2) /\ z = From(hd, h + 4)
  OBVIOUS
<1>18. stripAbsURL(hd) = a \o z
  <2>1. getHeaderField(hd, <<"\n", "Host">>) = v
    BY <1>7 DEF HostField
  <2>2. 2 + (h + 1) + 1 = h + 4
    BY ONLY <1>11
  <2>3. stripAbsURL(hd) = SubSeq(hd, 1, 2) \o From(hd, 2 + (h + 1) + 1)
    BY ONLY <1>15, <1>16, <2>1 DEF stripAbsURL
  <2> QED
    BY ONLY <1>17, <2>2, <2>3
<1>19. a \in Seq(ToSet(m)) /\ Len(a) = 2 /\ a[1] = hd[1] /\ a[2] = hd[2]
  <2>1. PICK k : k = 2
    OBVIOUS
  <2>2. k \in Nat /\ k <= Len(hd) /\ a = SubSeq(hd, 1, k)
    BY ONLY <1>11, <1>12, <1>17, <2>1
  <2>3. a \in Seq(ToSet(m)) /\ Len(a) = k /\ \A j \in 1 .. k : a[j] = hd[j]
    BY ONLY <1>12, <2>2, PartFacts
  <2> QED
    BY ONLY <2>1, <2>3
<1>20. z \in Seq(ToSet(m)) /\ Len(z) = n - h - 3 /\ \A j \in 1 .. n - h - 3 : z[j] = hd[h + 3 + j]
  <2>1. PICK k : k = h + 4
    OBVIOUS
  <2>2. k \in Nat \ {0} /\ k <= Len(hd) + 1 /\ z = From(hd, k) /\ hd \in Seq(ToSet(m))
    BY ONLY <1>11, <1>12, <1>17, <2>1
  <2>3. /\ z \in Seq(ToSet(m)) /\ Len(z) = Len(hd) - k + 1
        /\ \A j \in 1 .. (Len(hd) - k + 1) : z[j] = hd[k + j - 1]
    BY ONLY <2>2, FromFacts
  <2>4. /\ Len(hd) - k + 1 = n - h - 3
        /\ \A j \in 1 .. n - h - 3 : k + j - 1 = h + 3 + j
    <3>1. Len(hd) = n /\ n \in Nat /\ h \in Nat /\ k = h + 4
      BY ONLY <1>11, <1>12, <2>1
    <3> QED
      BY ONLY <3>1
  <2> QED
    BY ONLY <2>3, <2>4
<1>21. PICK s : s = a \o z
  OBVIOUS
<1>22. /\ s \in Seq(ToSet(m)) /\ DOMAIN s = 1 .. (n - h - 1)
       /\ s[1] = hd[1] /\ s[2] = hd[2]
       /\ \A j \in 1 .. n - h - 3 : s[2 + j] = hd[h + 3 + j]
  <2>1. /\ s \in Seq(ToSet(m)) /\ DOMAIN s = 1 .. (Len(a) + Len(z))
        /\ \A i \in 1 .. Len(a) : s[i] = a[i]
        /\ \A i \in 1 .. Len(z) : s[Len(a) + i] = z[i]
    <3>1. a \in Seq(ToSet(m)) /\ z \in Seq(ToSet(m)) /\ s = a \o z
      BY ONLY <1>19, <1>20, <1>21
    <3> QED
      BY ONLY <3>1, ConcatFacts
  <2>2. Len(a) + Len(z) = n - h - 1 /\ 1 \in 1 .. Len(a) /\ 2 \in 1 .. Len(a) /\ Len(a) = 2
    BY ONLY <1>11, <1>19, <1>20
  <2> QED
    BY ONLY <1>19, <1>20, <2>1, <2>2
<1>23. ASSUME NEW i \in DOMAIN s \cap DOMAIN l PROVE s[i] = l[i]
  <2>1. i \in 1 .. (q + 4) /\ i \in Nat
    <3>1. i \in DOMAIN l
      BY ONLY <1>23
    <3>2. DOMAIN l = 1 .. (q + 4)
      BY ONLY <1>9, <1>10 DEF LineParts
    <3> QED
      BY ONLY <1>11, <3>1, <3>2
  <2>2. \/ i = 1 \/ i = 2 \/ i = q + 3 \/ i = q + 4
        \/ (i - 2 \in 1 .. q /\ i = 2 + (i - 2))
    BY ONLY <1>11, <2>1
  <2>3. /\ l[1] = "GET" /\ l[2] = " " /\ l[q + 3] = " " /\ l[q + 4] = "HTTP/1.0"
        /\ \A j \in 1 .. q : l[2 + j] = t[j]
    BY ONLY <1>9, <1>10 DEF LineParts
  <2>4. /\ A[h + q + 4] = " " /\ A[h + q + 5] = "HTTP/1.0"
        /\ \A j \in 1 .. q : A[h + 3 + j] = t[j]
    BY ONLY <1>8, <1>10 DEF AbsParts
  <2>5. s[1] = "GET" /\ s[2] = " "
    BY ONLY <1>14, <1>22
  <2>6. s[q + 3] = hd[h + q + 4] /\ s[q + 4] = hd[h + q + 5]
    <3>1. /\ q + 1 \in 1 .. n - h - 3 /\ q + 2 \in 1 .. n - h - 3
          /\ 2 + (q + 1) = q + 3 /\ 2 + (q + 2) = q + 4
          /\ h + 3 + (q + 1) = h + q + 4 /\ h + 3 + (q + 2) = h + q + 5
      BY ONLY <1>11
    <3> QED
      BY ONLY <1>22, <3>1
  <2>7. s[q + 3] = " " /\ s[q + 4] = "HTTP/1.0"
    <3>1. h + q + 4 \in 1 .. (h + q + 5) /\ h + q + 5 \in 1 .. (h + q + 5)
      BY ONLY <1>11
    <3> QED
      BY ONLY <1>13, <2>4, <2>6, <3>1
  <2>8. \A j \in 1 .. q : s[2 + j] = t[j]
    <3>1. \A j \in 1 .. q : j \in 1 .. n - h - 3 /\ h + 3 + j \in 1 .. (h + q + 5)
      BY ONLY <1>11
    <3> QED
      BY ONLY <1>13, <1>22, <2>4, <3>1
  <2> QED
    BY ONLY <2>2, <2>3, <2>5, <2>7, <2>8
<1>24. s \in Seq(ToSet(s))
  BY ONLY <1>22, TextFacts
<1>25. IsText(s) /\ Agree(s, l)
  BY ONLY <1>23, <1>24 DEF IsText, Agree
<1> QED
  BY ONLY <1>2, <1>7, <1>18, <1>21, <1>25

----------------------------------------------------------------------------
(* the name and the port of the server.                                    *)

\* The greatest element of a set of numbers.
LEMMA MaxIs ==
    ASSUME NEW T, T \subseteq Nat, NEW k \in T, \A m \in T : m <= k
    PROVE  Max(T) = k
<1>1. k \in T /\ \A m \in T : k >= m
  OBVIOUS
<1>2. Max(T) \in T /\ \A m \in T : Max(T) >= m
  BY <1>1 DEF Max
<1>3. Max(T) \in Nat /\ k \in Nat /\ Max(T) <= k /\ Max(T) >= k
  BY <1>2
<1> QED
  BY ONLY <1>3

\* strrchr() is the place of the last occurrence.
LEMMA strrchrAt ==
    ASSUME NEW S, NEW s \in Seq(S), NEW c, NEW k \in 1 .. Len(s), s[k] = c,
           \A i \in 1 .. Len(s) : i > k => s[i] # c
    PROVE  strrchr(s, c) = k
<1> DEFINE I == {i \in 1 .. Len(s) : s[i] = c}
<1>1. k \in I /\ I \subseteq Nat /\ \A m \in I : m <= k
  OBVIOUS
<1>2. strrchr(s, c) = Max(I)
  BY <1>1 DEF strrchr, SelectLastInSeq
<1> HIDE DEF I
<1> QED
  BY ONLY <1>1, <1>2, MaxIs

\* strrchr() finds nothing where there is no occurrence.
LEMMA strrchrNone ==
    ASSUME NEW S, NEW s \in Seq(S), NEW c, \A i \in 1 .. Len(s) : s[i] # c
    PROVE  strrchr(s, c) = 0
  BY DEF strrchr, SelectLastInSeq

\* What chopPortNum() goes back over.
Trail == Digits \cup {" "}

\* chopPortNum() ends at the last character that is neither digit nor blank,
\* and before it if it is a colon.
LEMMA ChopAt ==
    ASSUME NEW S, NEW s \in Seq(S), NEW k \in 1 .. Len(s), s[k] \notin Trail,
           \A i \in 1 .. Len(s) : i > k => s[i] \in Trail
    PROVE  chopPortNum(s) = SubSeq(s, 1, IF s[k] = ":" THEN k - 1 ELSE k)
<1> DEFINE I == {i \in 1 .. Len(s) : s[i] \notin Trail}
           e == SelectLastInSeq(s, LAMBDA c : c \notin Trail)
<1>1. k \in I /\ I \subseteq Nat /\ \A m \in I : m <= k
  OBVIOUS
<1>2. e = Max(I)
  BY <1>1 DEF SelectLastInSeq
<1>3. e = k
  <2> HIDE DEF I, e
  <2> QED
    BY ONLY <1>1, <1>2, MaxIs
<1>4. chopPortNum(s) = SubSeq(s, 1, IF s[e] = ":" THEN e - 1 ELSE e)
  BY DEF chopPortNum, Trail
<1> QED
  BY ONLY <1>3, <1>4

\* Two texts are the same if they have the same tokens.
LEMMA SameElements ==
    ASSUME NEW S, NEW s \in Seq(S), NEW T, NEW t \in Seq(T), Len(s) = Len(t),
           \A i \in 1 .. Len(t) : s[i] = t[i]
    PROVE  s = t
  OBVIOUS

\* A name without a port: it is not changed unless it ends in a digit, and the
\* port is 80.
LEMMA NameAlone ==
    ASSUME NEW S, NEW s \in Seq(S), s # <<>>, S \cap (Space \cup {":"}) = {}
    PROVE  /\ Last(s) \in Digits \/ chopPortNum(s) = s
           /\ getPortNumber(s) = <<"80">>
<1>1. PICK k : k = Len(s)
  OBVIOUS
<1>2. k \in Nat /\ k \in 1 .. Len(s) /\ s[k] \in S /\ s[k] = Last(s)
  BY <1>1 DEF Last
<1>3. \A i \in 1 .. Len(s) : ~ (i > k)
  BY <1>1, <1>2
<1>4. ASSUME Last(s) \notin Digits PROVE chopPortNum(s) = s
  <2>1. s[k] \notin Trail /\ s[k] # ":"
    BY <1>2, <1>4 DEF Trail, Space
  <2>2. chopPortNum(s) = SubSeq(s, 1, IF s[k] = ":" THEN k - 1 ELSE k)
    BY ONLY <1>2, <1>3, <2>1, s \in Seq(S), ChopAt
  <2>3. SubSeq(s, 1, k) = s
    BY ONLY <1>1, <1>2, s \in Seq(S)
  <2> QED
    BY ONLY <2>1, <2>2, <2>3
<1>5. getPortNumber(s) = <<"80">>
  <2>1. PICK c : c = ":"
    OBVIOUS
  <2>2. \A i \in 1 .. Len(s) : s[i] # c
    <3>1. c \notin S
      BY <2>1
    <3> QED
      BY ONLY <3>1, s \in Seq(S)
  <2>3. strrchr(s, c) = 0
    BY ONLY <2>2, s \in Seq(S), strrchrNone
  <2> QED
    BY ONLY <2>1, <2>3 DEF getPortNumber
<1> QED
  BY <1>4, <1>5

\* A name with a port.
PortParts(s, b, d) ==
    /\ Len(b) \in Nat \ {0} /\ Len(d) \in Nat /\ Len(s) = Len(b) + 1 + Len(d)
    /\ \A i \in 1 .. Len(b) : s[i] = b[i]
    /\ s[Len(b) + 1] = ":"
    /\ \A i \in 1 .. Len(d) : s[Len(b) + 1 + i] = d[i]

\* The two are separated at the colon, unless a 'p' is before it.
LEMMA NameAndPort ==
    ASSUME NEW S, NEW s \in Seq(S), NEW B, NEW b \in Seq(B), NEW d \in Seq(Digits),
           PortParts(s, b, d)
    PROVE  /\ chopPortNum(s) = b
           /\ Last(b) = "p" \/ getPortNumber(s) = d
<1>1. PICK n, q, k : n = Len(b) /\ q = Len(d) /\ k = n + 1
  OBVIOUS
<1>2. /\ n \in Nat \ {0} /\ q \in Nat /\ k \in Nat /\ k = n + 1 /\ Len(s) = n + 1 + q
      /\ \A i \in 1 .. n : s[i] = b[i]
      /\ \A i \in 1 .. q : s[n + 1 + i] = d[i]
  BY <1>1 DEF PortParts
<1>3. s[k] = ":"
  BY <1>1 DEF PortParts
<1>4. k \in 1 .. Len(s)
  BY ONLY <1>2
<1>5. \A i \in 1 .. Len(s) : i > k => s[i] \in Digits
  <2>1. SUFFICES ASSUME NEW i \in 1 .. Len(s), i > k PROVE s[i] \in Digits
    OBVIOUS
  <2>2. i - k \in 1 .. q /\ n + 1 + (i - k) = i
    BY ONLY <1>2, <2>1, i \in 1 .. Len(s)
  <2>3. d[i - k] \in Digits
    BY ONLY <1>1, <2>2, d \in Seq(Digits)
  <2> QED
    BY ONLY <1>2, <2>2, <2>3
<1>6. chopPortNum(s) = b
  <2>1. s[k] \notin Trail
    BY ONLY <1>3 DEF Trail, Digits
  <2>2. \A i \in 1 .. Len(s) : i > k => s[i] \in Trail
    BY ONLY <1>5 DEF Trail
  <2>3. chopPortNum(s) = SubSeq(s, 1, IF s[k] = ":" THEN k - 1 ELSE k)
    BY ONLY <1>4, <2>1, <2>2, s \in Seq(S), ChopAt
  <2>4. k - 1 = n /\ n <= Len(s) /\ n \in Nat
    BY ONLY <1>2
  <2>5. chopPortNum(s) = SubSeq(s, 1, n)
    BY ONLY <1>3, <2>3, <2>4
  <2>6. /\ SubSeq(s, 1, n) \in Seq(S) /\ Len(SubSeq(s, 1, n)) = n
        /\ \A j \in 1 .. n : SubSeq(s, 1, n)[j] = s[j]
    BY ONLY <2>4, s \in Seq(S), PartFacts
  <2>7. SubSeq(s, 1, n) = b
    BY ONLY <1>1, <1>2, <2>6, b \in Seq(B), SameElements
  <2> QED
    BY ONLY <2>5, <2>7
<1>7. ASSUME Last(b) # "p" PROVE getPortNumber(s) = d
  <2>1. PICK c : c = ":"
    OBVIOUS
  <2>2. c \notin Digits
    BY ONLY <2>1 DEF Digits
  <2>3. s[k] = c /\ \A i \in 1 .. Len(s) : i > k => s[i] # c
    BY ONLY <1>3, <1>5, <2>1, <2>2
  <2>4. strrchr(s, c) = k
    BY ONLY <1>4, <2>3, s \in Seq(S), strrchrAt
  <2>5. s[k - 1] = Last(b) /\ k # 0 /\ k + 1 = n + 2
    BY <1>1, <1>2 DEF Last
  <2>6. getPortNumber(s) = From(s, k + 1)
    BY ONLY <1>7, <2>1, <2>4, <2>5 DEF getPortNumber
  <2>7. PICK e : e = k + 1
    OBVIOUS
  <2>8. e \in Nat \ {0} /\ e <= Len(s) + 1 /\ Len(s) - e + 1 = q
    BY ONLY <1>2, <2>7
  <2>9. /\ From(s, e) \in Seq(S) /\ Len(From(s, e)) = q
        /\ \A j \in 1 .. q : From(s, e)[j] = s[e + j - 1]
    <3>1. /\ From(s, e) \in Seq(S) /\ Len(From(s, e)) = Len(s) - e + 1
          /\ \A j \in 1 .. (Len(s) - e + 1) : From(s, e)[j] = s[e + j - 1]
      BY ONLY <2>8, s \in Seq(S), FromFacts
    <3> QED
      BY ONLY <2>8, <3>1
  <2>10. \A j \in 1 .. q : From(s, e)[j] = d[j]
    <3>1. \A j \in 1 .. q : e + j - 1 = n + 1 + j
      BY ONLY <1>2, <2>7
    <3> QED
      BY ONLY <1>2, <2>9, <3>1
  <2>11. From(s, e) = d
    BY ONLY <1>1, <2>9, <2>10, d \in Seq(Digits), SameElements
  <2> QED
    BY ONLY <2>6, <2>7, <2>11
<1> QED
  BY <1>6, <1>7

\* What RightServer says of the server k that is looked up for r.
RightFor(k, r) ==
    /\ \/ k.name = r.name
       \/ r.port = <<>> /\ Last(r.name) \in Digits
    /\ \/ k.port = IF r.port = <<>> THEN <<"80">> ELSE r.port
       \/ r.port # <<>> /\ Last(r.name) = "p"

\* The proxy gets both from a complete Host field, but for the two exceptions.
LEMMA ServerFacts ==
    ASSUME NEW r, r.name \in Names, r.port \in Ports, NEW v, v = Host(r),
           NEW k, k = [name |-> chopPortNum(v), port |-> getPortNumber(v)]
    PROVE  RightFor(k, r)
<1>1. PICK b, d : b = r.name /\ d = r.port
  OBVIOUS
<1>2. /\ b \in Seq(ToSet(b)) /\ b # <<>> /\ ToSet(b) \cap (Space \cup {":"}) = {}
      /\ d \in Seq(Digits)
  BY <1>1, NamesPlain, PortsPlain DEF IsName, IsPort, IsPlain
<1>3. k.name = chopPortNum(v) /\ k.port = getPortNumber(v)
  OBVIOUS
<1>4. CASE d = <<>>
  <2>1. v = b
    <3>1. v = b \o <<>>
      BY <1>1, <1>4 DEF Host
    <3> QED
      BY ONLY <1>2, <3>1
  <2>2. (Last(b) \in Digits \/ chopPortNum(b) = b) /\ getPortNumber(b) = <<"80">>
    BY ONLY <1>2, NameAlone
  <2> QED
    BY ONLY <1>1, <1>3, <1>4, <2>1, <2>2 DEF RightFor
<1>5. CASE d # <<>>
  <2>1. v = b \o (<<":">> \o d)
    BY <1>1, <1>5 DEF Host
  <2>2. PICK c : c = <<":">>
    OBVIOUS
  <2>3. PICK U : U = ToSet(b) \cup {":"} \cup Digits
    OBVIOUS
  <2>4. b \in Seq(U) /\ c \in Seq(U) /\ d \in Seq(U)
    <3>1. ToSet(b) \subseteq U /\ {":"} \subseteq U /\ Digits \subseteq U
      BY ONLY <2>3
    <3>2. c \in Seq({":"})
      BY ONLY <2>2
    <3> QED
      BY ONLY <1>2, <3>1, <3>2, SeqWiden
  <2>5. PICK e : e = c \o d
    OBVIOUS
  <2>6. /\ e \in Seq(U) /\ Len(c) \in Nat /\ Len(d) \in Nat /\ Len(e) = Len(c) + Len(d)
        /\ DOMAIN e = 1 .. (Len(c) + Len(d))
        /\ \A i \in 1 .. Len(c) : e[i] = c[i]
        /\ \A i \in 1 .. Len(d) : e[Len(c) + i] = d[i]
    <3>1. c \in Seq(U) /\ d \in Seq(U) /\ e = c \o d
      BY ONLY <2>4, <2>5
    <3> QED
      BY ONLY <3>1, ConcatFacts
  <2>7. /\ v \in Seq(U) /\ Len(b) \in Nat /\ Len(e) \in Nat /\ Len(v) = Len(b) + Len(e)
        /\ DOMAIN v = 1 .. (Len(b) + Len(e))
        /\ \A i \in 1 .. Len(b) : v[i] = b[i]
        /\ \A i \in 1 .. Len(e) : v[Len(b) + i] = e[i]
    <3>1. b \in Seq(U) /\ e \in Seq(U) /\ v = b \o e
      BY ONLY <2>1, <2>2, <2>4, <2>5, <2>6
    <3> QED
      BY ONLY <3>1, ConcatFacts
  <2>8. Len(c) = 1 /\ c[1] = ":"
    BY ONLY <2>2
  <2>9. Len(b) # 0
    BY ONLY <1>2
  <2>10. e[1] = ":" /\ \A i \in 1 .. Len(d) : e[1 + i] = d[i]
    BY ONLY <2>6, <2>8
  <2>11. /\ 1 \in 1 .. Len(e)
         /\ \A i \in 1 .. Len(d) : 1 + i \in 1 .. Len(e) /\ Len(b) + (1 + i) = Len(b) + 1 + i
         /\ Len(v) = Len(b) + 1 + Len(d) /\ Len(b) \in Nat \ {0} /\ Len(d) \in Nat
    <3>1. Len(e) = 1 + Len(d) /\ Len(d) \in Nat /\ Len(b) \in Nat /\ Len(v) = Len(b) + Len(e)
      BY ONLY <2>6, <2>7, <2>8
    <3> QED
      BY ONLY <2>9, <3>1
  <2>12. v[Len(b) + 1] = ":" /\ \A i \in 1 .. Len(d) : v[Len(b) + 1 + i] = d[i]
    BY ONLY <2>7, <2>10, <2>11
  <2>13. PortParts(v, b, d)
    BY ONLY <2>7, <2>11, <2>12 DEF PortParts
  <2>14. chopPortNum(v) = b /\ (Last(b) = "p" \/ getPortNumber(v) = d)
    <3>1. v \in Seq(U) /\ b \in Seq(ToSet(b)) /\ d \in Seq(Digits)
      BY ONLY <1>2, <2>7
    <3> QED
      BY ONLY <2>13, <3>1, NameAndPort
  <2> QED
    BY ONLY <1>1, <1>3, <1>5, <2>14 DEF RightFor
<1> QED
  BY <1>4, <1>5

----------------------------------------------------------------------------
(* The steps of the invariant of AsAsked and RightServer.                  *)

\* A header sent to the server itself.
LEMMA DirectHeader ==
    ASSUME NEW r, r.fields = <<"host">>
    PROVE  HeaderLines(r) = FieldLine("host", Host(r))
<1> DEFINE line(f) == <<f, ":", " ">> \o (IF f = "Accept" THEN <<"any">> ELSE Host(r)) \o EOL
           s == [i \in DOMAIN r.fields |-> line(r.fields[i])]
<1>1. HeaderLines(r) = FlattenSeq(s)
  BY DEF HeaderLines
<1>2. line("host") = FieldLine("host", Host(r))
  BY DEF FieldLine
<1> HIDE DEF line
<1>3. s = <<line("host")>>
  <2>1. DOMAIN r.fields = 1 .. 1 /\ r.fields[1] = "host"
    OBVIOUS
  <2>2. s = [i \in 1 .. 1 |-> line("host")]
    BY <2>1
  <2> QED
    BY <2>2
<1> HIDE DEF s
<1>4. FlattenSeq(s) = line("host")
  BY <1>3, FlattenOne
<1> QED
  BY <1>1, <1>2, <1>4

\* A text agrees with its beginning.
LEMMA AgreeFacts ==
    ASSUME NEW S, NEW l \in Seq(S), NEW b \in Seq(S), NEW m, m = l \o b
    PROVE  m \in Seq(S) /\ Agree(m, l)
<1>1. /\ m \in Seq(S) /\ Len(l) \in Nat /\ DOMAIN m = 1 .. (Len(l) + Len(b))
      /\ \A i \in 1 .. Len(l) : m[i] = l[i]
  BY ConcatFacts
<1>2. DOMAIN l = 1 .. Len(l)
  BY SeqFacts
<1> QED
  BY ONLY <1>1, <1>2 DEF Agree

\* A pair is a text of its two tokens.
LEMMA PairFacts == ASSUME NEW x, NEW y PROVE <<x, y>> \in Seq({x, y})
<1>1. \A i \in 1 .. 2 : <<x, y>>[i] \in {x, y}
  <2>1. 1 .. 2 = {1, 2}
    OBVIOUS
  <2> QED
    BY <2>1
<1> QED
  BY <1>1

\* A request to the server itself begins with its request line.
LEMMA DirectShape ==
    ASSUME NEW r \in Requests, r.via = "server", NEW m, m = RequestText(r)
    PROVE  IsText(m) /\ Agree(m, RequestLine(r))
<1>1. /\ r.name = <<"h">> /\ r.port = <<>> /\ r.fields = <<"host">>
  BY DEF Requests
<1>2. r.target \in Seq(Chars \cup FewChars \cup {"/"})
  BY TargetFacts
<1>3. PICK l, t, v, H : l = RequestLine(r) /\ t = r.target /\ v = Host(r) /\ H = HeaderLines(r)
  OBVIOUS
<1>4. PICK c, d, e : c = <<r.method, " ">> /\ d = <<" ", "HTTP/1.0">> /\ e = EOL
  OBVIOUS
<1>5. PICK T : T = Chars \cup FewChars \cup {"/"}
  OBVIOUS
<1>6. PICK F : F = FieldToken({"h"}, "host")
  OBVIOUS
<1>7. PICK U : U = T \cup F \cup {r.method, " ", "HTTP/1.0", "\r", "\n"}
  OBVIOUS
<1>8. t \in Seq(T)
  BY ONLY <1>2, <1>3, <1>5
<1>9. c \in Seq({r.method, " "}) /\ d \in Seq({" ", "HTTP/1.0"}) /\ e \in Seq({"\r", "\n"})
  <2>1. e = <<"\r", "\n">>
    BY ONLY <1>4 DEF EOL
  <2> QED
    BY ONLY <1>4, <2>1, PairFacts
<1>10. v \in Seq({"h"})
  <2>1. v = <<"h">> \o <<>>
    BY <1>1, <1>3 DEF Host
  <2> QED
    BY ONLY <2>1
<1>11. H \in Seq(F)
  <2>1. H = FieldLine("host", v)
    BY <1>1, <1>3, DirectHeader
  <2> QED
    BY ONLY <1>6, <1>10, <2>1, FieldLineFacts
<1>12. /\ T \subseteq U /\ F \subseteq U /\ {r.method, " "} \subseteq U
       /\ {" ", "HTTP/1.0"} \subseteq U /\ {"\r", "\n"} \subseteq U
  BY ONLY <1>7
<1>13. c \in Seq(U) /\ t \in Seq(U) /\ d \in Seq(U) /\ e \in Seq(U) /\ H \in Seq(U)
  BY ONLY <1>8, <1>9, <1>11, <1>12, SeqWiden
<1>14. l = (c \o t) \o d
  BY ONLY <1>3, <1>4 DEF RequestLine
<1>15. m = ((l \o e) \o H) \o e
  <2>1. c \o <<>> = c
    BY ONLY <1>13
  <2>2. m = (((((c \o <<>>) \o t) \o d) \o e) \o H) \o e
    BY <1>3, <1>4 DEF RequestText
  <2> QED
    BY ONLY <1>14, <2>1, <2>2
<1>16. l \in Seq(U)
  BY ONLY <1>13, <1>14, ConcatProperties
<1>17. PICK g : g = H \o e
  OBVIOUS
<1>18. PICK b : b = e \o g
  OBVIOUS
<1>19. g \in Seq(U)
  BY ONLY <1>13, <1>17, ConcatProperties
<1>20. b \in Seq(U)
  BY ONLY <1>13, <1>18, <1>19, ConcatProperties
<1>21. m = l \o b
  <2>1. PICK x : x = l \o e
    OBVIOUS
  <2>2. x \in Seq(U) /\ H \in Seq(U) /\ e \in Seq(U) /\ l \in Seq(U) /\ g \in Seq(U)
    BY ONLY <1>13, <1>16, <1>19, <2>1, ConcatProperties
  <2>3. (x \o H) \o e = x \o (H \o e)
    BY ONLY <2>2, ConcatAssociative
  <2>4. (l \o e) \o g = l \o (e \o g)
    BY ONLY <2>2, ConcatAssociative
  <2> QED
    BY ONLY <1>15, <1>17, <1>18, <2>1, <2>3, <2>4
<1>22. m \in Seq(U) /\ Agree(m, l)
  BY ONLY <1>16, <1>20, <1>21, AgreeFacts
<1>23. m \in Seq(ToSet(m))
  BY ONLY <1>22, TextFacts
<1> QED
  BY ONLY <1>3, <1>22, <1>23 DEF IsText

\* AsAsked of a file f and a request r, and RightServer of the server looked up.
AskedFor(f, r) ==
    /\ r.method = "GET" /\ r.target # <<>> /\ r.target[1] = "/"
    /\ \/ f = FileName(r.target)
       \/ Last(FileName(r.target)) = "/" /\ f = FileName(r.target) \o <<"index.html">>

\* The two properties in these words.
LEMMA AskWords ==
    /\ AsAsked <=> (at \in FileCalls => AskedFor(file, request))
    /\ RightServer <=> (looked # NoServer => RightFor(looked, request))
  BY DEF AsAsked, RightServer, AskedFor, RightFor

\* And of the next state.
LEMMA AskWordsNext ==
    /\ AsAsked' <=> (at' \in FileCalls => AskedFor(file', request'))
    /\ RightServer' <=> (looked' # NoServer => RightFor(looked', request'))
  BY DEF AsAsked, RightServer, AskedFor, RightFor

\* Nothing is looked for once the answer is sent.
LEMMA AskOver ==
    ASSUME AskInv, UNCHANGED <<request, looked>>, at' \in {"close", "killed"}
    PROVE  AskInv'
<1>1. AsAsked' /\ Traveling' /\ PathMade'
  BY DEF AsAsked, Traveling, PathMade, FileCalls
<1>2. RightServer'
  BY AskWords, AskWordsNext DEF AskInv
<1> QED
  BY <1>1, <1>2 DEF AskInv

\* A call on the file that was made.
LEMMA AskKept ==
    ASSUME AskInv, UNCHANGED <<request, looked, file>>, at \in FileCalls,
           at' \in {"index", "open", "map", "send", "unmap", "scan"}, PathMade'
    PROVE  AskInv'
<1>1. at' \in FileCalls /\ AsAsked'
  BY AskWords, AskWordsNext DEF AskInv, FileCalls
<1>2. Traveling'
  BY DEF Traveling
<1>3. RightServer'
  BY AskWords, AskWordsNext DEF AskInv
<1> QED
  BY <1>1, <1>2, <1>3 DEF AskInv

\* On its way the text is a text and agrees with the request line.
LEMMA AskText ==
    ASSUME AskInv, UNCHANGED request, at' \in {"recv", "parse"}, IsText(msg'),
           Agree(msg', RequestLine(request)), RightServer'
    PROVE  AskInv'
<1>1. AsAsked' /\ PathMade'
  BY DEF AsAsked, PathMade, FileCalls
<1>2. Traveling'
  BY DEF Traveling, IsText, Agree, RequestLine
<1> QED
  BY <1>1, <1>2 DEF AskInv

\* A client writes what it wants.
LEMMA AskInit == Init => AskInv
<1> SUFFICES ASSUME Init PROVE AskInv
  OBVIOUS
<1>1. /\ request \in Requests /\ msg = RequestText(request) /\ looked = NoServer
      /\ at = IF request.via = "server" THEN "recv" ELSE "proxy"
  BY DEF Init
<1>2. AsAsked /\ PathMade /\ RightServer
  BY <1>1 DEF AsAsked, PathMade, RightServer, FileCalls
<1>3. Traveling
  <2>1. CASE request.via = "server"
    <3>1. IsText(msg) /\ Agree(msg, RequestLine(request))
      BY <1>1, <2>1, DirectShape
    <3> QED
      BY <1>1, <2>1, <3>1 DEF Traveling
  <2>2. CASE request.via # "server"
    BY <1>1, <2>2 DEF Traveling
  <2> QED
    BY <2>1, <2>2
<1> QED
  BY <1>1, <1>2, <1>3 DEF AskInv

\* The proxy looks up the server of the URL and makes its request line.
LEMMA RelayAsk == AskInv /\ Relay => AskInv'
<1> SUFFICES ASSUME AskInv, Relay PROVE AskInv'
  OBVIOUS
<1>1. /\ at = "proxy" /\ request' = request /\ request \in Requests
      /\ request.via # "server" /\ msg = RequestText(request)
  BY DEF Relay, AskInv, Traveling
<1>2. PICK n \in 0 .. Len(msg) :
        LET header     == SubSeq(msg, 1, n)
            fullServer == getHeaderField(header, HostField)
        IN  IF fullServer = NULL
            THEN sendError(500) /\ msg' = <<>> /\ UNCHANGED looked
            ELSE /\ looked' = [name |-> chopPortNum(fullServer),
                               port |-> getPortNumber(fullServer)]
                 /\ \/ sendError(404) /\ msg' = <<>>
                    \/ /\ msg' = stripAbsURL(header)
                       /\ at' = "recv"
                       /\ UNCHANGED answer
  BY DEF Relay, HostField
<1>3. PICK hd : hd = SubSeq(msg, 1, n)
  OBVIOUS
<1>4. CASE getHeaderField(hd, HostField) = NULL
  <2>1. sendError(500) /\ UNCHANGED looked
    BY <1>2, <1>3, <1>4
  <2> QED
    BY <1>1, <2>1, AskOver DEF sendError
<1>5. CASE getHeaderField(hd, HostField) # NULL
  <2>1. /\ getHeaderField(hd, HostField) = Host(request)
        /\ IsText(stripAbsURL(hd)) /\ Agree(stripAbsURL(hd), RequestLine(request))
    BY <1>1, <1>3, <1>5, StripFacts
  <2>2. PICK v : v = Host(request)
    OBVIOUS
  <2>3. /\ looked' = [name |-> chopPortNum(v), port |-> getPortNumber(v)]
        /\ at' = "close" \/ (at' = "recv" /\ msg' = stripAbsURL(hd))
    BY <1>2, <1>3, <1>5, <2>1, <2>2 DEF sendError
  <2>4. request.name \in Names /\ request.port \in Ports
    BY <1>1, ProxiedFacts
  <2>5. RightFor(looked', request)
    BY <2>2, <2>3, <2>4, ServerFacts
  <2>6. RightServer'
    BY <1>1, <2>5, AskWordsNext
  <2>7. CASE at' = "close"
    <3>1. AsAsked' /\ Traveling' /\ PathMade'
      BY <2>7 DEF AsAsked, Traveling, PathMade, FileCalls
    <3> QED
      BY <1>1, <2>6, <3>1 DEF AskInv
  <2>8. CASE at' = "recv" /\ msg' = stripAbsURL(hd)
    BY <1>1, <2>1, <2>6, <2>8, AskText
  <2> QED
    BY <2>3, <2>7, <2>8
<1> QED
  BY <1>4, <1>5

\* However little arrives agrees as well.
LEMMA ReceiveAsk == AskInv /\ Receive => AskInv'
<1> SUFFICES ASSUME AskInv, Receive PROVE AskInv'
  OBVIOUS
<1>1. /\ at = "recv" /\ request' = request /\ looked' = looked
      /\ IsText(msg) /\ Agree(msg, RequestLine(request))
  BY DEF Receive, AskInv, Traveling
<1>2. CASE at' = "close"
  BY <1>1, <1>2, AskOver
<1>3. ASSUME NEW n \in 0 .. Len(msg), msg' = SubSeq(msg, 1, n), at' = "parse"
      PROVE  AskInv'
  <2>1. PICK m, l : m = SubSeq(msg, 1, n) /\ l = RequestLine(request)
    OBVIOUS
  <2>2. msg \in Seq(ToSet(msg)) /\ n \in Nat /\ n <= Len(msg)
    <3>1. Len(msg) \in Nat
      BY <1>1, SeqFacts DEF IsText
    <3> QED
      BY <1>1, <3>1 DEF IsText
  <2>3. m \in Seq(ToSet(msg)) /\ Len(m) = n /\ \A j \in 1 .. n : m[j] = msg[j]
    BY ONLY <2>1, <2>2, PartFacts
  <2>4. Agree(m, l)
    <3>1. DOMAIN m = 1 .. n /\ DOMAIN msg = 1 .. Len(msg) /\ Len(msg) \in Nat
      BY ONLY <2>2, <2>3, SeqFacts
    <3>2. \A i \in 1 .. n : i \in 1 .. Len(msg)
      BY ONLY <2>2, <3>1
    <3>3. Agree(msg, l)
      BY <1>1, <2>1
    <3> QED
      BY ONLY <2>3, <3>1, <3>2, <3>3 DEF Agree
  <2>5. IsText(m)
    BY ONLY <2>3, TextFacts DEF IsText
  <2>6. RightServer'
    BY <1>1, AskWords, AskWordsNext DEF AskInv
  <2> QED
    BY <1>1, <1>3, <2>1, <2>4, <2>5, <2>6, AskText
<1> QED
  BY <1>2, <1>3 DEF Receive, sendError

\* A line that passes the tests has the target the client asked for.
LEMMA PathAsked ==
    ASSUME NEW r \in Requests, NEW line, IsText(line), Agree(line, RequestLine(r)),
           Refusal(line) = 0
    PROVE  Path(line) = r.target /\ AskedFor(FileName(Path(line)), r)
<1>1. /\ Parses(line) /\ Method(line) = <<"GET">> /\ Path(line)[1] = "/"
  BY DEF Refusal
<1>2. PICK t, m : t = r.target /\ m = r.method
  OBVIOUS
<1>3. PICK T : T = Chars \cup FewChars \cup {"/"}
  OBVIOUS
<1>4. t \in Seq(T) /\ (\A j \in 1 .. Len(t) : t[j] \notin Space) /\ m \in {"GET", "POST"}
  BY <1>2, <1>3, TargetFacts
<1>5. m \notin Space
  BY <1>4 DEF Space
<1>6. /\ Method(line) = <<m>>
      /\ t # <<>> => Path(line) = t
      /\ t = <<>> => Path(line)[1] = "HTTP/1.0"
  <2>1. line \in Seq(ToSet(line))
    BY DEF IsText
  <2>2. Agree(line, RequestLine(r)) /\ Parses(line)
    BY <1>1
  <2> QED
    BY ONLY <1>2, <1>4, <1>5, <2>1, <2>2, ParsedLine
<1>7. m = "GET"
  BY ONLY <1>1, <1>6
<1>8. t # <<>> /\ Path(line) = t /\ t[1] = "/"
  BY ONLY <1>1, <1>6
<1> QED
  BY <1>2, <1>7, <1>8 DEF AskedFor

\* The path that is made is the one that was asked for.
LEMMA ParseAsk == AskInv /\ Parse => AskInv'
<1> SUFFICES ASSUME AskInv, Parse PROVE AskInv'
  OBVIOUS
<1>1. /\ request \in Requests /\ request' = request /\ looked' = looked
      /\ IsText(msg) /\ Agree(msg, RequestLine(request))
  BY DEF Parse, AskInv, Traveling
<1>2. CASE Refusal(msg) # 0
  BY <1>1, <1>2, AskOver DEF Parse, sendError
<1>3. CASE Refusal(msg) = 0
  <2>1. file' = FileName(Path(msg)) /\ at' = "stat"
    BY <1>3 DEF Parse
  <2>2. Path(msg) = request.target /\ AskedFor(FileName(Path(msg)), request)
    BY <1>1, <1>3, PathAsked
  <2>3. file' = FileName(request.target)
    BY <2>1, <2>2
  <2>4. AsAsked' /\ RightServer'
    BY <1>1, <2>1, <2>2, AskWords, AskWordsNext DEF AskInv
  <2>5. Traveling' /\ PathMade'
    BY <1>1, <2>1, <2>3 DEF Traveling, PathMade
  <2> QED
    BY <1>1, <2>4, <2>5 DEF AskInv
<1> QED
  BY <1>2, <1>3

\* stat() leaves the path alone.
LEMMA StatFileAsk == AskInv /\ StatFile => AskInv'
<1> SUFFICES ASSUME AskInv, StatFile PROVE AskInv'
  OBVIOUS
<1>1. /\ at = "stat" /\ UNCHANGED <<request, looked, file>>
      /\ file = FileName(request.target)
  BY DEF StatFile, AskInv, PathMade
<1>2. CASE at' = "close"
  BY <1>1, <1>2, AskOver
<1>3. CASE at' = "open"
  <2>1. PathMade'
    BY <1>3 DEF PathMade
  <2> QED
    BY <1>1, <1>3, <2>1, AskKept DEF FileCalls
<1>4. CASE at' = "index" /\ Last(file) = "/"
  <2>1. PathMade'
    BY <1>1, <1>4 DEF PathMade
  <2> QED
    BY <1>1, <1>4, <2>1, AskKept DEF FileCalls
<1> QED
  BY <1>2, <1>3, <1>4 DEF StatFile, sendError

\* The index page of the directory that was asked for, or its listing.
LEMMA StatIndexAsk == AskInv /\ StatIndex => AskInv'
<1> SUFFICES ASSUME AskInv, StatIndex PROVE AskInv'
  OBVIOUS
<1>1. /\ at = "index" /\ UNCHANGED <<request, looked>>
      /\ file = FileName(request.target) /\ Last(file) = "/"
      /\ AskedFor(file, request)
  BY AskWords DEF StatIndex, AskInv, PathMade, FileCalls
<1>2. CASE at' = "scan" /\ file' = file
  <2>1. PathMade'
    BY <1>1, <1>2 DEF PathMade
  <2> QED
    BY <1>1, <1>2, <2>1, AskKept DEF FileCalls
<1>3. CASE at' = "open" /\ file' = file \o <<"index.html">>
  <2>1. AskedFor(file', request)
    BY <1>1, <1>3 DEF AskedFor
  <2>2. AsAsked' /\ RightServer'
    BY <1>1, <2>1, AskWords, AskWordsNext DEF AskInv
  <2>3. Traveling' /\ PathMade'
    BY <1>3 DEF Traveling, PathMade
  <2> QED
    BY <1>1, <2>2, <2>3 DEF AskInv
<1> QED
  BY <1>2, <1>3 DEF StatIndex

\* The other calls take the path as it is.
LEMMA FileAsk ==
    ASSUME AskInv, Open \/ Map \/ Send \/ Release \/ ScanDirectory
    PROVE  AskInv'
<1>1. /\ at \in FileCalls /\ UNCHANGED <<request, looked, file>>
      /\ at' \in {"map", "send", "unmap", "close", "killed"}
  <2>1. CASE Open
    BY <2>1 DEF Open, sendError, FileCalls
  <2>2. CASE Map
    BY <2>2 DEF Map, fileContents, sendError, FileCalls
  <2>3. CASE Send
    BY <2>3 DEF Send, fsState, FileCalls
  <2>4. CASE Release
    BY <2>4 DEF Release, FileCalls
  <2>5. CASE ScanDirectory
    BY <2>5 DEF ScanDirectory, fsState, sendError, FileCalls
  <2> QED
    BY <2>1, <2>2, <2>3, <2>4, <2>5
<1>2. CASE at' \in {"map", "send", "unmap"}
  <2>1. PathMade'
    BY <1>2 DEF PathMade
  <2> QED
    BY <1>1, <1>2, <2>1, AskKept
<1>3. CASE at' \in {"close", "killed"}
  BY <1>1, <1>3, AskOver
<1> QED
  BY <1>1, <1>2, <1>3

\* Every step keeps AskInv.
LEMMA AskStep == AskInv /\ [Next]_vars => AskInv'
<1> SUFFICES ASSUME AskInv, [Next]_vars PROVE AskInv'
  OBVIOUS
<1>1. CASE UNCHANGED vars
  <2>1. UNCHANGED <<request, msg, at, looked, file>>
    BY <1>1 DEF vars
  <2>2. Traveling' /\ PathMade'
    BY <2>1 DEF AskInv, Traveling, PathMade, IsText, Agree
  <2>3. AsAsked' /\ RightServer'
    BY <2>1, AskWords, AskWordsNext DEF AskInv
  <2> QED
    BY <2>1, <2>2, <2>3 DEF AskInv
<1> QED
  BY <1>1, RelayAsk, ReceiveAsk, ParseAsk, StatFileAsk, StatIndexAsk, FileAsk DEF Next

----------------------------------------------------------------------------
(* The theorems.                                                           *)

\* ServeInv, the inductive invariant of checkAndSend() and its callees.
THEOREM ServeInvariant == Spec => []ServeInv
  BY ServeInit, ServeStep, PTL DEF Spec

\* No path that the server opens leaves its document root, whatever was asked
\* for.
THEOREM PathsAreSafe == Spec => []SafePath
<1>1. ServeInv => SafePath
  BY DEF ServeInv
<1> QED
  BY <1>1, ServeInvariant, PTL

\* When a request is done its file is closed and its mapping released, on every
\* way through the code.
THEOREM EndsAreClean == Spec => []CleanEnd
<1>1. ServeInv => CleanEnd
  BY DEF ServeInv, CleanEnd, Resources, AnswerWhole
<1> QED
  BY <1>1, ServeInvariant, PTL

\* Types are right.
THEOREM ServeTypeCorrect == Spec => []TypeOK
<1>1. ServeInv => TypeOK
  BY DEF ServeInv
<1> QED
  BY <1>1, ServeInvariant, PTL

\* AskInv, the inductive invariant of what travels from the client to the file.
THEOREM AskInvariant == Spec => []AskInv
  BY AskInit, AskStep, PTL DEF Spec

\* The file that is looked for is the one the client asked for, however little
\* of the request arrived and whoever passed it on.
THEOREM FilesAreAsAsked == Spec => []AsAsked
<1>1. AskInv => AsAsked
  BY DEF AskInv
<1> QED
  BY <1>1, AskInvariant, PTL

\* The proxy looks up the server and the port of the URL, but for names that
\* end in a digit or in 'p'.
THEOREM ServersAreRight == Spec => []RightServer
<1>1. AskInv => RightServer
  BY DEF AskInv
<1> QED
  BY <1>1, AskInvariant, PTL
============================================================================
