---------------------------- MODULE PacketProofs ----------------------------
(***************************************************************************)
(* PacketReader.tla implements Fifo.tla, for requests of any length and    *)
(* for any way of cutting the stream into pieces.                          *)
(***************************************************************************)
EXTENDS PacketReader, SequenceTheorems, TLAPS

-----------------------------------------------------------------------------
(* Sequences *)

\* Cutting a sequence in two loses nothing.
LEMMA CutAndJoin ==
    ASSUME NEW S, NEW s \in Seq(S), NEW n \in 0 .. Len(s)
    PROVE  /\ SubSeq(s, 1, n) \in Seq(S) /\ SubSeq(s, n + 1, Len(s)) \in Seq(S)
           /\ SubSeq(s, 1, n) \o SubSeq(s, n + 1, Len(s)) = s
<1>1. 1 \in 1 .. Len(s) + 1 /\ n \in 1 - 1 .. Len(s) /\ Len(s) \in n .. Len(s)
  OBVIOUS
<1>2. SubSeq(s, 1, n) \o SubSeq(s, n + 1, Len(s)) = SubSeq(s, 1, Len(s))
  BY <1>1, ConcatAdjacentSubSeq
<1>3. SubSeq(s, 1, n) \in Seq(S) /\ SubSeq(s, n + 1, Len(s)) \in Seq(S)
  OBVIOUS
<1>4. QED
  BY <1>2, <1>3, SubSeqFull

LEMMA Assoc ==
    ASSUME NEW S, NEW s \in Seq(S), NEW t \in Seq(S), NEW u \in Seq(S)
    PROVE  (s \o t) \o u = s \o (t \o u) /\ s \o t \in Seq(S) /\ t \o u \in Seq(S)
  BY ConcatAssociative, ConcatProperties

LEMMA Joined ==
    ASSUME NEW S, NEW s \in Seq(S), NEW t \in Seq(S)
    PROVE  /\ s \o t \in Seq(S)
           /\ Len(s) \in Nat /\ Len(t) \in Nat /\ Len(s \o t) = Len(s) + Len(t)
           /\ \A i \in 1 .. Len(s) : (s \o t)[i] = s[i]
           /\ \A i \in 1 .. Len(t) : (s \o t)[Len(s) + i] = t[i]
<1>1. Len(s) \in Nat /\ Len(t) \in Nat
  OBVIOUS
<1>2. /\ s \o t \in Seq(S) /\ Len(s \o t) = Len(s) + Len(t)
      /\ \A i \in 1 .. Len(s) + Len(t) :
            (s \o t)[i] = IF i <= Len(s) THEN s[i] ELSE t[i - Len(s)]
  BY ConcatProperties
<1>3. ASSUME NEW i \in 1 .. Len(t) PROVE (s \o t)[Len(s) + i] = t[i]
  <2>1. Len(s) + i \in 1 .. Len(s) + Len(t) /\ ~(Len(s) + i <= Len(s))
           /\ (Len(s) + i) - Len(s) = i
    BY <1>1
  <2>2. QED
    BY <1>2, <2>1
<1>4. QED
  BY <1>1, <1>2, <1>3

-----------------------------------------------------------------------------
(* Tokens *)

Token == {LengthLine(n) : n \in Nat} \cup {OtherLine, BlankLine}
           \cup {Byte(r, i) : r \in Requests, i \in Nat}

LEMMA TokensAssoc ==
    \A x, y, z \in Seq(Token) : (x \o y) \o z = x \o (y \o z) /\ x \o y \in Seq(Token)
  BY Assoc

\* A request on the wire
Packed(header, r) == header \o <<BlankLine>> \o BodyTokens(r)

LEMMA BodyFacts ==
    ASSUME NEW r \in Requests
    PROVE  /\ BodyTokens(r) \in Seq(Token)
           /\ Len(BodyTokens(r)) = Len(Body[r]) /\ Len(Body[r]) \in Nat \ {0}
           /\ BodyTokens(r)[1].of = r
<1>1. Body[r] \in Seq(BOOLEAN) /\ Body[r] # << >>
  BY BodyAssumption
<1>2. Len(Body[r]) \in Nat \ {0} /\ DOMAIN Body[r] = 1 .. Len(Body[r])
  BY <1>1
<1>3. \A i \in 1 .. Len(Body[r]) : Byte(r, i) \in Token
  BY DEF Token
<1>4. BodyTokens(r) \in [1 .. Len(Body[r]) -> Token]
  BY <1>2, <1>3 DEF BodyTokens
<1>5. BodyTokens(r) \in Seq(Token) /\ Len(BodyTokens(r)) = Len(Body[r])
  BY <1>2, <1>4
<1>6. BodyTokens(r)[1].of = r
  BY <1>2 DEF BodyTokens, Byte
<1>7. QED
  BY <1>2, <1>5, <1>6

\* Nothing in a header ends it, and only a faulty one hides the length.
LEMMA HeaderFacts ==
    ASSUME NEW n \in Nat \ {0}, NEW header \in Headers(n)
    PROVE  /\ header \in Seq(Token) /\ Len(header) \in {1, 2}
           /\ \A i \in 1 .. Len(header) : header[i].kind # "blank"
           /\ \A i \in 1 .. Len(header) : header[i].kind = "length" => header[i].value = n
<1>1. LengthLine(n) \in Token /\ OtherLine \in Token
  BY DEF Token
<1>2. /\ LengthLine(n).kind = "length" /\ LengthLine(n).value = n
      /\ OtherLine.kind = "other"
  BY DEF LengthLine, OtherLine
<1>3. header \in {<<LengthLine(n)>>, <<LengthLine(n), OtherLine>>,
                  <<OtherLine, LengthLine(n)>>, <<OtherLine>>}
  BY DEF Headers
<1> DEFINE length == LengthLine(n)
           other  == OtherLine
<1> HIDE DEF length, other
<1>4. header \in {<<length>>, <<length, other>>, <<other, length>>, <<other>>}
  BY <1>3 DEF length, other
<1>5. /\ length \in Token /\ length.kind = "length" /\ length.value = n
      /\ other \in Token /\ other.kind = "other"
  BY <1>1, <1>2 DEF length, other
<1>6. /\ header \in Seq(Token) /\ Len(header) \in {1, 2}
      /\ \A i \in 1 .. Len(header) : header[i] \in {length, other}
  <2>1. CASE header \in {<<length>>, <<other>>}
    BY <1>5, <2>1
  <2>2. CASE header = <<length, other>>
    BY <1>5, <2>2
  <2>3. CASE header = <<other, length>>
    BY <1>5, <2>3
  <2>4. QED
    BY <1>4, <2>1, <2>2, <2>3
<1>7. QED
  BY <1>5, <1>6

LEMMA PackedFacts ==
    ASSUME NEW r \in Requests, NEW header \in Headers(Len(Body[r]))
    PROVE  /\ Packed(header, r) \in Seq(Token)
           /\ Len(Packed(header, r)) = Len(header) + 1 + Len(Body[r])
           /\ \A i \in 1 .. Len(header) : Packed(header, r)[i] = header[i]
           /\ Packed(header, r)[Len(header) + 1] = BlankLine
           /\ \A i \in 1 .. Len(Body[r]) :
                 Packed(header, r)[Len(header) + 1 + i] = BodyTokens(r)[i]
<1> DEFINE body == BodyTokens(r)
           front == header \o <<BlankLine>>
<1>1. header \in Seq(Token) /\ <<BlankLine>> \in Seq(Token) /\ body \in Seq(Token)
  <2>1. BlankLine \in Token
    BY DEF Token
  <2>2. header \in Seq(Token)
    BY BodyFacts, HeaderFacts
  <2>3. QED
    BY <2>1, <2>2, BodyFacts
<1>2. Len(body) = Len(Body[r]) /\ Len(body) \in Nat /\ Len(header) \in Nat
  BY <1>1, BodyFacts
<1>3. Packed(header, r) = front \o body
  BY DEF Packed
<1> HIDE DEF body
<1>4. /\ front \in Seq(Token) /\ Len(front) = Len(header) + 1
      /\ \A i \in 1 .. Len(header) : front[i] = header[i]
      /\ front[Len(header) + 1] = BlankLine
  <2>1. Len(<<BlankLine>>) = 1 /\ <<BlankLine>>[1] = BlankLine
    OBVIOUS
  <2>2. QED
    BY <1>1, <1>2, <2>1, Joined
<1> HIDE DEF front
<1>5. /\ front \o body \in Seq(Token) /\ Len(front \o body) = Len(header) + 1 + Len(body)
      /\ \A i \in 1 .. Len(header) + 1 : (front \o body)[i] = front[i]
      /\ \A i \in 1 .. Len(body) : (front \o body)[Len(header) + 1 + i] = body[i]
  <2>1. front \in Seq(Token)
    BY <1>4
  <2>2. /\ front \o body \in Seq(Token) /\ Len(front \o body) = Len(front) + Len(body)
        /\ \A i \in 1 .. Len(front) : (front \o body)[i] = front[i]
        /\ \A i \in 1 .. Len(body) : (front \o body)[Len(front) + i] = body[i]
    BY <1>1, <2>1, Joined
  <2>3. QED
    BY <1>4, <2>2
<1>6. QED
  BY <1>2, <1>3, <1>4, <1>5 DEF body

-----------------------------------------------------------------------------
(* Where the reader is in the stream *)

Types ==
    /\ sent \in Seq(Requests) /\ handled \in Seq(Requests)
    /\ buffer \in Seq(Token) /\ wire \in Seq(Token)
    /\ want \in Nat

\* What the reader has not taken yet
Rest == buffer \o wire

\* all is everything that was sent; request k begins behind place starts[k],
\* with the header headers[k].
Written(reqs, all, starts, headers) ==
    /\ all \in Seq(Token)
    /\ starts \in [1 .. Len(reqs) + 1 -> 0 .. Len(all)]
    /\ starts[Len(reqs) + 1] = Len(all)
    /\ \A k \in 1 .. Len(reqs) :
          /\ headers[k] \in Headers(Len(Body[reqs[k]]))
          /\ starts[k + 1] = starts[k] + Len(Packed(headers[k], reqs[k]))
          /\ \A i \in 1 .. Len(Packed(headers[k], reqs[k])) :
                all[starts[k] + i] = Packed(headers[k], reqs[k])[i]

\* The first done requests are taken from the stream and, when the length of
\* the next one is known, its header; what follows them is the rest.
Taken(reqs, done, length, rest, all, starts, headers) ==
    LET place == Len(all) - Len(rest)
    IN  /\ done \in 0 .. Len(reqs)
        /\ Len(rest) <= Len(all)
        /\ length = 0 => place = starts[done + 1]
        /\ length # 0 => /\ done < Len(reqs)
                         /\ length = Len(Body[reqs[done + 1]])
                         /\ place = starts[done + 1] + Len(headers[done + 1]) + 1
        /\ \A i \in 1 .. Len(rest) : rest[i] = all[place + i]

InStep == \E all, starts, headers :
             /\ Written(sent, all, starts, headers)
             /\ Taken(sent, Len(handled), want, Rest, all, starts, headers)

\* Once run() has returned nothing is read any more.
PacketInv == Types /\ (serving => InStep)

-----------------------------------------------------------------------------
(* What the client adds *)

LEMMA RestGrows ==
    ASSUME Types, NEW r \in Requests, NEW header \in Headers(Len(Body[r])), Send(r, header)
    PROVE  wire' = wire \o Packed(header, r) /\ Rest' = Rest \o Packed(header, r)
<1> DEFINE body == BodyTokens(r)
           blank == <<BlankLine>>
<1>1. /\ header \in Seq(Token) /\ body \in Seq(Token) /\ buffer \in Seq(Token)
      /\ wire \in Seq(Token)
  BY BodyFacts, HeaderFacts DEF Types
<1>2. blank \in Seq(Token)
  BY DEF Token
<1>3. wire' = ((wire \o header) \o blank) \o body /\ buffer' = buffer
         /\ Packed(header, r) = (header \o blank) \o body
  BY DEF Send, Packed
<1> HIDE DEF body, blank
<1>4. \A x, y, z \in Seq(Token) : (x \o y) \o z = x \o (y \o z) /\ x \o y \in Seq(Token)
  BY TokensAssoc
<1>5. (wire \o header) \o blank = wire \o (header \o blank) /\ header \o blank \in Seq(Token)
  BY <1>1, <1>2, <1>4
<1>6. wire' = wire \o Packed(header, r) /\ Packed(header, r) \in Seq(Token)
  <2>1. (wire \o (header \o blank)) \o body = wire \o ((header \o blank) \o body)
           /\ (header \o blank) \o body \in Seq(Token)
    BY <1>1, <1>4, <1>5, Zenon
  <2>2. QED
    BY <1>3, <1>5, <2>1, Zenon
<1>7. Rest' = buffer \o (wire \o Packed(header, r))
  BY <1>3, <1>6 DEF Rest
<1>8. (buffer \o wire) \o Packed(header, r) = buffer \o (wire \o Packed(header, r))
  <2> DEFINE p == Packed(header, r)
  <2>1. buffer \in Seq(Token) /\ wire \in Seq(Token) /\ p \in Seq(Token)
    BY <1>1, <1>6
  <2> HIDE DEF p
  <2>2. (buffer \o wire) \o p = buffer \o (wire \o p)
    BY <2>1, TokensAssoc
  <2>3. QED
    BY <2>2 DEF p
<1>9. QED
  BY <1>6, <1>7, <1>8 DEF Rest

LEMMA WrittenGrows ==
    ASSUME NEW reqs \in Seq(Requests), NEW all, NEW starts, NEW headers,
           Written(reqs, all, starts, headers),
           NEW r \in Requests, NEW header \in Headers(Len(Body[r]))
    PROVE  \E st, hs :
              /\ Written(Append(reqs, r), all \o Packed(header, r), st, hs)
              /\ \A k \in 1 .. Len(reqs) + 1 : st[k] = starts[k]
              /\ \A k \in 1 .. Len(reqs) : hs[k] = headers[k]
<1> DEFINE n == Len(reqs)
           p == Packed(header, r)
           st == [k \in 1 .. n + 2 |-> IF k <= n + 1 THEN starts[k] ELSE Len(all) + Len(p)]
           hs == [k \in 1 .. n + 1 |-> IF k <= n THEN headers[k] ELSE header]
           more == Append(reqs, r)
<1>1. /\ n \in Nat /\ Len(more) = n + 1 /\ more[n + 1] = r
      /\ \A k \in 1 .. n : more[k] = reqs[k]
  OBVIOUS
<1>2. /\ all \in Seq(Token) /\ p \in Seq(Token)
      /\ starts \in [1 .. n + 1 -> 0 .. Len(all)] /\ starts[n + 1] = Len(all)
  BY PackedFacts DEF Written
<1>3. /\ all \o p \in Seq(Token)
      /\ Len(all) \in Nat /\ Len(p) \in Nat /\ Len(all \o p) = Len(all) + Len(p)
      /\ \A i \in 1 .. Len(all) : (all \o p)[i] = all[i]
      /\ \A i \in 1 .. Len(p) : (all \o p)[Len(all) + i] = p[i]
  BY <1>2, Joined
<1>4. /\ \A k \in 1 .. n + 1 : st[k] = starts[k]
      /\ st[n + 2] = Len(all) + Len(p)
      /\ \A k \in 1 .. n : hs[k] = headers[k]
      /\ hs[n + 1] = header
  BY <1>1
<1>5. st \in [1 .. n + 2 -> 0 .. Len(all \o p)]
  BY <1>1, <1>2, <1>3
<1> HIDE DEF n, st, hs, more
<1>6. ASSUME NEW k \in 1 .. n
      PROVE  /\ hs[k] \in Headers(Len(Body[more[k]]))
             /\ st[k + 1] = st[k] + Len(Packed(hs[k], more[k]))
             /\ \A i \in 1 .. Len(Packed(hs[k], more[k])) :
                   (all \o p)[st[k] + i] = Packed(hs[k], more[k])[i]
  <2>1. /\ headers[k] \in Headers(Len(Body[reqs[k]]))
        /\ starts[k + 1] = starts[k] + Len(Packed(headers[k], reqs[k]))
        /\ \A i \in 1 .. Len(Packed(headers[k], reqs[k])) :
              all[starts[k] + i] = Packed(headers[k], reqs[k])[i]
    BY DEF Written, n
  <2>2. k \in 1 .. n + 1 /\ k + 1 \in 1 .. n + 1
    BY <1>1
  <2>3. hs[k] = headers[k] /\ more[k] = reqs[k] /\ st[k] = starts[k] /\ st[k + 1] = starts[k + 1]
    BY <1>1, <1>4, <2>2
  <2>4. starts[k] \in 0 .. Len(all) /\ starts[k + 1] \in 0 .. Len(all)
    BY <1>2, <2>2
  <2>5. reqs[k] \in Requests
    BY DEF n
  <2>6. Len(Packed(headers[k], reqs[k])) \in Nat
    BY <2>1, <2>5, PackedFacts
  <2>7. \A i \in 1 .. Len(Packed(headers[k], reqs[k])) : starts[k] + i \in 1 .. Len(all)
    BY <1>3, <2>1, <2>4, <2>6
  <2>8. QED
    BY <1>3, <2>1, <2>3, <2>7
<1>7. /\ hs[n + 1] \in Headers(Len(Body[more[n + 1]]))
      /\ st[n + 2] = st[n + 1] + Len(Packed(hs[n + 1], more[n + 1]))
      /\ \A i \in 1 .. Len(Packed(hs[n + 1], more[n + 1])) :
            (all \o p)[st[n + 1] + i] = Packed(hs[n + 1], more[n + 1])[i]
  <2>1. n + 1 \in 1 .. n + 1
    BY <1>1
  <2>2. st[n + 1] = Len(all) /\ Packed(hs[n + 1], more[n + 1]) = p
    BY <1>1, <1>2, <1>4, <2>1
  <2>3. QED
    BY <1>1, <1>3, <1>4, <2>2
<1>8. Written(more, all \o p, st, hs)
  <2>1. \A k \in 1 .. n + 1 : k \in 1 .. n \/ k = n + 1
    BY <1>1
  <2>2. (n + 1) + 1 = n + 2
    BY <1>1
  <2>3. \A k \in 1 .. n + 1 :
           /\ hs[k] \in Headers(Len(Body[more[k]]))
           /\ st[k + 1] = st[k] + Len(Packed(hs[k], more[k]))
           /\ \A i \in 1 .. Len(Packed(hs[k], more[k])) :
                 (all \o p)[st[k] + i] = Packed(hs[k], more[k])[i]
    BY <1>6, <1>7, <2>1, <2>2
  <2> HIDE DEF p
  <2>4. QED
    BY <1>1, <1>3, <1>4, <1>5, <2>2, <2>3 DEF Written
<1>9. QED
  BY <1>4, <1>8 DEF n, more

LEMMA TakenGrows ==
    ASSUME NEW reqs \in Seq(Requests), NEW all \in Seq(Token), NEW rest \in Seq(Token),
           NEW starts, NEW headers, NEW done, NEW length,
           Taken(reqs, done, length, rest, all, starts, headers),
           \A k \in 1 .. Len(reqs) + 1 : starts[k] \in 0 .. Len(all),
           NEW r \in Requests, NEW p \in Seq(Token), NEW st, NEW hs,
           \A k \in 1 .. Len(reqs) + 1 : st[k] = starts[k],
           \A k \in 1 .. Len(reqs) : hs[k] = headers[k]
    PROVE  Taken(Append(reqs, r), done, length, rest \o p, all \o p, st, hs)
<1> DEFINE n == Len(reqs)
           place == Len(all) - Len(rest)
<1>1. /\ n \in Nat /\ Len(Append(reqs, r)) = n + 1
      /\ \A k \in 1 .. n : Append(reqs, r)[k] = reqs[k]
  OBVIOUS
<1>2. /\ all \o p \in Seq(Token)
      /\ Len(all) \in Nat /\ Len(p) \in Nat /\ Len(all \o p) = Len(all) + Len(p)
      /\ \A i \in 1 .. Len(all) : (all \o p)[i] = all[i]
      /\ \A i \in 1 .. Len(p) : (all \o p)[Len(all) + i] = p[i]
  BY Joined
<1>3. /\ rest \o p \in Seq(Token)
      /\ Len(rest) \in Nat /\ Len(rest \o p) = Len(rest) + Len(p)
      /\ \A i \in 1 .. Len(rest) : (rest \o p)[i] = rest[i]
      /\ \A i \in 1 .. Len(p) : (rest \o p)[Len(rest) + i] = p[i]
  BY Joined
<1>4. Len(all \o p) - Len(rest \o p) = place
  BY <1>2, <1>3
<1>5. /\ done \in 0 .. n /\ Len(rest) <= Len(all)
      /\ length = 0 => place = starts[done + 1]
      /\ length # 0 => /\ done < n
                       /\ length = Len(Body[reqs[done + 1]])
                       /\ place = starts[done + 1] + Len(headers[done + 1]) + 1
      /\ \A i \in 1 .. Len(rest) : rest[i] = all[place + i]
  BY DEF Taken
<1>6. done + 1 \in 1 .. n + 1 /\ (done < n => done + 1 \in 1 .. n) /\ done \in 0 .. n + 1
  BY <1>1, <1>5
<1>7. ASSUME NEW i \in 1 .. Len(rest \o p)
      PROVE  (rest \o p)[i] = (all \o p)[place + i]
  <2>1. CASE i <= Len(rest)
    <3>1. i \in 1 .. Len(rest) /\ place + i \in 1 .. Len(all)
      BY <1>2, <1>3, <1>5, <2>1
    <3>2. QED
      BY <1>2, <1>3, <1>5, <3>1
  <2>2. CASE i > Len(rest)
    <3>1. /\ i - Len(rest) \in 1 .. Len(p)
          /\ Len(rest) + (i - Len(rest)) = i /\ Len(all) + (i - Len(rest)) = place + i
      BY <1>2, <1>3, <2>2
    <3>2. (rest \o p)[Len(rest) + (i - Len(rest))] = p[i - Len(rest)]
             /\ (all \o p)[Len(all) + (i - Len(rest))] = p[i - Len(rest)]
      BY <1>2, <1>3, <3>1
    <3>3. QED
      BY <3>1, <3>2
  <2>3. i <= Len(rest) \/ i > Len(rest)
    BY <1>3
  <2>4. QED
    BY <2>1, <2>2, <2>3, Zenon
<1>8. st[done + 1] = starts[done + 1] /\ Len(rest \o p) <= Len(all \o p)
  BY <1>2, <1>3, <1>5, <1>6
<1>9. done < n => hs[done + 1] = headers[done + 1] /\ Append(reqs, r)[done + 1] = reqs[done + 1]
  BY <1>1, <1>6
<1> HIDE DEF n, place
<1>10. QED
  BY <1>1, <1>4, <1>5, <1>6, <1>7, <1>8, <1>9 DEF Taken

LEMMA SendStep ==
    ASSUME Types, NEW r \in Requests, NEW header \in Headers(Len(Body[r])), Send(r, header)
    PROVE  Types' /\ (InStep => InStep')
<1> DEFINE p == Packed(header, r)
<1>1. sent \in Seq(Requests)
  BY DEF Types
<1>2. /\ sent' = Append(sent, r) /\ handled' = handled /\ want' = want /\ buffer' = buffer
      /\ wire' = wire \o p /\ Rest' = Rest \o p
  BY RestGrows DEF Send
<1>3. p \in Seq(Token)
  BY PackedFacts
<1>4. Rest \in Seq(Token) /\ wire \o p \in Seq(Token)
  BY <1>3, ConcatProperties DEF Rest, Types
<1>5. sent' \in Seq(Requests) /\ Types'
  BY <1>2, <1>4 DEF Types
<1>6. ASSUME InStep PROVE InStep'
  <2>1. PICK all, starts, headers :
           /\ Written(sent, all, starts, headers)
           /\ Taken(sent, Len(handled), want, Rest, all, starts, headers)
    BY <1>6 DEF InStep
  <2>2. PICK st, hs :
           /\ Written(Append(sent, r), all \o p, st, hs)
           /\ \A k \in 1 .. Len(sent) + 1 : st[k] = starts[k]
           /\ \A k \in 1 .. Len(sent) : hs[k] = headers[k]
    <3>1. Written(sent, all, starts, headers)
      BY <2>1
    <3>2. \E st, hs :
             /\ Written(Append(sent, r), all \o Packed(header, r), st, hs)
             /\ \A k \in 1 .. Len(sent) + 1 : st[k] = starts[k]
             /\ \A k \in 1 .. Len(sent) : hs[k] = headers[k]
      BY <1>1, <3>1, WrittenGrows
    <3>3. QED
      BY <3>2
  <2>3. all \in Seq(Token) /\ \A k \in 1 .. Len(sent) + 1 : starts[k] \in 0 .. Len(all)
    BY <2>1 DEF Written
  <2> HIDE DEF p
  <2>4. Taken(Append(sent, r), Len(handled), want, Rest \o p, all \o p, st, hs)
    BY <1>3, <1>4, <2>1, <2>2, <2>3, TakenGrows DEF Types
  <2>5. QED
    BY <1>2, <2>2, <2>4 DEF InStep
<1>7. QED
  BY <1>5, <1>6

-----------------------------------------------------------------------------
(* What the reader takes *)

\* Bytes that arrive change the buffer only.
LEMMA ReceiveKeeps ==
    ASSUME Types, NEW n \in 1 .. Len(wire), Receive(n)
    PROVE  Rest' = Rest /\ buffer' \in Seq(Token) /\ wire' \in Seq(Token)
<1> DEFINE a == SubSeq(wire, 1, n)
           b == SubSeq(wire, n + 1, Len(wire))
<1>1. buffer \in Seq(Token) /\ wire \in Seq(Token)
  BY DEF Types
<1>2. n \in 0 .. Len(wire)
  OBVIOUS
<1>3. a \in Seq(Token) /\ b \in Seq(Token)
  BY <1>1, <1>2, CutAndJoin
<1>4. a \o b = wire
  BY <1>1, <1>2, CutAndJoin
<1>5. buffer' = buffer \o a /\ wire' = b
  BY DEF Receive
<1> HIDE DEF a, b
<1>6. (buffer \o a) \o b = buffer \o (a \o b) /\ buffer \o a \in Seq(Token)
  BY <1>1, <1>3, TokensAssoc
<1>7. QED
  BY <1>3, <1>5, <1>6, <1>4 DEF Rest

\* What leaves the buffer is the front of the rest.
LEMMA RestShrinks ==
    ASSUME Types, NEW m \in 0 .. Len(buffer),
           buffer' = SubSeq(buffer, m + 1, Len(buffer)), wire' = wire
    PROVE  /\ buffer' \in Seq(Token)
           /\ Len(Rest) \in Nat /\ Len(buffer) <= Len(Rest) /\ Len(Rest') = Len(Rest) - m
           /\ \A i \in 1 .. Len(Rest') : Rest'[i] = Rest[m + i]
<1> DEFINE a == SubSeq(buffer, 1, m)
           b == SubSeq(buffer, m + 1, Len(buffer))
<1>1. buffer \in Seq(Token) /\ wire \in Seq(Token) /\ Len(buffer) \in Nat
  BY DEF Types
<1>2. a \in Seq(Token) /\ b \in Seq(Token)
  BY <1>1, CutAndJoin
<1>3. a \o b = buffer
  BY <1>1, CutAndJoin
<1>4. Len(a) = m
  BY <1>1
<1> HIDE DEF a
<1>5. Rest' = b \o wire
  BY DEF Rest
<1>6. buffer' = b
  OBVIOUS
<1> HIDE DEF b
<1>7. b \o wire \in Seq(Token) /\ (a \o b) \o wire = a \o (b \o wire)
  BY <1>1, <1>2, TokensAssoc
<1>8. Rest = a \o Rest' /\ Rest' \in Seq(Token)
  BY <1>2, <1>5, <1>7, <1>3 DEF Rest
<1>9. /\ Len(Rest) = m + Len(Rest') /\ Len(Rest') \in Nat
      /\ \A i \in 1 .. Len(Rest') : Rest[m + i] = Rest'[i]
  <2> DEFINE later == Rest'
  <2> HIDE DEF later
  <2>1. later \in Seq(Token) /\ Rest = a \o later
    BY <1>8 DEF later
  <2>2. /\ Len(a \o later) = m + Len(later) /\ Len(later) \in Nat
        /\ \A i \in 1 .. Len(later) : (a \o later)[m + i] = later[i]
    <3>1. a \in Seq(Token)
      BY <1>2
    <3>2. /\ Len(a \o later) = Len(a) + Len(later) /\ Len(later) \in Nat
          /\ \A i \in 1 .. Len(later) : (a \o later)[Len(a) + i] = later[i]
      BY <3>1, <2>1, Joined
    <3>3. QED
      BY <1>4, <3>2
  <2>3. QED
    BY <2>1, <2>2 DEF later
<1>10. Len(Rest) = Len(buffer) + Len(wire) /\ Len(wire) \in Nat
  BY <1>1, Joined DEF Rest
<1>11. QED
  BY <1>1, <1>2, <1>6, <1>9, <1>10

\* The next request lies in the rest as it was sent: after a header when its
\* length is not known yet.
LEMMA NextPacket ==
    ASSUME Types, NEW all, NEW starts, NEW headers,
           Written(sent, all, starts, headers),
           Taken(sent, Len(handled), want, Rest, all, starts, headers),
           Rest # << >>
    PROVE  LET k == Len(handled) + 1
               h == headers[k]
               body == BodyTokens(sent[k])
               skipped == IF want = 0 THEN 0 ELSE Len(h) + 1
           IN  /\ k \in 1 .. Len(sent) /\ sent[k] \in Requests /\ h \in Headers(Len(Body[sent[k]]))
               /\ Len(all) - Len(Rest) = starts[k] + skipped
               /\ starts[k + 1] = starts[k] + Len(h) + 1 + Len(Body[sent[k]])
               /\ want = 0 => /\ \A i \in 1 .. Len(h) : Rest[i] = h[i]
                              /\ Rest[Len(h) + 1] = BlankLine
               /\ want # 0 => \A i \in 1 .. want : Rest[i] = body[i]
<1> DEFINE k == Len(handled) + 1
           h == headers[k]
           r == sent[k]
           place == Len(all) - Len(Rest)
<1>1. sent \in Seq(Requests) /\ Len(sent) \in Nat /\ Len(handled) \in Nat
  BY DEF Types
<1>2. Rest \in Seq(Token) /\ Len(Rest) \in Nat \ {0}
  BY Joined, EmptySeq DEF Types, Rest
<1>3. /\ all \in Seq(Token) /\ Len(all) \in Nat
      /\ starts \in [1 .. Len(sent) + 1 -> 0 .. Len(all)] /\ starts[Len(sent) + 1] = Len(all)
  BY DEF Written
<1>4. /\ Len(handled) \in 0 .. Len(sent)
      /\ want = 0 => place = starts[k]
      /\ want # 0 => k <= Len(sent) /\ want = Len(Body[r]) /\ place = starts[k] + Len(h) + 1
      /\ \A i \in 1 .. Len(Rest) : Rest[i] = all[place + i]
  BY <1>1 DEF Taken
<1>5. k \in 1 .. Len(sent)
  BY <1>1, <1>2, <1>3, <1>4
<1>6. r \in Requests
  BY <1>1, <1>5
<1>7. /\ h \in Headers(Len(Body[r])) /\ starts[k + 1] = starts[k] + Len(Packed(h, r))
      /\ \A i \in 1 .. Len(Packed(h, r)) : all[starts[k] + i] = Packed(h, r)[i]
  BY <1>5 DEF Written
<1>8. Len(h) \in Nat /\ Len(Body[r]) \in Nat
  <2>1. Len(Body[r]) \in Nat \ {0}
    BY <1>6, BodyFacts
  <2>2. h \in Seq(Token)
    BY <1>7, <2>1, HeaderFacts
  <2>3. QED
    BY <2>1, <2>2
<1>9. starts[k] \in Nat /\ starts[k + 1] \in Nat /\ starts[k + 1] <= Len(all)
  BY <1>1, <1>3, <1>5
<1> DEFINE p == Packed(h, r)
           lh == Len(h)
           lb == Len(Body[r])
           start == starts[k]
           end == starts[k + 1]
<1>10. /\ Len(p) = lh + 1 + lb
       /\ \A i \in 1 .. lh : p[i] = h[i]
       /\ p[lh + 1] = BlankLine
       /\ \A i \in 1 .. lb : p[lh + 1 + i] = BodyTokens(r)[i]
  BY <1>6, <1>7, PackedFacts
<1>11. end = start + Len(p) /\ \A i \in 1 .. Len(p) : all[start + i] = p[i]
  BY <1>7
<1> HIDE DEF k, h, r, p, lh, lb, start, end
<1>12. lh \in Nat /\ lb \in Nat /\ start \in Nat /\ end \in Nat /\ end <= Len(all)
  BY <1>8, <1>9 DEF lh, lb, start, end
<1>13. end = start + lh + 1 + lb
  BY <1>10, <1>11, <1>12
<1>14. /\ want = 0 => place = start
       /\ want # 0 => want = lb /\ place = start + lh + 1
       /\ Len(Rest) = Len(all) - place
  BY <1>2, <1>3, <1>4 DEF lb, lh, start, place
<1> HIDE DEF place
<1>15. ASSUME want = 0
       PROVE  /\ \A i \in 1 .. lh : Rest[i] = h[i]
              /\ Rest[lh + 1] = BlankLine
  <2>1. /\ place = start
        /\ \A i \in 1 .. lh + 1 : i \in 1 .. Len(Rest) /\ i \in 1 .. Len(p)
    BY <1>3, <1>10, <1>12, <1>13, <1>14, <1>15
  <2>2. \A i \in 1 .. lh + 1 : Rest[i] = p[i]
    BY <1>4, <1>11, <2>1
  <2>3. QED
    BY <1>10, <1>12, <2>2
<1>16. ASSUME want # 0 PROVE \A i \in 1 .. want : Rest[i] = BodyTokens(r)[i]
  <2> TAKE i \in 1 .. want
  <2>1. /\ i \in 1 .. lb /\ i \in 1 .. Len(Rest) /\ lh + 1 + i \in 1 .. Len(p)
        /\ place + i = start + (lh + 1 + i)
    BY <1>3, <1>10, <1>12, <1>13, <1>14, <1>16
  <2>2. Rest[i] = all[place + i] /\ all[start + (lh + 1 + i)] = p[lh + 1 + i]
    BY <1>4, <1>11, <2>1
  <2>3. QED
    BY <1>10, <2>1, <2>2
<1>17. place = start + (IF want = 0 THEN 0 ELSE lh + 1)
  BY <1>12, <1>14
<1>18. QED
  BY <1>5, <1>6, <1>7, <1>13, <1>15, <1>16, <1>17 DEF k, h, r, place, lh, lb, start, end

LEMMA FirstBlankIs ==
    ASSUME NEW tokens \in Seq(Token), NEW n \in 1 .. Len(tokens),
           tokens[n].kind = "blank", \A j \in 1 .. n - 1 : tokens[j].kind # "blank"
    PROVE  FirstBlank(tokens) = n
<1>1. DOMAIN tokens = 1 .. Len(tokens) /\ Len(tokens) \in Nat
  OBVIOUS
<1>2. ASSUME NEW i \in DOMAIN tokens, tokens[i].kind = "blank",
             \A j \in 1 .. (i - 1) : tokens[j].kind # "blank"
      PROVE  i = n
  <2>1. ~(i < n) /\ ~(n < i)
    BY <1>1, <1>2
  <2>2. QED
    BY <1>1, <2>1
<1>3. QED
  BY <1>1, <1>2 DEF FirstBlank

\* The length is read off the one line that has it.
LEMMA PacketLengthIs ==
    ASSUME NEW tokens, NEW length, NEW n \in {1, 2}, FirstBlank(tokens) = n + 1,
           \A i \in 1 .. n : tokens[i].kind = "length" => tokens[i].value = length
    PROVE  PacketLength(tokens) \in {0, length}
<1> DEFINE lines == {i \in 1 .. (FirstBlank(tokens) - 1) : tokens[i].kind = "length"}
           IsLast(i) == i \in lines /\ \A j \in lines : j <= i
<1>1. lines \subseteq {1, 2}
  OBVIOUS
<1>2. lines # {} => \E i : IsLast(i)
  <2>1. CASE 2 \in lines
    BY <1>1, <2>1
  <2>2. CASE 2 \notin lines
    BY <1>1, <2>2
  <2>3. QED
    BY <2>1, <2>2
<1>3. lines # {} => (CHOOSE i \in lines : \A j \in lines : j <= i) \in lines
  BY <1>2
<1>4. \A i \in lines : tokens[i].value = length
  OBVIOUS
<1> HIDE DEF lines
<1>5. PacketLength(tokens)
         = IF lines = {} THEN 0
           ELSE tokens[CHOOSE i \in lines : \A j \in lines : j <= i].value
  BY DEF PacketLength, lines
<1>6. QED
  BY <1>3, <1>4, <1>5

\* Taking m more tokens moves the place by m.
LEMMA TakenMoves ==
    ASSUME NEW done, NEW length, NEW done2, NEW length2, NEW all \in Seq(Token),
           NEW starts, NEW headers, NEW m \in Nat,
           Taken(sent, done, length, Rest, all, starts, headers),
           Len(Rest) \in Nat, m <= Len(Rest), Len(Rest') = Len(Rest) - m,
           \A i \in 1 .. Len(Rest') : Rest'[i] = Rest[m + i],
           LET place == Len(all) - Len(Rest) + m
           IN  /\ done2 \in 0 .. Len(sent)
               /\ length2 = 0 => place = starts[done2 + 1]
               /\ length2 # 0 => /\ done2 < Len(sent)
                                 /\ length2 = Len(Body[sent[done2 + 1]])
                                 /\ place = starts[done2 + 1] + Len(headers[done2 + 1]) + 1
    PROVE  Taken(sent, done2, length2, Rest', all, starts, headers)
<1> DEFINE place == Len(all) - Len(Rest)
<1>1. Len(all) \in Nat
  OBVIOUS
<1>2. Len(all) - Len(Rest') = place + m /\ Len(Rest') <= Len(all)
  BY <1>1 DEF Taken
<1>3. \A i \in 1 .. Len(Rest) : Rest[i] = all[place + i]
  BY DEF Taken
<1>4. ASSUME NEW i \in 1 .. Len(Rest') PROVE Rest'[i] = all[(place + m) + i]
  <2>1. m + i \in 1 .. Len(Rest) /\ place + (m + i) = (place + m) + i
    BY <1>1
  <2>2. Rest'[i] = Rest[m + i] /\ Rest[m + i] = all[place + (m + i)]
    BY <1>3, <2>1
  <2>3. QED
    BY <2>1, <2>2
<1> HIDE DEF place
<1>5. QED
  BY <1>2, <1>4 DEF Taken, place

\* Before a header the buffer can only begin with that header.
LEMMA HeaderStep ==
    ASSUME Types, InStep, get_packet_length
    PROVE  Types' /\ (serving' => InStep')
<1>1. PICK all, starts, headers :
         /\ Written(sent, all, starts, headers)
         /\ Taken(sent, Len(handled), want, Rest, all, starts, headers)
  BY DEF InStep
<1>2. PICK b \in DOMAIN buffer : buffer[b].kind = "blank"
  BY DEF get_packet_length, HasBlank
<1>3. /\ buffer \in Seq(Token) /\ wire \in Seq(Token) /\ Len(buffer) \in Nat
      /\ b \in 1 .. Len(buffer)
  BY DEF Types
<1>4. /\ Rest \in Seq(Token) /\ Len(Rest) \in Nat /\ Len(buffer) <= Len(Rest)
      /\ \A i \in 1 .. Len(buffer) : Rest[i] = buffer[i]
  BY <1>3, Joined DEF Rest
<1>5. Rest # << >>
  BY <1>3, <1>4
<1> DEFINE k == Len(handled) + 1
           h == headers[k]
           r == sent[k]
           m == Len(h) + 1
<1>6. want = 0 /\ Len(handled) \in Nat
  BY DEF get_packet_length, Types
<1>7. /\ k \in 1 .. Len(sent) /\ r \in Requests /\ h \in Headers(Len(Body[r]))
      /\ \A i \in 1 .. Len(h) : Rest[i] = h[i]
      /\ Rest[m] = BlankLine
  BY <1>1, <1>5, <1>6, NextPacket
<1> HIDE DEF k, h, r
<1>8. Len(Body[r]) \in Nat \ {0}
  BY <1>7, BodyFacts
<1>9. /\ Len(h) \in {1, 2}
      /\ \A i \in 1 .. Len(h) : h[i].kind # "blank"
      /\ \A i \in 1 .. Len(h) : h[i].kind = "length" => h[i].value = Len(Body[r])
  BY <1>7, <1>8, HeaderFacts
<1>10. m \in 1 .. Len(buffer)
  <2>1. ~(b <= Len(h))
    BY <1>2, <1>3, <1>4, <1>7, <1>9
  <2>2. QED
    BY <1>3, <1>9, <2>1
<1>11. /\ \A i \in 1 .. Len(h) : buffer[i] = h[i]
       /\ buffer[m] = BlankLine /\ BlankLine.kind = "blank" /\ m - 1 = Len(h)
  BY <1>3, <1>4, <1>7, <1>9, <1>10 DEF BlankLine
<1>12. FirstBlank(buffer) = m
  BY <1>3, <1>9, <1>10, <1>11, FirstBlankIs
<1>13. PacketLength(buffer) \in {0, Len(Body[r])}
  <2>1. FirstBlank(buffer) = Len(h) + 1
    BY <1>12
  <2>2. \A i \in 1 .. Len(h) : buffer[i].kind = "length" => buffer[i].value = Len(Body[r])
    BY <1>9, <1>11
  <2>3. QED
    BY <1>9, <2>1, <2>2, PacketLengthIs
<1>14. /\ buffer' = SubSeq(buffer, m + 1, Len(buffer)) /\ wire' = wire /\ sent' = sent
       /\ handled' = handled /\ want' = PacketLength(buffer)
       /\ serving' = (PacketLength(buffer) # 0)
  BY <1>12 DEF get_packet_length
<1> HIDE DEF m
<1>15. /\ buffer' \in Seq(Token)
       /\ Len(Rest') = Len(Rest) - m /\ \A i \in 1 .. Len(Rest') : Rest'[i] = Rest[m + i]
  BY <1>10, <1>14, RestShrinks
<1>16. Types'
  BY <1>8, <1>13, <1>14, <1>15 DEF Types
<1>17. ASSUME serving' PROVE InStep'
  <2>1. want' # 0 /\ want' = Len(Body[r])
    BY <1>8, <1>13, <1>14, <1>17
  <2>2. Len(all) - Len(Rest) = starts[k]
    BY <1>1, <1>6 DEF Taken, k
  <2>3. all \in Seq(Token) /\ m <= Len(Rest) /\ m \in Nat
    BY <1>1, <1>3, <1>4, <1>10 DEF Written
  <2>4. Len(handled) \in 0 .. Len(sent) /\ Len(handled) < Len(sent)
    BY <1>6, <1>7 DEF k, Types
  <2>5. Len(all) - Len(Rest) + m = starts[k] + Len(h) + 1
    <3>1. starts[k] \in Nat /\ Len(h) \in Nat
      <4>1. k \in 1 .. Len(sent) + 1
        BY <1>7 DEF Types
      <4>2. starts \in [1 .. Len(sent) + 1 -> 0 .. Len(all)]
        BY <1>1 DEF Written
      <4>3. starts[k] \in 0 .. Len(all)
        BY <4>1, <4>2
      <4>4. QED
        BY <1>9, <4>3
    <3>2. QED
      BY <2>2, <3>1 DEF m
  <2>6. Taken(sent, Len(handled), want', Rest', all, starts, headers)
    BY <1>1, <1>4, <1>15, <2>1, <2>3, <2>4, <2>5, TakenMoves DEF k, h, r
  <2>7. QED
    BY <1>1, <1>14, <2>6 DEF InStep
<1>18. QED
  BY <1>16, <1>17

\* The packet is the next request, whole, and no other.
LEMMA PacketStep ==
    ASSUME Types, InStep, HandlePacket
    PROVE  /\ Types' /\ (serving' => InStep')
           /\ Channel!Handle \/ UNCHANGED <<sent, handled>>
<1>1. PICK all, starts, headers :
         /\ Written(sent, all, starts, headers)
         /\ Taken(sent, Len(handled), want, Rest, all, starts, headers)
  BY DEF InStep
<1>2. /\ buffer \in Seq(Token) /\ wire \in Seq(Token) /\ Len(buffer) \in Nat
      /\ want \in Nat \ {0} /\ want <= Len(buffer) /\ want \in 0 .. Len(buffer)
  BY DEF HandlePacket, Types
<1>3. /\ Rest \in Seq(Token) /\ Len(Rest) \in Nat /\ Len(buffer) <= Len(Rest)
      /\ \A i \in 1 .. Len(buffer) : Rest[i] = buffer[i]
  BY <1>2, Joined DEF Rest
<1>4. Rest # << >>
  BY <1>2, <1>3
<1> DEFINE k == Len(handled) + 1
           h == headers[k]
           r == sent[k]
<1>5. Len(handled) \in Nat /\ handled \in Seq(Requests) /\ sent \in Seq(Requests)
  BY DEF Types
<1>6. /\ k \in 1 .. Len(sent) /\ r \in Requests /\ h \in Headers(Len(Body[r]))
      /\ starts[k + 1] = starts[k] + Len(h) + 1 + Len(Body[r])
      /\ Len(all) - Len(Rest) = starts[k] + (Len(h) + 1)
      /\ \A i \in 1 .. want : Rest[i] = BodyTokens(r)[i]
  BY <1>1, <1>2, <1>4, NextPacket
<1>7. want = Len(Body[r])
  BY <1>1, <1>2 DEF Taken
<1> HIDE DEF k, h, r
<1>8. Packet[1] = BodyTokens(r)[1]
  <2>1. 1 \in 1 .. want /\ 1 \in 1 .. Len(buffer)
    BY <1>2
  <2>2. Packet[1] = buffer[1]
    BY <1>2, <2>1 DEF Packet
  <2>3. QED
    BY <1>3, <1>6, <2>1, <2>2
<1>9. \A q \in Parsed : q = r
  BY <1>6, <1>8, BodyFacts DEF Parsed
<1>10. /\ buffer' = SubSeq(buffer, want + 1, Len(buffer)) /\ want' = 0
       /\ sent' = sent /\ wire' = wire
       /\ \/ \E q \in Parsed : handled' = Append(handled, q)
          \/ serving' = FALSE /\ handled' = handled
  BY DEF HandlePacket
<1>11. handled' = Append(handled, r) \/ (serving' = FALSE /\ handled' = handled)
  BY <1>9, <1>10
<1>12. handled' = Append(handled, r) => Len(handled') = k
  BY <1>5 DEF k
<1>13. /\ buffer' \in Seq(Token)
       /\ Len(Rest') = Len(Rest) - want /\ \A i \in 1 .. Len(Rest') : Rest'[i] = Rest[want + i]
  BY <1>2, <1>10, RestShrinks
<1>14. Append(handled, r) \in Seq(Requests)
  BY <1>5, <1>6
<1>15. Types'
  BY <1>2, <1>5, <1>10, <1>11, <1>13, <1>14 DEF Types
<1>16. ASSUME serving' PROVE InStep'
  <2>1. Len(handled') = k
    BY <1>11, <1>12, <1>16
  <2>2. all \in Seq(Token) /\ want \in Nat /\ want <= Len(Rest)
    BY <1>1, <1>2, <1>3 DEF Written
  <2>3. k \in 0 .. Len(sent)
    BY <1>6
  <2>4. Len(all) - Len(Rest) + want = starts[k + 1]
    <3>1. Len(h) \in Nat /\ Len(Body[r]) \in Nat
      BY <1>2, <1>6, <1>7, HeaderFacts
    <3>2. starts[k] \in Nat
      <4>1. k \in 1 .. Len(sent) + 1
        BY <1>5, <1>6
      <4>2. starts \in [1 .. Len(sent) + 1 -> 0 .. Len(all)]
        BY <1>1 DEF Written
      <4>3. QED
        BY <4>1, <4>2
    <3>3. Len(all) \in Nat
      BY <2>2
    <3>4. /\ starts[k + 1] = starts[k] + Len(h) + 1 + want
          /\ Len(all) - Len(Rest) = starts[k] + (Len(h) + 1)
      BY <1>6, <1>7
    <3> DEFINE before == starts[k]
               after == starts[k + 1]
               whole == Len(all)
               rest == Len(Rest)
               head == Len(h)
    <3>5. /\ before \in Nat /\ whole \in Nat /\ rest \in Nat /\ head \in Nat /\ want \in Nat
          /\ after = before + head + 1 + want
          /\ whole - rest = before + (head + 1)
      BY <1>3, <2>2, <3>1, <3>2, <3>3, <3>4
    <3> HIDE DEF before, after, whole, rest, head
    <3>6. whole - rest + want = after
      BY <3>5
    <3>7. QED
      BY <3>6 DEF before, after, whole, rest, head
  <2>5. Taken(sent, k, 0, Rest', all, starts, headers)
    BY <1>1, <1>3, <1>13, <2>2, <2>3, <2>4, TakenMoves
  <2>6. QED
    BY <1>1, <1>10, <2>1, <2>5 DEF InStep
<1>17. Channel!Handle \/ UNCHANGED <<sent, handled>>
  <2>1. Len(handled) < Len(sent)
    BY <1>5, <1>6 DEF k
  <2>2. QED
    BY <1>10, <1>11, <2>1 DEF Channel!Handle, r, k
<1>18. QED
  BY <1>15, <1>16, <1>17

-----------------------------------------------------------------------------
(* The refinement *)

LEMMA PacketInvStep ==
    ASSUME PacketInv, [Next]_vars
    PROVE  PacketInv' /\ [Channel!Next]_<<sent, handled>>
<1> USE DEF PacketInv
<1>1. ASSUME NEW r \in Requests, NEW header \in Headers(Len(Body[r])), Send(r, header)
      PROVE  PacketInv' /\ Channel!Send(r)
  <2>1. serving' = serving /\ Channel!Send(r)
    BY <1>1 DEF Send, Channel!Send
  <2>2. QED
    BY <1>1, <2>1, SendStep
<1>2. CASE Read
  <2>1. PICK n \in 1 .. Len(wire) : ReadUntil(n) \/ ReadExactly(n)
    BY <1>2 DEF Read
  <2>2. Receive(n) /\ UNCHANGED <<sent, want, handled, serving>>
    BY <2>1 DEF ReadUntil, ReadExactly
  <2>3. Rest' = Rest /\ buffer' \in Seq(Token) /\ wire' \in Seq(Token)
    BY <2>2, ReceiveKeeps
  <2>4. QED
    BY <2>2, <2>3 DEF Types, InStep
<1>3. CASE get_packet_length
  <2>1. serving /\ UNCHANGED <<sent, handled>>
    BY <1>3 DEF get_packet_length
  <2>2. QED
    BY <1>3, <2>1, HeaderStep
<1>4. CASE HandlePacket
  <2>1. serving
    BY <1>4 DEF HandlePacket
  <2>2. QED
    BY <1>4, <2>1, PacketStep DEF Channel!Next
<1>5. CASE Lose \/ ReadError \/ UNCHANGED vars
  <2>1. UNCHANGED <<sent, wire, buffer, want, handled>> /\ (serving' => serving)
    BY <1>5 DEF Lose, ReadError, vars
  <2>2. QED
    BY <2>1 DEF Types, InStep, Rest
<1>6. QED
  BY <1>1, <1>2, <1>3, <1>4, <1>5 DEF Next, Channel!Next

LEMMA PacketInvInit == Init => PacketInv
<1> SUFFICES ASSUME Init PROVE PacketInv
  OBVIOUS
<1>1. /\ sent = << >> /\ handled = << >> /\ buffer = << >> /\ wire = << >> /\ want = 0
      /\ Rest = << >> \o << >>
  BY DEF Init, Rest
<1>2. << >> \in Seq(Token) /\ << >> \in Seq(Requests) /\ Len(<< >>) = 0
  OBVIOUS
<1>3. Rest = << >>
  BY <1>1, <1>2, ConcatEmptySeq
<1> DEFINE starts == [k \in 1 .. 1 |-> 0]
<1>4. Written(sent, << >>, starts, << >>)
  BY <1>1, <1>2 DEF Written
<1>5. Taken(sent, Len(handled), want, Rest, << >>, starts, << >>)
  BY <1>1, <1>2, <1>3 DEF Taken
<1>6. QED
  BY <1>1, <1>2, <1>4, <1>5 DEF PacketInv, Types, InStep

\* The requests of the client are handled in the order they were sent, each
\* once and none garbled, however the stream is cut into pieces, whatever the
\* bodies contain and whether the headers are faulty or not.
THEOREM ReaderIsFifo == Spec => HandledInOrder
<1>1. Init => Channel!Init
  BY DEF Init, Channel!Init
<1>2. PacketInv /\ [Next]_vars => PacketInv' /\ [Channel!Next]_<<sent, handled>>
  BY PacketInvStep
<1>3. QED
  BY <1>1, <1>2, PacketInvInit, PTL DEF Spec, HandledInOrder, Channel!Spec

-----------------------------------------------------------------------------
(* What is parsed *)

\* A packet that is complete is the next request and nothing else.
PacketIsNext ==
    (serving /\ want # 0 /\ Len(buffer) >= want) => Parsed = {sent[Len(handled) + 1]}

\* The parser never sees a text that is not one request: a session with a sound
\* client ends at a header without a length or at a lost peer only.
THEOREM PacketsAreRequests == Spec => []PacketIsNext
<1>1. PacketInv => PacketIsNext
  <2> SUFFICES ASSUME PacketInv, serving, want # 0, Len(buffer) >= want
               PROVE  Parsed = {sent[Len(handled) + 1]}
    BY DEF PacketIsNext
  <2>1. Types /\ InStep
    BY DEF PacketInv
  <2>2. PICK all, starts, headers :
           /\ Written(sent, all, starts, headers)
           /\ Taken(sent, Len(handled), want, Rest, all, starts, headers)
    BY <2>1 DEF InStep
  <2>3. /\ buffer \in Seq(Token) /\ wire \in Seq(Token) /\ Len(buffer) \in Nat
        /\ want \in 1 .. Len(buffer)
    BY <2>1 DEF Types
  <2>4. /\ Rest \in Seq(Token) /\ Len(Rest) \in Nat /\ Len(buffer) <= Len(Rest)
        /\ \A i \in 1 .. Len(buffer) : Rest[i] = buffer[i]
    BY <2>3, Joined DEF Rest
  <2>5. Rest # << >>
    BY <2>3, <2>4
  <2> DEFINE r == sent[Len(handled) + 1]
  <2>6. r \in Requests /\ \A i \in 1 .. want : Rest[i] = BodyTokens(r)[i]
    BY <2>1, <2>2, <2>5, NextPacket
  <2>7. want = Len(Body[r])
    BY <2>2 DEF Taken
  <2> HIDE DEF r
  <2>8. Packet \in Seq(Token) /\ Len(Packet) = want /\ \A i \in 1 .. want : Packet[i] = buffer[i]
    BY <2>3 DEF Packet
  <2>9. /\ BodyTokens(r) \in Seq(Token) /\ Len(BodyTokens(r)) = want
        /\ \A q \in Requests : BodyTokens(q)[1].of = q
    BY <2>6, <2>7, BodyFacts
  <2>10. \A i \in 1 .. Len(Packet) : Packet[i] = BodyTokens(r)[i]
    BY <2>3, <2>4, <2>6, <2>8
  <2>11. Packet = BodyTokens(r)
    BY <2>8, <2>9, <2>10, SeqEqual
  <2>12. Parsed = {r}
    BY <2>6, <2>9, <2>11 DEF Parsed
  <2>13. QED
    BY <2>12 DEF r
<1>2. PacketInv /\ [Next]_vars => PacketInv'
  BY PacketInvStep
<1>3. QED
  BY <1>1, <1>2, PacketInvInit, PTL DEF Spec
=============================================================================
