----------------------------- MODULE Http_proofs ------------------------------
(***************************************************************************)
(* Proofs about what is in http/: for any texts, headers and messages, the  *)
(* parser delivers a message as it was sent and leaves it alone then; for   *)
(* any files and requests, the server finds its context and sends a file    *)
(* whole.                                                                  *)
(***************************************************************************)
EXTENDS HttpParser, HttpServer, SequenceTheorems, TLAPS

\* A text is a sequence of pieces.
LEMMA TextIsContent ==
  ASSUME NEW x \in Line \cup Name \cup Value \cup Body \cup {Empty}
  PROVE  Text(x) \in Content
<1>1. CASE x = Empty BY <1>1 DEF Text, Content
<1>2. CASE x # Empty
  <2>1. <<x, 1>> \in Piece /\ <<x, 2>> \in Piece BY <1>2 DEF Piece
  <2> QED BY <2>1, <1>2 DEF Text, Content
<1> QED BY <1>1, <1>2

\* headers[name].swap(value): the map stays one, and what it had is a text.
LEMMA HeaderSwap ==
  ASSUME NEW headers \in Headers, NEW name \in Content, NEW value \in Content
  PROVE  /\ HeaderSet(headers, name, value) \in Headers
         /\ HeaderLeft(headers, name) \in Content
<1>1. PICK names \in SUBSET Content : headers \in [names -> Content] BY DEF Headers
<1>2. HeaderSet(headers, name, value) \in [names \cup {name} -> Content]
  BY <1>1 DEF HeaderSet
<1>3. names \cup {name} \in SUBSET Content BY <1>1
<1>4. HeaderLeft(headers, name) \in Content BY <1>1 DEF HeaderLeft, Content
<1> QED BY <1>2, <1>3, <1>4 DEF Headers

\* A new message has no headers.
LEMMA BlankIsMessage ==
  Blank \in Message
<1>1. [n \in {} |-> <<>>] \in [{} -> Content] OBVIOUS
<1>2. [n \in {} |-> <<>>] \in Headers BY <1>1 DEF Headers
<1> QED BY <1>2 DEF Blank, Message, Content

\* Another header is sent.
LEMMA OneMore ==
  ASSUME NEW hs \in Seq(SentHeader), NEW h \in SentHeader
  PROVE  Append(hs, h) \in Seq(SentHeader) /\ Append(hs, h) # <<>>
<1>1. Append(hs, h) \in Seq(SentHeader) BY AppendProperties
<1>2. Len(Append(hs, h)) # 0 BY AppendProperties, LenProperties
<1> QED BY <1>1, <1>2, EmptySeq

\* What llhttp reports, and what is left of the text.
LEMMA Reported ==
  ASSUME TypeOK, NEW f \in Fragments, Report(f)
  PROVE  f \in Content /\ rest' \in Content
<1>1. PICK n \in 1..Len(rest) : f = SubSeq(rest, 1, n) BY DEF Fragments
<1>2. rest \in Seq(Piece) BY DEF TypeOK, Content
<1>3. f \in Seq(Piece) /\ Len(f) = n BY <1>1, <1>2
<1>4. SubSeq(rest, Len(f) + 1, Len(rest)) \in Seq(Piece) BY <1>2, <1>3
<1> QED BY <1>3, <1>4 DEF Report, Content

-----------------------------------------------------------------------------
(* Types.  One lemma per kind of callback. *)

LEMMA InitTypes == Init => TypeOK
<1> SUFFICES ASSUME Init PROVE TypeOK OBVIOUS
<1>1. messages \in Seq(Message) /\ sent \in Seq(SentMessage) BY DEF Init
<1>2. rest \in Content /\ buffer \in Content /\ buffer1 \in Content BY DEF Init, Content
<1>3. Len(sent) = This BY DEF Init, This
<1> QED BY <1>1, <1>2, <1>3 DEF Init, TypeOK

\* A new message, and what the peer sends with it.
LEMMA BeginTypes ==
  ASSUME TypeOK, MessageBegin
  PROVE  TypeOK'
<1>1. PICK line \in Line :
        /\ rest' = Text(line)
        /\ sent' = Append(sent, [line |-> line, headers |-> <<>>, trailers |-> <<>>,
                                 body |-> Empty])
  BY DEF MessageBegin
<1>2. rest' \in Content BY <1>1, TextIsContent
<1>3. messages' \in Seq(Message) /\ Len(messages') = This + 1
  BY BlankIsMessage DEF MessageBegin, Reset, TypeOK, This, Message
<1>4. [line |-> line, headers |-> <<>>, trailers |-> <<>>, body |-> Empty] \in SentMessage
  BY DEF SentMessage
<1>5. sent' \in Seq(SentMessage) /\ Len(sent') = Len(sent) + 1
  BY <1>1, <1>4 DEF TypeOK
<1> QED BY <1>2, <1>3, <1>5 DEF MessageBegin, TypeOK, This

\* A fragment goes into a buffer.
LEMMA FragmentTypes ==
  ASSUME TypeOK, NEW f \in Fragments, OnText(f) \/ OnValue(f)
  PROVE  TypeOK'
<1>1. Report(f) BY DEF OnText, OnValue
<1>2. f \in Content /\ rest' \in Content BY <1>1, Reported
<1>3. Appended(buffer, f) \in Content /\ Appended(buffer1, f) \in Content
  BY <1>2 DEF Appended, Content, TypeOK
<1>4. buffer' \in Content /\ buffer1' \in Content
  BY <1>3 DEF OnText, OnValue, TypeOK
<1> QED BY <1>2, <1>4 DEF OnText, OnValue, TypeOK, This

\* A text goes from a buffer into the message.
LEMMA CompleteTypes ==
  ASSUME TypeOK, LineComplete \/ ValueComplete \/ MessageComplete
  PROVE  TypeOK'
<1>1. /\ This \in DOMAIN messages /\ messages[This] \in Message
      /\ messages \in Seq(Message)
      /\ buffer \in Content /\ buffer1 \in Content
  BY DEF LineComplete, ValueComplete, MessageComplete, TypeOK, This
<1>2. CASE LineComplete
  <2>1. [messages[This] EXCEPT !.line = buffer] \in Message BY <1>1 DEF Message
  <2>2. messages' \in Seq(Message) /\ Len(messages') = This
    BY <1>1, <1>2, <2>1 DEF LineComplete, This, Message
  <2>3. buffer' \in Content BY <1>1, <1>2 DEF LineComplete, Message
  <2> QED BY <1>2, <2>2, <2>3 DEF LineComplete, TypeOK, This
<1>3. CASE ValueComplete
  <2>1. messages[This].headers \in Headers BY <1>1 DEF Message
  <2>2. /\ HeaderSet(messages[This].headers, buffer, buffer1) \in Headers
        /\ HeaderLeft(messages[This].headers, buffer) \in Content
    BY <1>1, <2>1, HeaderSwap
  <2>3. [messages[This] EXCEPT !.headers = HeaderSet(@, buffer, buffer1)] \in Message
    BY <1>1, <2>2 DEF Message
  <2>4. messages' \in Seq(Message) /\ Len(messages') = This
    BY <1>1, <1>3, <2>3 DEF ValueComplete, This, Message
  <2>5. buffer' \in Content /\ buffer1' \in Content
    BY <1>3, <2>2 DEF ValueComplete, Cleared, Content
  <2> QED BY <1>3, <2>4, <2>5 DEF ValueComplete, TypeOK, This
<1>4. CASE MessageComplete
  <2>1. [messages[This] EXCEPT !.body = buffer] \in Message BY <1>1 DEF Message
  <2>2. messages' \in Seq(Message) /\ Len(messages') = This
    BY <1>1, <1>4, <2>1 DEF MessageComplete, This, Message
  <2>3. buffer' \in Content BY <1>1, <1>4 DEF MessageComplete, Message
  <2> QED BY <1>4, <2>2, <2>3 DEF MessageComplete, TypeOK, This
<1> QED BY <1>2, <1>3, <1>4

\* llhttp goes on to another text.
LEMMA BetweenTypes ==
  ASSUME TypeOK, HeaderBegin \/ FieldComplete \/ HeadersComplete \/ LastChunk
  PROVE  TypeOK'
<1>1. /\ sent \in Seq(SentMessage) /\ This \in DOMAIN sent /\ sent[This] \in SentMessage
      /\ messages \in Seq(Message)
  <2>1. at # "idle" BY DEF HeaderBegin, FieldComplete, HeadersComplete, LastChunk
  <2>2. /\ sent \in Seq(SentMessage) /\ messages \in Seq(Message)
        /\ Len(sent) = This /\ This > 0
    BY <2>1 DEF TypeOK
  <2>3. This \in DOMAIN sent BY <2>2
  <2> QED BY <2>2, <2>3
<1>2. CASE HeaderBegin
  <2>1. PICK name \in Name, value \in Value :
          /\ rest' = Text(name)
          /\ sent' = IF trailing
                     THEN [sent EXCEPT ![This].trailers =
                             Append(@, [name |-> name, value |-> value])]
                     ELSE [sent EXCEPT ![This].headers =
                             Append(@, [name |-> name, value |-> value])]
    BY <1>2 DEF HeaderBegin
  <2>2. rest' \in Content BY <2>1, TextIsContent
  <2> DEFINE h == [name |-> name, value |-> value]
             headers == Append(sent[This].headers, h)
             trailers == Append(sent[This].trailers, h)
  <2>3. h \in SentHeader BY DEF SentHeader
  <2>4. /\ headers \in Seq(SentHeader) /\ headers # <<>>
        /\ trailers \in Seq(SentHeader) /\ trailers # <<>>
    <3> HIDE DEF h
    <3>1. sent[This].headers \in Seq(SentHeader) /\ sent[This].trailers \in Seq(SentHeader)
      BY <1>1 DEF SentMessage
    <3> QED BY <2>3, <3>1, OneMore
  <2>5. sent' = [sent EXCEPT ![This] = IF trailing THEN [@ EXCEPT !.trailers = trailers]
                                       ELSE [@ EXCEPT !.headers = headers]]
    BY <1>1, <2>1
  <2> HIDE DEF headers, trailers
  <2>6. CASE trailing
    <3>1. [sent[This] EXCEPT !.trailers = trailers] \in SentMessage
      BY <1>1, <2>4 DEF SentMessage
    <3>2. /\ sent' \in Seq(SentMessage) /\ Len(sent') = Len(sent)
          /\ sent'[This] = [sent[This] EXCEPT !.trailers = trailers]
      BY <1>1, <2>5, <2>6, <3>1
    <3>3. sent'[This].trailers = trailers BY <1>1, <3>2 DEF SentMessage
    <3> QED BY <1>2, <2>2, <2>4, <2>6, <3>2, <3>3
            DEF HeaderBegin, TypeOK, This
  <2>7. CASE ~trailing
    <3>1. [sent[This] EXCEPT !.headers = headers] \in SentMessage
      BY <1>1, <2>4 DEF SentMessage
    <3>2. /\ sent' \in Seq(SentMessage) /\ Len(sent') = Len(sent)
          /\ sent'[This] = [sent[This] EXCEPT !.headers = headers]
      BY <1>1, <2>5, <2>7, <3>1
    <3>3. sent'[This].headers = headers BY <1>1, <3>2 DEF SentMessage
    <3> QED BY <1>2, <2>2, <2>4, <2>7, <3>2, <3>3
            DEF HeaderBegin, TypeOK, This
  <2> QED BY <2>6, <2>7
<1>3. CASE FieldComplete
  <2> DEFINE hs == IF trailing THEN sent[This].trailers ELSE sent[This].headers
  <2>1. hs \in Seq(SentHeader) /\ hs # <<>>
    BY <1>1, <1>3 DEF FieldComplete, TypeOK, This, SentMessage
  <2>2. hs[Len(hs)] \in SentHeader BY <2>1
  <2>3. rest' = Text(hs[Len(hs)].value) BY <1>3 DEF FieldComplete
  <2>4. rest' \in Content BY <2>2, <2>3, TextIsContent DEF SentHeader
  <2> QED BY <1>3, <2>4 DEF FieldComplete, TypeOK, This
<1>4. CASE HeadersComplete
  <2>1. PICK body \in Body :
          rest' = Text(body) /\ sent' = [sent EXCEPT ![This].body = body]
    BY <1>4 DEF HeadersComplete
  <2>2. rest' \in Content BY <2>1, TextIsContent
  <2>3. [sent[This] EXCEPT !.body = body] \in SentMessage BY <1>1 DEF SentMessage
  <2>4. sent' \in Seq(SentMessage) /\ Len(sent') = Len(sent)
    BY <1>1, <2>1, <2>3
  <2> QED BY <1>4, <2>2, <2>4 DEF HeadersComplete, TypeOK, This
<1>5. CASE LastChunk
  BY <1>5 DEF LastChunk, TypeOK, This
<1> QED BY <1>2, <1>3, <1>4, <1>5

\* Types, and that a callback finds the message it writes and the header it is in,
\* for any texts.
THEOREM ParserTypes == Spec => []TypeOK
<1>1. Init => TypeOK BY InitTypes
<1>2. ASSUME TypeOK, [Next]_vars PROVE TypeOK'
  <2>1. CASE MessageBegin BY <1>2, <2>1, BeginTypes
  <2>2. CASE LineComplete \/ ValueComplete \/ MessageComplete
    BY <1>2, <2>2, CompleteTypes
  <2>3. CASE HeaderBegin \/ FieldComplete \/ HeadersComplete \/ LastChunk
    BY <1>2, <2>3, BetweenTypes
  <2>4. ASSUME NEW f \in Fragments, OnText(f) \/ OnValue(f) PROVE TypeOK'
    BY <1>2, <2>4, FragmentTypes
  <2>5. CASE UNCHANGED vars BY <1>2, <2>5 DEF vars, TypeOK, This
  <2> QED BY <1>2, <2>1, <2>2, <2>3, <2>4, <2>5 DEF Next
<1> QED BY <1>1, <1>2, PTL DEF Spec

-----------------------------------------------------------------------------
(* Delivered messages. *)

\* A callback writes into the message it is collecting, which is not delivered, or
\* begins another.
LEMMA StepKeepsDelivered ==
  ASSUME TypeOK, [Next]_vars
  PROVE  \A k \in Delivered : messages'[k] = messages[k]
<1> SUFFICES ASSUME NEW k \in Delivered PROVE messages'[k] = messages[k]
  OBVIOUS
<1>1. messages \in Seq(Message) /\ k \in DOMAIN messages /\ (k # This \/ at = "idle")
  BY DEF TypeOK, Delivered, This
<1>2. CASE MessageBegin
  BY <1>1, <1>2, BlankIsMessage DEF MessageBegin, Reset, Message
<1>3. CASE LineComplete \/ ValueComplete \/ MessageComplete
  <2>1. k # This BY <1>1, <1>3 DEF LineComplete, ValueComplete, MessageComplete
  <2> QED BY <1>1, <1>3, <2>1 DEF LineComplete, ValueComplete, MessageComplete
<1>4. CASE UNCHANGED messages BY <1>4
<1> QED
  BY <1>2, <1>3, <1>4
  DEF Next, OnText, OnValue, HeaderBegin, FieldComplete, HeadersComplete, LastChunk, vars

\* A message that was delivered is never written again, for any texts and any
\* number of messages.
THEOREM DeliveredIsKept == Spec => MessageKept
<1>1. TypeOK /\ [Next]_vars
        => [\A k \in Delivered : messages'[k] = messages[k]]_vars
  BY StepKeepsDelivered
<1> QED BY <1>1, ParserTypes, PTL DEF Spec, MessageKept

-----------------------------------------------------------------------------
(* Messages are delivered as they were sent. *)

\* Texts are told apart by their pieces, and names are not empty.
LEMMA TextsDiffer ==
  ASSUME NEW x, NEW y, Text(x) = Text(y)
  PROVE  x = y
<1>1. CASE x = Empty /\ y = Empty  BY <1>1
<1>2. CASE x # Empty /\ y # Empty
  <2>1. Text(x)[1][1] = x /\ Text(y)[1][1] = y  BY <1>2 DEF Text
  <2> QED  BY <2>1
<1>3. Len(Text(x)) = Len(Text(y))  OBVIOUS
<1>4. Len(Text(x)) = (IF x = Empty THEN 0 ELSE 2)  BY DEF Text
<1>5. Len(Text(y)) = (IF y = Empty THEN 0 ELSE 2)  BY DEF Text
<1> QED  BY <1>1, <1>2, <1>3, <1>4, <1>5

\* The map of headers of which no name is repeated.
LEMMA MapOf ==
  ASSUME NEW hs \in Seq(SentHeader), Distinct(hs)
  PROVE  /\ DOMAIN AsMap(hs) = {Text(hs[i].name) : i \in DOMAIN hs}
         /\ \A i \in DOMAIN hs : AsMap(hs)[Text(hs[i].name)] = Text(hs[i].value)
         /\ AsMap(hs) = [n \in DOMAIN AsMap(hs) |-> AsMap(hs)[n]]
<1>1. /\ DOMAIN AsMap(hs) = {Text(hs[i].name) : i \in DOMAIN hs}
      /\ AsMap(hs) = [n \in DOMAIN AsMap(hs) |-> AsMap(hs)[n]]
  BY DEF AsMap
<1>2. ASSUME NEW i \in DOMAIN hs
      PROVE  AsMap(hs)[Text(hs[i].name)] = Text(hs[i].value)
  <2> DEFINE n == Text(hs[i].name)
             j == CHOOSE j \in DOMAIN hs : Text(hs[j].name) = n
  <2>1. j \in DOMAIN hs /\ Text(hs[j].name) = n
    OBVIOUS
  <2>2. hs[j].name = hs[i].name
    BY <2>1, TextsDiffer
  <2>3. j = i
    BY <2>1, <2>2 DEF Distinct
  <2>4. AsMap(hs)[n] = Text(hs[j].value)
    BY DEF AsMap
  <2> QED  BY <2>3, <2>4
<1> QED  BY <1>1, <1>2

\* A header more, whose name is new: swap() makes the map of them all, and leaves
\* nothing behind.
LEMMA OneMoreInMap ==
  ASSUME NEW hs \in Seq(SentHeader), hs # <<>>, Distinct(hs),
         NEW some, some = SubSeq(hs, 1, Len(hs) - 1),
         NEW n, n = Text(LastOf(hs).name),
         NEW v, v = Text(LastOf(hs).value)
  PROVE  /\ HeaderSet(AsMap(some), n, v) = AsMap(hs)
         /\ HeaderLeft(AsMap(some), n) = <<>>
<1>1. Len(hs) \in Nat /\ Len(hs) # 0
  BY EmptySeq
<1>2. /\ some \in Seq(SentHeader) /\ Len(hs) \in DOMAIN hs
      /\ DOMAIN some = 1..(Len(hs) - 1) /\ DOMAIN hs = 1..Len(hs)
      /\ \A i \in DOMAIN some : some[i] = hs[i]
  BY <1>1
<1>3. /\ DOMAIN hs = DOMAIN some \cup {Len(hs)}
      /\ \A i \in DOMAIN some : i # Len(hs) /\ i \in DOMAIN hs
  BY <1>1, <1>2
<1>4. Distinct(some)
  BY <1>2, <1>3 DEF Distinct
<1>5. \A i \in DOMAIN some : Text(hs[i].name) # n
  BY <1>2, <1>3, TextsDiffer DEF Distinct, LastOf
<1>6. /\ DOMAIN AsMap(some) = {Text(some[i].name) : i \in DOMAIN some}
      /\ \A i \in DOMAIN some : AsMap(some)[Text(some[i].name)] = Text(some[i].value)
  BY <1>2, <1>4, MapOf
<1>7. /\ DOMAIN AsMap(hs) = {Text(hs[i].name) : i \in DOMAIN hs}
      /\ \A i \in DOMAIN hs : AsMap(hs)[Text(hs[i].name)] = Text(hs[i].value)
      /\ AsMap(hs) = [m \in DOMAIN AsMap(hs) |-> AsMap(hs)[m]]
  BY MapOf
<1> HIDE DEF Distinct, AsMap, Text
<1>8. DOMAIN AsMap(hs) = DOMAIN AsMap(some) \cup {n} /\ AsMap(hs)[n] = v
  <2>1. n = Text(hs[Len(hs)].name) /\ v = Text(hs[Len(hs)].value)
    BY DEF LastOf
  <2>2. DOMAIN AsMap(some) = {Text(hs[i].name) : i \in DOMAIN some}
    <3>1. \A i \in DOMAIN some : Text(some[i].name) = Text(hs[i].name)
      BY <1>2
    <3>2. {Text(some[i].name) : i \in DOMAIN some} = {Text(hs[i].name) : i \in DOMAIN some}
      BY <3>1
    <3> QED  BY <1>6, <3>2
  <2>3. {Text(hs[i].name) : i \in DOMAIN some \cup {Len(hs)}}
          = {Text(hs[i].name) : i \in DOMAIN some} \cup {Text(hs[Len(hs)].name)}
    OBVIOUS
  <2>4. DOMAIN AsMap(hs) = DOMAIN AsMap(some) \cup {n}
    BY <1>3, <1>7, <2>1, <2>2, <2>3
  <2> QED  BY <1>2, <1>7, <2>1, <2>4
<1>9. \A m \in DOMAIN AsMap(some) : m # n /\ AsMap(some)[m] = AsMap(hs)[m]
  <2> SUFFICES ASSUME NEW i \in DOMAIN some, NEW m, m = Text(some[i].name)
               PROVE  m # n /\ AsMap(some)[m] = AsMap(hs)[m]
    BY <1>6
  <2>1. some[i] = hs[i] /\ i \in DOMAIN hs
    BY <1>2, <1>3
  <2> QED  BY <1>5, <1>6, <1>7, <2>1
<1>10. HeaderSet(AsMap(some), n, v) = [m \in DOMAIN AsMap(hs) |-> AsMap(hs)[m]]
  BY <1>8, <1>9 DEF HeaderSet
<1>11. HeaderLeft(AsMap(some), n) = <<>>
  BY <1>9 DEF HeaderLeft
<1> QED  BY <1>7, <1>10, <1>11

\* What was reported and what is left.
LEMMA StillTheText ==
  ASSUME TypeOK, NEW f \in Fragments, Report(f), NEW b \in Content
  PROVE  (b \o f) \o rest' = b \o rest
<1>1. PICK n \in 1..Len(rest) : f = SubSeq(rest, 1, n)  BY DEF Fragments
<1>2. rest \in Seq(Piece) /\ b \in Seq(Piece)  BY DEF TypeOK, Content
<1>3. rest' = SubSeq(rest, n + 1, Len(rest))  BY <1>1, <1>2 DEF Report
<1>4. f \in Seq(Piece) /\ rest' \in Seq(Piece)  BY <1>1, <1>2, <1>3
<1>5. f \o rest' = rest
  BY <1>1, <1>2, <1>3, <1>4
<1>6. (b \o f) \o rest' = b \o (f \o rest')
  <2>1. \A s, u, w \in Seq(Piece) : (s \o u) \o w = s \o (u \o w)
    BY ConcatAssociative
  <2> QED  BY <1>2, <1>4, <2>1
<1> QED  BY <1>5, <1>6

-----------------------------------------------------------------------------
(* One lemma per callback. *)

\* The message that is collected, and what was sent for it.
LEMMA CollectedTypes ==
  ASSUME TypeOK, This > 0
  PROVE  /\ messages[This] \in Message /\ sent[This] \in SentMessage
         /\ messages \in Seq(Message) /\ sent \in Seq(SentMessage)
         /\ This \in Nat /\ Len(messages) = This /\ Len(sent) = This
         /\ This \in DOMAIN messages /\ This \in DOMAIN sent
         /\ sent[This].headers \in Seq(SentHeader)
         /\ sent[This].trailers \in Seq(SentHeader)
<1>1. /\ messages \in Seq(Message) /\ sent \in Seq(SentMessage)
      /\ This \in Nat /\ Len(messages) = This /\ Len(sent) = This
  BY DEF TypeOK, This
<1>2. /\ This \in DOMAIN messages /\ This \in DOMAIN sent
      /\ messages[This] \in Message /\ sent[This] \in SentMessage
  BY <1>1
<1> QED  BY <1>1, <1>2 DEF SentMessage

\* A text that is in a buffer as far as it is not left.
LEMMA InBuffer ==
  ASSUME NEW b \in Content
  PROVE  b \o <<>> = b /\ <<>> \o b = b /\ <<>> \in Content
<1>1. b \in Seq(Piece) /\ <<>> \in Seq(Piece)  BY DEF Content
<1> QED  BY <1>1, ConcatEmptySeq DEF Content

\* A message stays as it was sent when neither is touched.
LEMMA StaysAsSent ==
  ASSUME NEW k \in Nat \ {0}, AsSent(k), messages'[k] = messages[k],
         \A j \in 1..k : sent'[j] = sent[j]
  PROVE  AsSent(k)'
<1>1. sent'[k] = sent[k]  OBVIOUS
<1>2. Plain(k)' = Plain(k)  BY DEF Plain
<1> QED  BY <1>1, <1>2 DEF AsSent

\* What the peer sends of a header or a body belongs to the message that is collected.
LEMMA HeadersAreAdded ==
  ASSUME HeaderBegin \/ HeadersComplete
  PROVE  \E s : sent' = [sent EXCEPT ![This] = s]
<1>1. CASE HeaderBegin
  <2>1. PICK name \in Name, value \in Value :
          sent' = LET h == [name |-> name, value |-> value]
                  IN IF trailing THEN [sent EXCEPT ![This].trailers = Append(@, h)]
                     ELSE [sent EXCEPT ![This].headers = Append(@, h)]
    BY <1>1 DEF HeaderBegin
  <2> DEFINE h == [name |-> name, value |-> value]
             s == sent[This]
             more == IF trailing THEN [s EXCEPT !.trailers = Append(s.trailers, h)]
                     ELSE [s EXCEPT !.headers = Append(s.headers, h)]
  <2>2. sent' = [sent EXCEPT ![This] = more]
    BY <2>1
  <2> QED  BY <2>2
<1>2. CASE HeadersComplete
  <2>1. PICK body \in Body : sent' = [sent EXCEPT ![This].body = body]
    BY <1>2 DEF HeadersComplete
  <2> DEFINE more == [sent[This] EXCEPT !.body = body]
  <2>2. sent' = [sent EXCEPT ![This] = more]
    BY <2>1
  <2> QED  BY <2>2
<1> QED  BY <1>1, <1>2

\* What was sent before the message that is collected is left alone.
LEMMA SentStays ==
  ASSUME TypeOK, Next, NEW k \in Delivered
  PROVE  /\ \A j \in 1..k : sent'[j] = sent[j]
         /\ k \in Nat \ {0}
<1>1. /\ sent \in Seq(SentMessage) /\ Len(sent) = This /\ This \in Nat
      /\ k \in 1..This /\ (k # This \/ at = "idle")
  BY DEF TypeOK, Delivered, This
<1>2. CASE MessageBegin
  <2>1. PICK line \in Line :
          sent' = Append(sent, [line |-> line, headers |-> <<>>, trailers |-> <<>>,
                                body |-> Empty])
    BY <1>2 DEF MessageBegin
  <2> QED  BY <1>1, <2>1
<1>3. CASE HeaderBegin \/ HeadersComplete
  <2>1. at # "idle"  BY <1>3 DEF HeaderBegin, HeadersComplete
  <2>2. \E s : sent' = [sent EXCEPT ![This] = s]
    BY <1>3, HeadersAreAdded
  <2>3. \A j \in 1..Len(sent) : j # This => sent'[j] = sent[j]
    BY <1>1, <2>2
  <2> QED  BY <1>1, <2>1, <2>3
<1>4. CASE UNCHANGED sent  BY <1>1, <1>4
<1> QED
  BY <1>2, <1>3, <1>4
  DEF Next, LineComplete, FieldComplete, ValueComplete, LastChunk, MessageComplete, OnText,
      OnValue

\* A message is delivered when it is complete, and then only that one.
LEMMA DeliveredInv ==
  ASSUME TypeOK, TypeOK', DeliveredAsSent, Next, \A k \in Nat : MessageComplete /\ k = This => AsSent(k)'
  PROVE  DeliveredAsSent'
<1> SUFFICES ASSUME NEW k \in Delivered' PROVE AsSent(k)'
  BY DEF DeliveredAsSent
<1>1. /\ messages \in Seq(Message) /\ This \in Nat
      /\ k \in 1..Len(messages') /\ k \in Nat /\ (k # Len(messages') \/ at' = "idle")
  BY DEF TypeOK, Delivered, This
<1>2. ASSUME k \in Delivered PROVE AsSent(k)'
  <2>1. messages'[k] = messages[k]
    BY <1>2, StepKeepsDelivered
  <2> QED  BY <1>2, <2>1, SentStays, StaysAsSent DEF DeliveredAsSent
<1>3. CASE MessageBegin
  <2>1. Len(messages') = This + 1 /\ at' # "idle" /\ at = "idle"
    BY <1>1, <1>3 DEF MessageBegin, Reset, This
  <2>2. k \in Delivered
    BY <1>1, <2>1 DEF Delivered, This
  <2> QED  BY <1>2, <2>2
<1>4. CASE ~MessageBegin
  <2>1. Len(messages') = This
    <3>1. CASE LineComplete \/ ValueComplete \/ MessageComplete
      BY <1>1, <3>1 DEF LineComplete, ValueComplete, MessageComplete, This
    <3>2. CASE UNCHANGED messages
      BY <3>2 DEF This
    <3> QED
      BY <1>4, <3>1, <3>2
      DEF Next, HeaderBegin, FieldComplete, HeadersComplete, LastChunk, OnText, OnValue
  <2>2. at' = "idle" => MessageComplete
    BY <1>4
    DEF Next, LineComplete, HeaderBegin, FieldComplete, ValueComplete, HeadersComplete,
        LastChunk, OnText, OnValue
  <2>3. k = This => MessageComplete
    BY <1>1, <2>1, <2>2
  <2>4. k # This => k \in Delivered
    BY <1>1, <2>1 DEF Delivered, This
  <2> QED  BY <1>1, <1>2, <2>3, <2>4
<1> QED  BY <1>3, <1>4

\* A new message.
LEMMA BeginCollects ==
  ASSUME InductiveInv, MessageBegin
  PROVE  CollectedSoFar'
<1>1. TypeOK /\ BuffersBetween /\ This \in Nat /\ buffer \in Content
  BY DEF InductiveInv, CollectedSoFar, TypeOK, This
<1>2. PICK line \in Line :
        /\ rest' = Text(line)
        /\ sent' = Append(sent, [line |-> line, headers |-> <<>>, trailers |-> <<>>,
                                 body |-> Empty])
  BY DEF MessageBegin
<1>3. /\ This' = This + 1 /\ messages'[This + 1] = Blank
      /\ Len(sent) = This
      /\ sent'[This + 1] = [line |-> line, headers |-> <<>>, trailers |-> <<>>,
                            body |-> Empty]
      /\ \A j \in 1..This : sent'[j] = sent[j]
  BY <1>1, <1>2, BlankIsMessage DEF TypeOK, MessageBegin, Reset, This
<1>4. /\ at' = "line" /\ ~trailing' /\ buffer' = <<>> /\ buffer1' = buffer1
      /\ at = "idle"
  BY <1>1 DEF MessageBegin, BuffersBetween
<1>5. buffer' \o rest' = Text(line)
  BY <1>2, <1>4, TextIsContent, InBuffer
<1>6. Plain(This)' => buffer1' = <<>>
  BY <1>1, <1>3, <1>4 DEF Plain, BuffersBetween
<1>7. sent'[This'].headers = <<>> /\ sent'[This'].trailers = <<>> /\ sent'[This'].line = line
  BY <1>3
<1>8. /\ messages'[This'].line = <<>> /\ messages'[This'].body = <<>>
      /\ messages'[This'].headers = [n \in {} |-> <<>>]
  BY <1>3 DEF Blank
<1>9. LineSoFar' /\ BodySoFar' /\ HeadersSoFar'
  BY <1>4, <1>5, <1>7, <1>8 DEF LineSoFar, BodySoFar, HeadersSoFar, InHeader
<1>10. ValuesSoFar'
  <2>1. Complete' = <<>>
    BY <1>4, <1>7 DEF Complete, InHeader
  <2>2. AsMap(<<>>) = [n \in {} |-> <<>>]
    BY DEF AsMap
  <2> QED  BY <1>4, <1>8, <2>1, <2>2 DEF ValuesSoFar
<1> QED  BY <1>4, <1>6, <1>9, <1>10 DEF CollectedSoFar, BuffersBetween

\* A fragment goes from what is left into the buffer.
LEMMA FragmentCollects ==
  ASSUME InductiveInv, NEW f \in Fragments, OnText(f) \/ OnValue(f)
  PROVE  CollectedSoFar'
<1>1. TypeOK /\ Report(f) /\ buffer \in Content /\ buffer1 \in Content
  BY DEF InductiveInv, TypeOK, OnText, OnValue
<1>2. /\ (buffer \o f) \o rest' = buffer \o rest
      /\ (buffer1 \o f) \o rest' = buffer1 \o rest
  BY <1>1, StillTheText
<1>3. /\ UNCHANGED <<at, trailing, messages, sent>> /\ at # "idle" /\ at # "headers"
      /\ at = "value" => buffer1' \o rest' = buffer1 \o rest /\ buffer' = buffer
      /\ at # "value" => buffer' \o rest' = buffer \o rest /\ buffer1' = buffer1
  BY <1>2 DEF OnText, OnValue, Appended
<1>4. This' = This /\ Plain(This)' = Plain(This) /\ Complete' = Complete
  BY <1>3 DEF This, Plain, Complete, InHeader
<1>5. BuffersBetween'
  BY <1>3, <1>4 DEF InductiveInv, CollectedSoFar, BuffersBetween
<1>6. This > 0 => LineSoFar' /\ BodySoFar' /\ HeadersSoFar'
  BY <1>3, <1>4
  DEF InductiveInv, CollectedSoFar, LineSoFar, BodySoFar, HeadersSoFar, InHeader
<1>7. This > 0 /\ Plain(This) => ValuesSoFar'
  BY <1>3, <1>4 DEF InductiveInv, CollectedSoFar, ValuesSoFar
<1> QED  BY <1>4, <1>5, <1>6, <1>7 DEF CollectedSoFar

\* A header more: it is the last one, and the names before it were told apart.
LEMMA AppendIsLast ==
  ASSUME NEW hs \in Seq(SentHeader), NEW h \in SentHeader, NEW more, more = Append(hs, h)
  PROVE  LastOf(more) = h /\ SubSeq(more, 1, Len(more) - 1) = hs
BY DEF LastOf

LEMMA DistinctBefore ==
  ASSUME NEW hs \in Seq(SentHeader), NEW h \in SentHeader, Distinct(Append(hs, h))
  PROVE  Distinct(hs)
<1>1. \A i \in DOMAIN hs : Append(hs, h)[i] = hs[i] /\ i \in DOMAIN Append(hs, h)
  OBVIOUS
<1> QED  BY <1>1 DEF Distinct

\* What the peer sends belongs to the message that is collected.
LEMMA SentIsOfThis ==
  ASSUME TypeOK, This > 0, HeaderBegin \/ HeadersComplete
  PROVE  \A j \in 1..This : j # This => sent'[j] = sent[j]
<1>1. sent \in Seq(SentMessage) /\ Len(sent) = This  BY CollectedTypes
<1>2. \E s : sent' = [sent EXCEPT ![This] = s]  BY HeadersAreAdded
<1> QED  BY <1>1, <1>2

\* A text is complete: what it leaves in its buffer, and in the message.
LEMMA LineCollects ==
  ASSUME InductiveInv, LineComplete
  PROVE  CollectedSoFar'
<1>1. TypeOK /\ at = "line" /\ rest = <<>> /\ This > 0 /\ buffer \in Content
  BY DEF InductiveInv, TypeOK, LineComplete, This
<1>2. /\ BuffersBetween /\ LineSoFar /\ BodySoFar /\ HeadersSoFar
      /\ Plain(This) => ValuesSoFar
  BY <1>1 DEF InductiveInv, CollectedSoFar
<1>3. buffer = Text(sent[This].line) /\ messages[This].line = <<>>
  BY <1>1, <1>2, InBuffer DEF LineSoFar
<1>4. /\ messages' = [messages EXCEPT ![This].line = buffer]
      /\ messages[This] \in Message /\ messages \in Seq(Message)
      /\ This \in DOMAIN messages /\ Len(messages) = This
  BY <1>1, CollectedTypes DEF LineComplete
<1>5. /\ This' = This
      /\ messages'[This] = [messages[This] EXCEPT !.line = buffer]
  BY <1>4 DEF This
<1>6. /\ messages'[This].line = buffer
      /\ messages'[This].headers = messages[This].headers
      /\ messages'[This].body = messages[This].body
  BY <1>4, <1>5 DEF Message
<1>7. /\ at' = "headers" /\ ~trailing /\ ~trailing' /\ buffer' = <<>> /\ sent' = sent
      /\ buffer1' = buffer1
  BY <1>1, <1>2, <1>3 DEF LineComplete, HeadersSoFar
<1>8. Plain(This)' = Plain(This) /\ Complete' = Complete
  BY <1>1, <1>5, <1>7 DEF Plain, Complete, InHeader
<1>9. BuffersBetween' /\ LineSoFar' /\ BodySoFar' /\ HeadersSoFar'
  BY <1>1, <1>2, <1>3, <1>5, <1>6, <1>7, <1>8
  DEF BuffersBetween, LineSoFar, BodySoFar, HeadersSoFar, InHeader
<1>10. Plain(This)' => ValuesSoFar'
  BY <1>2, <1>5, <1>6, <1>7, <1>8 DEF ValuesSoFar
<1> QED  BY <1>9, <1>10 DEF CollectedSoFar

\* The last header, or trailer, is sent.
LEMMA HeaderCollects ==
  ASSUME InductiveInv, HeaderBegin
  PROVE  CollectedSoFar'
<1>1. TypeOK /\ at = "headers" /\ This > 0 /\ buffer \in Content
  BY DEF InductiveInv, TypeOK, HeaderBegin, This
<1>2. /\ BuffersBetween /\ LineSoFar /\ BodySoFar /\ HeadersSoFar
      /\ Plain(This) => ValuesSoFar
  BY <1>1 DEF InductiveInv, CollectedSoFar
<1> DEFINE s == sent[This]
<1>3. /\ s \in SentMessage /\ This \in DOMAIN sent /\ sent \in Seq(SentMessage)
      /\ s.headers \in Seq(SentHeader) /\ s.trailers \in Seq(SentHeader)
      /\ This \in Nat
  BY <1>1, CollectedTypes
<1>4. /\ at' = "field" /\ UNCHANGED <<trailing, buffer, buffer1, messages>>
      /\ This' = This
  BY DEF HeaderBegin, This
<1>5. PICK name \in Name, value \in Value :
        /\ rest' = Text(name)
        /\ LET h == [name |-> name, value |-> value]
           IN sent' = IF trailing THEN [sent EXCEPT ![This].trailers = Append(@, h)]
                      ELSE [sent EXCEPT ![This].headers = Append(@, h)]
  BY DEF HeaderBegin
<1> DEFINE h == [name |-> name, value |-> value]
<1>6. h \in SentHeader /\ h.name = name  BY DEF SentHeader
<1>7. ASSUME trailing PROVE CollectedSoFar'
  <2> DEFINE more == Append(s.trailers, h)
  <2>1. more \in Seq(SentHeader) /\ more # <<>>
    BY <1>3, <1>6, OneMore
  <2>2. sent'[This] = [s EXCEPT !.trailers = more]
    BY <1>3, <1>5, <1>7
  <2> HIDE DEF h, more
  <2>3. /\ sent'[This].trailers = more /\ sent'[This].line = s.line
    BY <1>3, <2>2 DEF SentMessage
  <2>4. ~Plain(This)'
    BY <1>1, <1>3, <1>4, <2>1, <2>3 DEF Plain
  <2>5. LineSoFar' /\ BodySoFar' /\ HeadersSoFar'
    BY <1>1, <1>2, <1>4, <1>7, <2>1, <2>3 DEF LineSoFar, BodySoFar, HeadersSoFar, InHeader
  <2>6. BuffersBetween'
    BY <1>4, <2>4 DEF BuffersBetween
  <2> QED  BY <2>4, <2>5, <2>6 DEF CollectedSoFar
<1>8. ASSUME ~trailing PROVE CollectedSoFar'
  <2> DEFINE more == Append(s.headers, h)
  <2>1. /\ more \in Seq(SentHeader) /\ more # <<>>
        /\ LastOf(more) = h /\ SubSeq(more, 1, Len(more) - 1) = s.headers
    <3>1. more \in Seq(SentHeader) /\ more # <<>>
      BY <1>3, <1>6, OneMore
    <3>2. LastOf(more) = h /\ SubSeq(more, 1, Len(more) - 1) = s.headers
      <4> HIDE DEF h, s
      <4> QED  BY <1>3, <1>6, AppendIsLast
    <3> QED  BY <3>1, <3>2
  <2>2. sent'[This] = [s EXCEPT !.headers = more]
    BY <1>3, <1>5, <1>8
  <2>3. \A j \in 1..This : j # This => sent'[j] = sent[j]
    BY <1>1, <1>3, SentIsOfThis
  <2>4. Distinct(more) => Distinct(s.headers)
    <3> HIDE DEF h, s
    <3> QED  BY <1>3, <1>6, DistinctBefore
  <2> HIDE DEF h, more
  <2>5. /\ sent'[This].headers = more /\ sent'[This].line = s.line
        /\ sent'[This].trailers = s.trailers
    BY <1>3, <2>2 DEF SentMessage
  <2>6. Plain(This)' => Plain(This)
    BY <1>4, <2>3, <2>4, <2>5 DEF Plain
  <2>7. buffer' \o rest' = Text(name)
    BY <1>1, <1>2, <1>4, <1>5, <1>8, TextIsContent, InBuffer DEF HeadersSoFar
  <2>8. LineSoFar' /\ BodySoFar'
    BY <1>1, <1>2, <1>4, <1>8, <2>5 DEF LineSoFar, BodySoFar
  <2>9. HeadersSoFar'
    BY <1>1, <1>2, <1>4, <1>6, <1>8, <2>1, <2>5, <2>7 DEF HeadersSoFar, InHeader, h
  <2>10. BuffersBetween'
    BY <1>1, <1>2, <1>4, <2>6 DEF BuffersBetween
  <2>11. Complete' = Complete
    BY <1>1, <1>4, <2>1, <2>5 DEF Complete, InHeader
  <2>12. Plain(This)' => ValuesSoFar'
    BY <1>1, <1>2, <1>4, <2>6, <2>11 DEF ValuesSoFar
  <2> QED  BY <2>8, <2>9, <2>10, <2>12 DEF CollectedSoFar
<1> QED  BY <1>7, <1>8

\* A name is complete: its value comes next.
LEMMA FieldCollects ==
  ASSUME InductiveInv, FieldComplete
  PROVE  CollectedSoFar'
<1>1. TypeOK /\ at = "field" /\ rest = <<>> /\ This > 0 /\ buffer \in Content
  BY DEF InductiveInv, TypeOK, FieldComplete, This
<1>2. /\ BuffersBetween /\ LineSoFar /\ BodySoFar /\ HeadersSoFar
      /\ Plain(This) => ValuesSoFar
  BY <1>1 DEF InductiveInv, CollectedSoFar
<1>3. /\ at' = "value" /\ UNCHANGED <<trailing, buffer, buffer1, messages, sent>>
      /\ This' = This
  BY DEF FieldComplete, This
<1>4. /\ sent[This].headers \in Seq(SentHeader) /\ This \in Nat
      /\ ~trailing => sent[This].headers # <<>>
  BY <1>1, <1>2, CollectedTypes DEF HeadersSoFar, InHeader
<1>5. Plain(This) => ~trailing
  BY <1>1, <1>2, <1>4 DEF Plain, HeadersSoFar, InHeader
<1>6. ~trailing => rest' = Text(LastOf(sent[This].headers).value) /\ rest' \in Content
  <2> SUFFICES ASSUME ~trailing
               PROVE  rest' = Text(LastOf(sent[This].headers).value) /\ rest' \in Content
    OBVIOUS
  <2>1. rest' = Text(LastOf(sent[This].headers).value)
    BY DEF FieldComplete, LastOf
  <2>2. LastOf(sent[This].headers) \in SentHeader
    BY <1>4, EmptySeq DEF LastOf
  <2> QED  BY <2>1, <2>2, TextIsContent DEF SentHeader
<1>7. Plain(This)' = Plain(This) /\ Complete' = Complete
  BY <1>1, <1>3 DEF Plain, Complete, InHeader
<1>8. ~trailing => buffer = Text(LastOf(sent[This].headers).name)
  BY <1>1, <1>2, InBuffer DEF HeadersSoFar
<1>9. BuffersBetween' /\ LineSoFar' /\ BodySoFar'
  BY <1>1, <1>2, <1>3, <1>7 DEF BuffersBetween, LineSoFar, BodySoFar
<1>10. HeadersSoFar'
  BY <1>1, <1>2, <1>3, <1>8 DEF HeadersSoFar, InHeader
<1>11. Plain(This)' => ValuesSoFar'
  <2> SUFFICES ASSUME Plain(This) PROVE ValuesSoFar'
    BY <1>7
  <2>1. buffer1' = <<>> /\ messages[This].headers = AsMap(Complete)
    BY <1>1, <1>2, <1>3 DEF BuffersBetween, ValuesSoFar
  <2>2. buffer1' \o rest' = rest'
    BY <1>5, <1>6, <2>1, InBuffer
  <2> QED  BY <1>3, <1>5, <1>6, <1>7, <2>1, <2>2 DEF ValuesSoFar
<1> QED  BY <1>9, <1>10, <1>11 DEF CollectedSoFar

\* A header is complete: it goes into the map.
LEMMA ValueCollects ==
  ASSUME InductiveInv, ValueComplete
  PROVE  CollectedSoFar'
<1>1. TypeOK /\ at = "value" /\ rest = <<>> /\ This > 0 /\ buffer1 \in Content
  BY DEF InductiveInv, TypeOK, ValueComplete, This
<1>2. /\ BuffersBetween /\ LineSoFar /\ BodySoFar /\ HeadersSoFar
      /\ Plain(This) => ValuesSoFar
  BY <1>1 DEF InductiveInv, CollectedSoFar
<1> DEFINE hs == sent[This].headers
           headers == HeaderSet(messages[This].headers, buffer, buffer1)
<1>3. /\ messages' = [messages EXCEPT ![This].headers = headers]
      /\ messages[This] \in Message /\ messages \in Seq(Message)
      /\ This \in DOMAIN messages /\ This \in Nat /\ Len(messages) = This
      /\ hs \in Seq(SentHeader)
  BY <1>1, CollectedTypes DEF ValueComplete
<1>4. /\ This' = This
      /\ messages'[This] = [messages[This] EXCEPT !.headers = headers]
  BY <1>3 DEF This
<1>5. /\ messages'[This].line = messages[This].line
      /\ messages'[This].headers = headers
      /\ messages'[This].body = messages[This].body
  <2> HIDE DEF headers
  <2> QED  BY <1>3, <1>4 DEF Message
<1>6. /\ at' = "headers" /\ buffer' = <<>> /\ UNCHANGED <<sent, trailing>>
      /\ buffer1' = HeaderLeft(messages[This].headers, buffer)
  BY DEF ValueComplete, Cleared
<1>7. Plain(This)' = Plain(This)
  BY <1>4, <1>6 DEF Plain
<1>8. ASSUME Plain(This)
      PROVE  headers = AsMap(hs) /\ buffer1' = <<>>
  <2>1. hs # <<>> /\ Distinct(hs) /\ ~trailing
    BY <1>1, <1>2, <1>3, <1>8 DEF Plain, HeadersSoFar, InHeader
  <2>2. /\ buffer1 = Text(LastOf(hs).value)
        /\ messages[This].headers = AsMap(SubSeq(hs, 1, Len(hs) - 1))
    BY <1>1, <1>2, <1>8, InBuffer DEF ValuesSoFar, Complete, InHeader
  <2>3. buffer = Text(LastOf(hs).name)
    BY <1>1, <1>2, <2>1 DEF HeadersSoFar
  <2> DEFINE some == SubSeq(hs, 1, Len(hs) - 1)
  <2>4. /\ HeaderSet(AsMap(some), buffer, buffer1) = AsMap(hs)
        /\ HeaderLeft(AsMap(some), buffer) = <<>>
    <3> HIDE DEF hs
    <3> QED  BY <1>3, <2>1, <2>2, <2>3, OneMoreInMap
  <2> QED  BY <1>6, <2>2, <2>4
<1> HIDE DEF headers
<1>9. trailing => sent[This].trailers # <<>>
  BY <1>1, <1>2 DEF HeadersSoFar, InHeader
<1>10. LineSoFar' /\ BodySoFar' /\ HeadersSoFar'
  BY <1>1, <1>2, <1>4, <1>5, <1>6, <1>9 DEF LineSoFar, BodySoFar, HeadersSoFar, InHeader
<1>11. BuffersBetween'
  BY <1>6, <1>4, <1>7, <1>8 DEF BuffersBetween
<1>12. Plain(This)' => ValuesSoFar'
  <2>1. Complete' = hs
    BY <1>4, <1>6 DEF Complete, InHeader
  <2> QED  BY <1>4, <1>5, <1>6, <1>7, <1>8, <2>1 DEF ValuesSoFar
<1> QED  BY <1>10, <1>11, <1>12 DEF CollectedSoFar

\* The headers are complete: the body comes next, and after its last chunk trailers.
LEMMA BodyCollects ==
  ASSUME InductiveInv, HeadersComplete
  PROVE  CollectedSoFar'
<1>1. TypeOK /\ at = "headers" /\ ~trailing /\ This > 0 /\ buffer \in Content
  BY DEF InductiveInv, TypeOK, HeadersComplete, This
<1>2. /\ BuffersBetween /\ LineSoFar /\ BodySoFar /\ HeadersSoFar
      /\ Plain(This) => ValuesSoFar
  BY <1>1 DEF InductiveInv, CollectedSoFar
<1>3. PICK body \in Body : rest' = Text(body) /\ sent' = [sent EXCEPT ![This].body = body]
  BY DEF HeadersComplete
<1>4. /\ sent[This] \in SentMessage /\ This \in DOMAIN sent /\ This \in Nat
      /\ sent \in Seq(SentMessage)
  BY <1>1, CollectedTypes
<1>5. sent'[This] = [sent[This] EXCEPT !.body = body]
  BY <1>3, <1>4
<1>6. /\ sent'[This].body = body
      /\ sent'[This].line = sent[This].line
      /\ sent'[This].headers = sent[This].headers
      /\ sent'[This].trailers = sent[This].trailers
  BY <1>4, <1>5 DEF SentMessage
<1>7. /\ at' = "body" /\ UNCHANGED <<trailing, buffer, buffer1, messages>>
      /\ This' = This
  BY DEF HeadersComplete, This
<1>8. Plain(This)' = Plain(This) /\ Complete' = Complete
  <2>1. \A j \in 1..This : j # This => sent'[j] = sent[j]
    BY <1>1, SentIsOfThis
  <2>2. \A j \in 1..This : /\ sent'[j].trailers = sent[j].trailers
                           /\ sent'[j].headers = sent[j].headers
    BY <1>6, <2>1
  <2> QED  BY <1>1, <1>6, <1>7, <2>2 DEF Plain, Complete, InHeader
<1>9. buffer' \o rest' = Text(body)
  BY <1>1, <1>2, <1>3, <1>7, TextIsContent, InBuffer DEF HeadersSoFar
<1>10. BuffersBetween' /\ LineSoFar' /\ BodySoFar' /\ HeadersSoFar'
  BY <1>1, <1>2, <1>6, <1>7, <1>8, <1>9
  DEF BuffersBetween, LineSoFar, BodySoFar, HeadersSoFar, InHeader
<1>11. Plain(This)' => ValuesSoFar'
  BY <1>1, <1>2, <1>7, <1>8 DEF ValuesSoFar
<1> QED  BY <1>10, <1>11 DEF CollectedSoFar

LEMMA TrailersCollect ==
  ASSUME InductiveInv, LastChunk
  PROVE  CollectedSoFar'
<1>1. TypeOK /\ at = "body" /\ rest = <<>> /\ This > 0 /\ buffer \in Content
  BY DEF InductiveInv, TypeOK, LastChunk, This
<1>2. /\ BuffersBetween /\ LineSoFar /\ BodySoFar /\ HeadersSoFar
      /\ Plain(This) => ValuesSoFar
  BY <1>1 DEF InductiveInv, CollectedSoFar
<1>3. /\ at' = "headers" /\ trailing' = TRUE
      /\ UNCHANGED <<buffer, buffer1, messages, sent>> /\ This' = This
  BY DEF LastChunk, This
<1>4. buffer = Text(sent[This].body)
  BY <1>1, <1>2, InBuffer DEF BodySoFar
<1>5. Plain(This)' = Plain(This) /\ Complete' = Complete
  BY <1>1, <1>3 DEF Plain, Complete, InHeader
<1>6. BuffersBetween' /\ LineSoFar' /\ BodySoFar' /\ HeadersSoFar'
  BY <1>1, <1>2, <1>3, <1>4, <1>5
  DEF BuffersBetween, LineSoFar, BodySoFar, HeadersSoFar, InHeader
<1>7. Plain(This)' => ValuesSoFar'
  BY <1>1, <1>2, <1>3, <1>5 DEF ValuesSoFar
<1> QED  BY <1>6, <1>7 DEF CollectedSoFar

\* The message is complete: it is as it was sent, and nothing of it is left.
LEMMA MessageCollects ==
  ASSUME InductiveInv, MessageComplete
  PROVE  /\ CollectedSoFar'
         /\ \A k \in Nat : k = This => AsSent(k)'
<1>1. /\ TypeOK /\ at # "idle" /\ This > 0 /\ buffer \in Content
      /\ \/ at = "body" /\ rest = <<>>
         \/ at = "headers" /\ trailing
  BY DEF InductiveInv, TypeOK, MessageComplete, This
<1>2. /\ BuffersBetween /\ LineSoFar /\ BodySoFar /\ HeadersSoFar
      /\ Plain(This) => ValuesSoFar
  BY <1>1 DEF InductiveInv, CollectedSoFar
<1>3. /\ messages' = [messages EXCEPT ![This].body = buffer]
      /\ messages[This] \in Message /\ messages \in Seq(Message)
      /\ This \in DOMAIN messages /\ This \in Nat /\ Len(messages) = This
  BY <1>1, CollectedTypes DEF MessageComplete
<1>4. /\ This' = This
      /\ messages'[This] = [messages[This] EXCEPT !.body = buffer]
  BY <1>3 DEF This
<1>5. /\ messages'[This].line = messages[This].line
      /\ messages'[This].headers = messages[This].headers
      /\ messages'[This].body = buffer
  BY <1>3, <1>4 DEF Message
<1>6. /\ at' = "idle" /\ trailing' = FALSE /\ UNCHANGED <<buffer1, sent>>
      /\ buffer' = <<>>
  BY <1>1, <1>2 DEF MessageComplete, BodySoFar
<1>7. Plain(This)' = Plain(This) /\ Complete' = Complete /\ Complete = sent[This].headers
  BY <1>1, <1>4, <1>6 DEF Plain, Complete, InHeader
<1>8. LineSoFar' /\ BodySoFar' /\ HeadersSoFar' /\ BuffersBetween'
  BY <1>1, <1>2, <1>4, <1>5, <1>6, <1>7
  DEF BuffersBetween, LineSoFar, BodySoFar, HeadersSoFar, InHeader
<1>9. Plain(This)' => ValuesSoFar'
  BY <1>1, <1>2, <1>4, <1>5, <1>6, <1>7 DEF ValuesSoFar
<1>10. sent[This].trailers = <<>> => buffer = Text(sent[This].body)
  BY <1>1, <1>2, InBuffer DEF BodySoFar
<1>11. ASSUME NEW k \in Nat, k = This PROVE AsSent(k)'
  <2>1. Plain(k)' = Plain(This)
    BY <1>6, <1>11 DEF Plain
  <2>2. messages[This].line = Text(sent[This].line)
    BY <1>1, <1>2 DEF LineSoFar
  <2>3. Plain(This) => messages[This].headers = AsMap(sent[This].headers)
    BY <1>2, <1>7 DEF ValuesSoFar
  <2> QED  BY <1>5, <1>6, <1>10, <1>11, <2>1, <2>2, <2>3 DEF AsSent
<1> QED  BY <1>8, <1>9, <1>11 DEF CollectedSoFar

LEMMA InitCollects ==
  Init => CollectedSoFar /\ DeliveredAsSent
<1> SUFFICES ASSUME Init PROVE CollectedSoFar /\ DeliveredAsSent  OBVIOUS
<1>1. This = 0 /\ Delivered = {}  BY DEF Init, This, Delivered
<1>2. BuffersBetween  BY DEF Init, BuffersBetween
<1> QED  BY <1>1, <1>2 DEF CollectedSoFar, DeliveredAsSent

\* The inductive invariant: what was collected so far, beside what was delivered.
THEOREM ParserInvariant == Spec => []InductiveInv
<1>1. Init => InductiveInv
  BY InitTypes, InitCollects DEF InductiveInv
<1>2. ASSUME InductiveInv, TypeOK', Next PROVE InductiveInv'
  <2>1. CollectedSoFar'
    BY <1>2, BeginCollects, FragmentCollects, LineCollects, HeaderCollects, FieldCollects,
       ValueCollects, BodyCollects, TrailersCollect, MessageCollects DEF Next
  <2>2. \A k \in Nat : MessageComplete /\ k = This => AsSent(k)'
    BY <1>2, MessageCollects
  <2>3. DeliveredAsSent'
    BY <1>2, <2>2, DeliveredInv DEF InductiveInv
  <2> QED  BY <1>2, <2>1, <2>3 DEF InductiveInv
<1>3. ASSUME InductiveInv, UNCHANGED vars PROVE InductiveInv'
  <2>1. CollectedSoFar'
    BY <1>3
    DEF InductiveInv, vars, CollectedSoFar, BuffersBetween, LineSoFar, BodySoFar,
        HeadersSoFar, ValuesSoFar, Complete, InHeader, Plain, This
  <2>2. DeliveredAsSent'
    BY <1>3 DEF InductiveInv, vars, DeliveredAsSent, Delivered, AsSent, Plain, This
  <2>3. TypeOK'
    BY <1>3 DEF InductiveInv, vars, TypeOK, This
  <2> QED  BY <2>1, <2>2, <2>3 DEF InductiveInv
<1>4. InductiveInv /\ TypeOK' /\ [Next]_vars => InductiveInv'
  BY <1>2, <1>3
<1> QED  BY <1>1, <1>4, ParserTypes, PTL DEF Spec

\* However the bytes are cut, a message is delivered as it was sent: its first line,
\* its body unless trailers follow, its headers until a name is repeated or
\* trailers came; for any texts, headers and messages.
THEOREM DeliveredWhole == Spec => []DeliveredAsSent
<1>1. InductiveInv => DeliveredAsSent  BY DEF InductiveInv
<1> QED  BY <1>1, ParserInvariant, PTL

-----------------------------------------------------------------------------
(* The server, of which the parser above is a part. *)

\* The other tasks are those that were queued, when some of write() are added.
LEMMA MoreQueued ==
  ASSUME NEW more \in Seq({"wc"}), ServerTypeOK, tasks' = tasks \o more
  PROVE  /\ tasks' \in Seq({"connect", "wc", "destroy"}) /\ left \in 0..Len(tasks')
         /\ \A t \in {"connect", "destroy"} : Queued(t)' = Queued(t)
<1>1. /\ tasks \in Seq({"connect", "wc", "destroy"}) /\ left \in 0..Len(tasks)
      /\ more \in Seq({"connect", "wc", "destroy"})
  BY DEF ServerTypeOK
<1>2. /\ tasks' \in Seq({"connect", "wc", "destroy"})
      /\ Len(tasks') = Len(tasks) + Len(more)
      /\ \A i \in 1..(Len(tasks) + Len(more)) :
           tasks'[i] = IF i <= Len(tasks) THEN tasks[i] ELSE more[i - Len(tasks)]
  BY <1>1, ConcatProperties
<1>3. \A i \in DOMAIN more : more[i] = "wc"
  OBVIOUS
<1>4. \A i \in DOMAIN tasks' : i \notin DOMAIN tasks => tasks'[i] = "wc"
  BY <1>1, <1>2, <1>3
<1>5. \A i \in DOMAIN tasks : i \in DOMAIN tasks' /\ tasks'[i] = tasks[i]
  BY <1>1, <1>2
<1> QED  BY <1>1, <1>2, <1>4, <1>5 DEF Queued

\* The next task runs, which adds none but those of write().
LEMMA NextTask ==
  ASSUME NEW more \in Seq({"wc"}), NEW task, ServerTypeOK, Run(task, more)
  PROVE  /\ tasks' \in Seq({"connect", "wc", "destroy"}) /\ left' \in 0..Len(tasks')
         /\ 1 \in Queued(task)
         /\ \A t \in {"connect", "destroy"} :
              \A i \in Queued(t)' : i + 1 \in Queued(t) /\ i + 1 # 1
<1>1. /\ tasks \in Seq({"connect", "wc", "destroy"}) /\ left \in 1..Len(tasks)
      /\ more \in Seq({"connect", "wc", "destroy"})
      /\ Head(tasks) = task /\ tasks' = Tail(tasks) \o more /\ left' = left - 1
  BY DEF ServerTypeOK, Run, AtTask
<1>2. /\ Tail(tasks) \in Seq({"connect", "wc", "destroy"})
      /\ Len(Tail(tasks)) = Len(tasks) - 1 /\ Len(tasks) \in Nat \ {0}
      /\ \A i \in 1..(Len(tasks) - 1) : Tail(tasks)[i] = tasks[i + 1]
      /\ tasks[1] = task
  BY <1>1
<1>3. /\ tasks' \in Seq({"connect", "wc", "destroy"})
      /\ Len(tasks') = Len(tasks) - 1 + Len(more)
      /\ \A i \in 1..(Len(tasks) - 1 + Len(more)) :
           tasks'[i] = IF i <= Len(tasks) - 1 THEN Tail(tasks)[i]
                       ELSE more[i - (Len(tasks) - 1)]
  BY <1>1, <1>2, ConcatProperties
<1>4. \A i \in DOMAIN more : more[i] = "wc"
  OBVIOUS
<1>5. \A i \in DOMAIN tasks' :
        tasks'[i] = "wc" \/ (i + 1 \in DOMAIN tasks /\ tasks'[i] = tasks[i + 1] /\ i \in Nat \ {0})
  BY <1>1, <1>2, <1>3, <1>4
<1>6. left' \in 0..Len(tasks')
  BY <1>1, <1>2, <1>3, LenProperties
<1> QED  BY <1>1, <1>2, <1>3, <1>5, <1>6 DEF Queued

\* write() adds a task for each piece it takes.
LEMMA TasksOfWrite ==
  /\ \A n \in Nat : WriteCompletes(n) \in Seq({"wc"})
  /\ <<>> \in Seq({"wc"})
<1>1. ASSUME NEW n \in Nat PROVE WriteCompletes(n) \in Seq({"wc"})
  BY DEF WriteCompletes, Tasks
<1> QED  BY <1>1

LEMMA TakenPieces ==
  ASSUME NEW n \in Nat, NEW k \in Taken(n)
  PROVE  k \in Nat
BY DEF Taken

\* The files of an answer, as they are opened: nothing of them is sent.
LEMMA Opened ==
  ASSUME NEW file \in RegularFiles \cup {Directory, NoFile}
  PROVE  file \in FileState /\ Unsent(file) /\ file.good
<1>1. ASSUME NEW kind \in {"none", "regular", "directory"},
             NEW blocks \in Seq({"full", "part"}),
             \A i \in DOMAIN blocks : i < Len(blocks) => blocks[i] = "full",
             file = File(kind, blocks)
      PROVE  file \in FileState /\ Unsent(file) /\ file.good
  BY <1>1 DEF File, FileState, Unsent
<1>2. CASE file = Directory \/ file = NoFile
  <2>1. /\ <<>> \in Seq({"full", "part"})
        /\ \A i \in DOMAIN <<>> : i < Len(<<>>) => <<>>[i] = "full"
    OBVIOUS
  <2> QED  BY <1>1, <1>2, <2>1 DEF Directory, NoFile
<1>3. CASE file \in RegularFiles
  <2>1. PICK full \in 0..MaxBlocks, tail \in {<<>>, <<"part">>} :
          file = File("regular", [i \in 1..full |-> "full"] \o tail)
    BY <1>3 DEF RegularFiles
  <2> DEFINE whole == [i \in 1..full |-> "full"]
  <2>2. full \in Nat
    OBVIOUS
  <2>3. /\ whole \in Seq({"full", "part"}) /\ Len(whole) = full
        /\ \A i \in 1..full : whole[i] = "full"
    BY <2>2
  <2>4. tail \in Seq({"full", "part"}) /\ Len(tail) \in {0, 1}
    <3>1. <<>> \in Seq({"full", "part"}) /\ Len(<<>>) = 0
      OBVIOUS
    <3>2. <<"part">> \in Seq({"full", "part"}) /\ Len(<<"part">>) = 1
      OBVIOUS
    <3> QED  BY <3>1, <3>2
  <2> HIDE DEF whole
  <2>5. /\ whole \o tail \in Seq({"full", "part"})
        /\ Len(whole \o tail) = full + Len(tail)
        /\ \A i \in 1..(full + Len(tail)) :
             (whole \o tail)[i] = IF i <= full THEN whole[i] ELSE tail[i - full]
    BY <2>3, <2>4, ConcatProperties
  <2>6. \A i \in DOMAIN (whole \o tail) :
          i < Len(whole \o tail) => (whole \o tail)[i] = "full"
    BY <2>2, <2>3, <2>4, <2>5
  <2>7. file = File("regular", whole \o tail)
    BY <2>1 DEF whole
  <2> QED  BY <1>1, <2>5, <2>6, <2>7
<1> QED  BY <1>2, <1>3

\* A block is read: what is left of the file ends as it did.
LEMMA BlockRead ==
  ASSUME NEW file \in FileState
  PROVE  /\ AfterRead(file) \in FileState
         /\ AfterSend(file) \in FileState
         /\ Unsent(file) /\ file.good /\ file.blocks = <<>>
              => Unsent(AfterRead(file))
         /\ Unsent(file) /\ file.good /\ file.blocks # <<>>
              => Unsent(AfterSend(file))
<1> DEFINE some == file.blocks # <<>>
           good == some /\ Head(file.blocks) = "full"
           blocks == IF some THEN Tail(file.blocks) ELSE file.blocks
<1>1. file.blocks \in Seq({"full", "part"}) /\ file.sent \in Nat /\ file.size \in Nat
  BY DEF FileState
<1>2. AfterRead(file) = [file EXCEPT !.good = good, !.blocks = blocks]
  BY DEF AfterRead
<1>3. blocks \in Seq({"full", "part"}) /\ good \in BOOLEAN
  BY <1>1
<1>4. some => /\ Len(file.blocks) \in Nat \ {0} /\ Len(blocks) = Len(file.blocks) - 1
              /\ \A i \in DOMAIN blocks : i \in Nat /\ blocks[i] = file.blocks[i + 1]
                                          /\ i + 1 \in DOMAIN file.blocks
              /\ Head(file.blocks) = file.blocks[1] /\ 1 \in DOMAIN file.blocks
  BY <1>1, EmptySeq
<1>5. ~some => blocks = file.blocks /\ ~good
  OBVIOUS
<1>6. some /\ Unsent(file)
        => /\ good \/ blocks = <<>>
           /\ \A i \in DOMAIN blocks : i < Len(blocks) => blocks[i] = "full"
           /\ file.sent + 1 + Len(blocks) = file.size
  <2> SUFFICES ASSUME some, Unsent(file)
               PROVE  /\ good \/ blocks = <<>>
                      /\ \A i \in DOMAIN blocks : i < Len(blocks) => blocks[i] = "full"
                      /\ file.sent + 1 + Len(blocks) = file.size
    OBVIOUS
  <2>1. \A i \in DOMAIN file.blocks : i < Len(file.blocks) => file.blocks[i] = "full"
    BY DEF Unsent
  <2>2. Len(file.blocks) = 1 \/ good
    <3>1. 1 < Len(file.blocks) => file.blocks[1] = "full"
      BY <1>4, <2>1
    <3>2. Len(file.blocks) # 1 => 1 < Len(file.blocks)
      <4>1. \A n \in Nat \ {0} : n # 1 => 1 < n
        OBVIOUS
      <4>2. Len(file.blocks) \in Nat \ {0}
        BY <1>4
      <4> HIDE DEF some, good, blocks
      <4> QED  BY <4>1, <4>2
    <3> QED  BY <1>4, <3>1, <3>2
  <2>3. good \/ blocks = <<>>
    BY <1>3, <1>4, <2>2, EmptySeq
  <2>4. \A i \in DOMAIN blocks : i < Len(blocks) => blocks[i] = "full"
    BY <1>3, <1>4, <2>1
  <2>5. file.sent + 1 + Len(blocks) = file.size
    <3>1. file.sent + Len(file.blocks) = file.size
      BY DEF Unsent
    <3>2. Len(blocks) = Len(file.blocks) - 1 /\ Len(file.blocks) \in Nat
      BY <1>4
    <3> HIDE DEF blocks
    <3> QED  BY <1>1, <3>1, <3>2
  <2> QED  BY <2>3, <2>4, <2>5
<1>7. some <=> file.blocks # <<>>
  OBVIOUS
<1> HIDE DEF some, good, blocks
<1>8. /\ AfterRead(file) \in FileState
      /\ AfterSend(file) \in FileState
  <2>1. AfterRead(file) \in FileState
    BY <1>2, <1>3 DEF FileState
  <2>2. AfterRead(file).sent + 1 \in Nat
    BY <2>1 DEF FileState
  <2> QED  BY <2>1, <2>2 DEF FileState, AfterSend
<1>9. /\ AfterRead(file).blocks = blocks /\ AfterRead(file).good = good
      /\ AfterRead(file).sent = file.sent /\ AfterRead(file).size = file.size
  BY <1>2 DEF FileState
<1>10. LET after == AfterSend(file)
       IN /\ after.blocks = blocks /\ after.good = good
          /\ after.sent = file.sent + 1 /\ after.size = file.size
  BY <1>1, <1>2, <1>9 DEF FileState, AfterSend
<1>11. ASSUME Unsent(file), file.blocks = <<>>
       PROVE  Unsent(AfterRead(file))
  BY <1>5, <1>7, <1>9, <1>11 DEF Unsent
<1>12. ASSUME Unsent(file), file.blocks # <<>>
       PROVE  Unsent(AfterSend(file))
  BY <1>6, <1>7, <1>10, <1>12 DEF Unsent
<1> QED  BY <1>8, <1>11, <1>12

-----------------------------------------------------------------------------
(* One lemma per kind of step: types, tasks and files. *)

LEMMA ServerBegins ==
  ServerInit => ServerInv
<1> SUFFICES ASSUME ServerInit PROVE ServerInv
  OBVIOUS
<1> USE DEF ServerInit
<1>1. /\ tasks \in Seq({"connect", "wc", "destroy"}) /\ Len(tasks) = 1
      /\ files \in Seq(FileState) /\ Len(files) = 0
  OBVIOUS
<1>2. ServerTypeOK
  <2>1. left \in 0..Len(tasks) /\ wcCb \in 0..Len(files)
    BY <1>1
  <2> QED  BY <1>1, <2>1 DEF ServerTypeOK
<1>3. Queued("destroy") = {}
  BY DEF Queued
<1>4. TasksInOrder
  BY <1>3 DEF TasksInOrder
<1>5. FilesInOrder /\ WholeFile
  BY DEF FilesInOrder, WholeFile
<1> QED  BY <1>2, <1>4, <1>5 DEF ServerInv

\* Steps that leave the files, the callback and the sending side alone.
LEMMA FilesAlone ==
  ASSUME FilesInOrder, WholeFile,
         UNCHANGED <<files, wcCb, shut>>,
         peer' # "reset" => peer # "reset", overlapped' = overlapped,
         state' # "disconnected" => state # "disconnected"
  PROVE  FilesInOrder' /\ WholeFile'
BY DEF FilesInOrder, WholeFile

\* The loop goes on or waits in a write(), the map lets go of the connection, the
\* peer ends.
LEMMA AroundInv ==
  ASSUME ServerInv,
         StartBatch \/ EndBatch \/ Erase \/ PeerEnds \/ WriteBlocks
  PROVE  ServerInv'
<1> USE DEF ServerInv
<1>1. ServerTypeOK /\ TasksInOrder
  OBVIOUS
<1>2. /\ UNCHANGED <<tasks, state, connected, userData, msgCb, wcCb, files, shut, overlapped>>
      /\ peer' # "reset" => peer # "reset"
      /\ peer' \in {"open", "finished", "reset"} /\ inMap' \in BOOLEAN
      /\ stuck' \in BOOLEAN
      /\ phase' \in {"poll", "read", "tasks"} /\ left' \in 0..Len(tasks)
  <2>1. Len(tasks) \in Nat /\ left \in 0..Len(tasks)
    BY DEF ServerTypeOK
  <2>2. left' \in {left, Len(tasks)}
    BY DEF StartBatch, EndBatch, Erase, PeerEnds, WriteBlocks, loop
  <2>3. left' \in 0..Len(tasks)
    BY <2>1, <2>2
  <2>4. /\ UNCHANGED <<tasks, state, connected, userData, msgCb, wcCb, files, shut, overlapped>>
        /\ peer' # "reset" => peer # "reset"
        /\ UNCHANGED peer \/ peer' \in {"finished", "reset"}
        /\ UNCHANGED inMap \/ inMap' = FALSE
        /\ UNCHANGED phase \/ phase' \in {"poll", "read", "tasks"}
        /\ UNCHANGED stuck \/ stuck' = TRUE
    BY DEF StartBatch, EndBatch, Erase, PeerEnds, WriteBlocks,
           context, loop
  <2>5. /\ peer' \in {"open", "finished", "reset"}
        /\ phase' \in {"poll", "read", "tasks"}
    BY <2>4 DEF ServerTypeOK
  <2>6. inMap' \in BOOLEAN /\ stuck' \in BOOLEAN
    BY <2>4 DEF ServerTypeOK
  <2> QED  BY <2>3, <2>4, <2>5, <2>6
<1> HIDE DEF ServerInv
<1>3. ServerTypeOK'
  BY <1>1, <1>2 DEF ServerTypeOK
<1>4. TasksInOrder'
  BY <1>1, <1>2 DEF TasksInOrder, Queued
<1> QED  BY <1>2, <1>3, <1>4, FilesAlone DEF ServerInv

\* The connection is established.
LEMMA ConnectInv ==
  ASSUME ServerInv, Connect
  PROVE  ServerInv'
<1>1. ServerTypeOK /\ TasksInOrder /\ Run("connect", <<>>)
  BY DEF ServerInv, Connect
<1>2. /\ tasks' \in Seq({"connect", "wc", "destroy"}) /\ left' \in 0..Len(tasks')
      /\ 1 \in Queued("connect")
      /\ \A t \in {"connect", "destroy"} :
           \A i \in Queued(t)' : i + 1 \in Queued(t) /\ i + 1 # 1
  BY <1>1, TasksOfWrite, NextTask
<1>3. state = "connecting" /\ connected /\ tasks = <<"connect">>
  BY <1>1, <1>2 DEF TasksInOrder
<1>4. \A t \in {"connect", "destroy"} : Queued(t)' = {}
  BY <1>2, <1>3 DEF Queued
<1>5. ServerTypeOK'
  BY <1>1, <1>2 DEF ServerTypeOK, Connect, Run
<1>6. TasksInOrder'
  BY <1>3, <1>4 DEF TasksInOrder, Connect
<1> QED
  BY <1>3, <1>5, <1>6, FilesAlone DEF ServerInv, Connect

\* The connection is closed, and the task that destroys it is queued.
LEMMA HandleCloseInv ==
  ASSUME ServerInv, HandleClose
  PROVE  ServerInv'
<1>1. /\ ServerTypeOK /\ TasksInOrder /\ state = "established"
      /\ tasks \in Seq({"connect", "wc", "destroy"}) /\ tasks' = Append(tasks, "destroy")
  BY DEF ServerInv, HandleClose, ServerTypeOK
<1>2. /\ tasks' \in Seq({"connect", "wc", "destroy"}) /\ Len(tasks') = Len(tasks) + 1
      /\ Len(tasks) \in Nat
      /\ \A i \in DOMAIN tasks' : IF i = Len(tasks) + 1 THEN tasks'[i] = "destroy"
                                  ELSE i \in DOMAIN tasks /\ tasks'[i] = tasks[i]
  BY <1>1
<1>3. Queued("connect") = {} /\ Queued("destroy") = {} /\ userData = "ctx"
  BY <1>1 DEF TasksInOrder
<1>4. Queued("connect")' = {} /\ \A i \in Queued("destroy")' : i = Len(tasks) + 1
  BY <1>2, <1>3 DEF Queued
<1>5. ServerTypeOK'
  <2>1. left' \in 0..Len(tasks')
    BY <1>1, <1>2 DEF ServerTypeOK, HandleClose
  <2> QED
    BY <1>1, <1>2, <2>1
    DEF ServerTypeOK, HandleClose, ConnectionCallbacks, context
<1>6. TasksInOrder'
  BY <1>3, <1>4
  DEF TasksInOrder, HandleClose, ConnectionCallbacks, context
<1> QED
  BY <1>5, <1>6, FilesAlone
  DEF ServerInv, HandleClose, context

\* The connection is destroyed, which it is once.
LEMMA DestroyInv ==
  ASSUME ServerInv, Destroy
  PROVE  ServerInv'
<1>1. ServerTypeOK /\ TasksInOrder /\ Run("destroy", <<>>)
  BY DEF ServerInv, Destroy
<1>2. /\ tasks' \in Seq({"connect", "wc", "destroy"}) /\ left' \in 0..Len(tasks')
      /\ 1 \in Queued("destroy")
      /\ \A t \in {"connect", "destroy"} :
           \A i \in Queued(t)' : i + 1 \in Queued(t) /\ i + 1 # 1
  BY <1>1, TasksOfWrite, NextTask
<1>3. state = "disconnected" /\ Queued("connect") = {}
  BY <1>1, <1>2 DEF TasksInOrder
<1>4. Queued("connect")' = {} /\ Queued("destroy")' = {}
  BY <1>1, <1>2, <1>3 DEF TasksInOrder
<1>5. ServerTypeOK'
  <2>1. wcCb' \in 0..Len(files')
    BY <1>1 DEF ServerTypeOK, Destroy, WriteCompleteDropped
  <2> QED
    BY <1>1, <1>2, <2>1 DEF ServerTypeOK, Destroy, Run
<1>6. TasksInOrder'
  BY <1>1, <1>3, <1>4 DEF TasksInOrder, Destroy
<1>7. FilesInOrder' /\ WholeFile'
  BY <1>3
  DEF ServerInv, FilesInOrder, WholeFile, Destroy,
      WriteCompleteDropped
<1> QED
  BY <1>5, <1>6, <1>7 DEF ServerInv

\* The router knows the handlers a request is given to.
LEMMA HandlerKnown ==
  ASSUME NEW path \in Paths
  PROVE  Handler(path) \in {"ping", "static", "error"}
<1> DEFINE matching == {i \in DOMAIN Routes : Match(Routes[i], path)}
<1>1. /\ DOMAIN Routes = {1, 2}
      /\ Routes[1].handler = "ping" /\ Routes[2].handler = "static"
  BY DEF Routes
<1>2. matching \subseteq {1, 2}
  BY <1>1
<1>3. Handler(path)
        = IF matching = {} THEN "error"
          ELSE Routes[CHOOSE i \in matching : \A j \in matching : i <= j].handler
  BY DEF Handler
<1> HIDE DEF matching
<1>4. ASSUME matching # {}
      PROVE  \E i \in matching : \A j \in matching : i <= j
  <2>1. ASSUME 1 \in matching PROVE \A j \in matching : 1 <= j
    BY <1>2
  <2>2. ASSUME 1 \notin matching PROVE 2 \in matching /\ \A j \in matching : 2 <= j
    <3>1. matching = {2}
      BY <1>2, <1>4, <2>2
    <3> QED  BY <3>1
  <2> QED  BY <2>1, <2>2
<1>5. ASSUME matching # {}
      PROVE  (CHOOSE i \in matching : \A j \in matching : i <= j) \in {1, 2}
  BY <1>2, <1>4, <1>5
<1> QED  BY <1>1, <1>3, <1>5

\* What a request does, whatever its handler: some pieces are written, and its answer has
\* no file, or one that the callback is to send.
LEMMA Answered ==
  ASSUME NEW path \in Paths, Request(path)
  PROVE  /\ \E n \in Nat : tasks' = tasks \o WriteCompletes(n)
         /\ \/ /\ files' = Append(files, NoFile)
               /\ wcCb' = wcCb
               /\ shut' = shut \/ shut' = TRUE
            \/ /\ \E file \in RegularFiles \cup {Directory} :
                    files' = Append(files, file)
               /\ wcCb' = Len(files) + 1
               /\ shut' = shut
<1>1. Ping \/ SendError \/ SendFile
  BY HandlerKnown DEF Request
<1>2. \A n \in {1, HeaderWrites} : \A k \in Taken(n) : k \in Nat
  BY TakenPieces, HeaderAssumption
<1>3. \E n \in Nat : tasks' = tasks \o WriteCompletes(n)
  BY <1>1, <1>2 DEF Ping, SendError, SendFile
<1> QED  BY <1>1, <1>3 DEF Ping, SendError, SendFile

\* A request is answered.
LEMMA RequestInv ==
  ASSUME ServerInv,
         NEW path \in Paths, Request(path)
  PROVE  ServerInv'
<1>1. ServerTypeOK /\ TasksInOrder /\ FilesInOrder
  BY DEF ServerInv
<1>2. /\ state = "established" /\ phase' = "read"
      /\ overlapped' = (overlapped \/ wcCb # 0 \/ shut)
      /\ stuck' = FALSE
      /\ UNCHANGED <<left, state, connected, inMap, userData, msgCb, peer>>
  BY DEF Request, RequestComes
<1>3. PICK n \in Nat : tasks' = tasks \o WriteCompletes(n)
  BY Answered
<1>4. PICK file \in RegularFiles \cup {Directory, NoFile} :
        /\ files' = Append(files, file)
        /\ \/ file = NoFile /\ wcCb' = wcCb
           \/ wcCb' = Len(files) + 1
  BY Answered
<1>5. /\ tasks' \in Seq({"connect", "wc", "destroy"}) /\ left \in 0..Len(tasks')
      /\ \A t \in {"connect", "destroy"} : Queued(t)' = Queued(t)
  BY <1>1, <1>3, TasksOfWrite, MoreQueued DEF ServerTypeOK
<1>6. /\ file \in FileState /\ Unsent(file)
      /\ Len(files) \in Nat /\ wcCb \in 0..Len(files)
      /\ files' \in Seq(FileState) /\ Len(files') = Len(files) + 1
      /\ files'[Len(files) + 1] = file
      /\ \A k \in DOMAIN files : k \in DOMAIN files' /\ files'[k] = files[k]
      /\ \A k \in DOMAIN files' : k \in DOMAIN files \/ k = Len(files) + 1
      /\ DOMAIN files = 1..Len(files)
  BY <1>1, <1>4, Opened DEF ServerTypeOK
<1>7. ServerTypeOK'
  <2>1. left' \in 0..Len(tasks')
    BY <1>2, <1>5
  <2>2. wcCb' \in 0..Len(files')
    BY <1>4, <1>6
  <2>3. shut' \in BOOLEAN /\ overlapped' \in BOOLEAN
    BY <1>1, <1>2, Answered DEF ServerTypeOK
  <2> QED
    BY <1>1, <1>2, <1>5, <1>6, <2>1, <2>2, <2>3 DEF ServerTypeOK
<1>8. TasksInOrder'
  BY <1>1, <1>2, <1>5 DEF TasksInOrder
<1>9. FilesInOrder' /\ WholeFile'
  <2> SUFFICES ASSUME peer' # "reset", ~overlapped'
               PROVE  /\ shut' => wcCb' = 0
                      /\ \A k \in DOMAIN files' : k # wcCb' => files'[k].sent = files'[k].size
                      /\ wcCb' # 0 => Unsent(files'[wcCb'])
                      /\ shut' => \A k \in DOMAIN files' : files'[k].sent = files'[k].size
    BY DEF FilesInOrder, WholeFile, Unsent
  <2>1. /\ peer # "reset" /\ ~overlapped /\ wcCb = 0 /\ ~shut
        /\ \A k \in DOMAIN files : files[k].sent = files[k].size
    <3>1. peer # "reset" /\ ~overlapped /\ wcCb = 0 /\ ~shut
      BY <1>2
    <3>2. \A k \in DOMAIN files : k # 0
      BY <1>6
    <3> QED  BY <1>1, <1>2, <3>1, <3>2 DEF FilesInOrder
  <2>2. CASE file = NoFile /\ wcCb' = wcCb
    <3>1. file.sent = 0 /\ file.size = 0
      BY <2>2 DEF NoFile, File
    <3> QED  BY <1>6, <2>1, <2>2, <3>1
  <2>3. CASE wcCb' = Len(files) + 1
    <3>1. wcCb' # 0 /\ wcCb' # wcCb
      BY <1>6, <2>1, <2>3
    <3>2. ~shut'
      BY <2>1, <3>1, Answered
    <3> QED  BY <1>6, <2>1, <2>3, <3>1, <3>2
  <2> QED  BY <1>4, <2>2, <2>3
<1> QED  BY <1>7, <1>8, <1>9 DEF ServerInv

\* A block is sent, or nothing read, or the file is at its end.
LEMMA SendStep ==
  ASSUME ServerInv, WriteComplete
  PROVE  /\ \E more \in Seq({"wc"}) : Run("wc", more)
         /\ files' \in Seq(FileState) /\ wcCb' \in 0..Len(files') /\ shut' \in BOOLEAN
         /\ state = "established" => FilesInOrder' /\ WholeFile'
<1>1. ServerTypeOK /\ TasksInOrder /\ FilesInOrder
  BY DEF ServerInv
<1>2. /\ files \in Seq(FileState) /\ wcCb \in 0..Len(files) /\ Len(files) \in Nat
      /\ DOMAIN files = 1..Len(files) /\ shut \in BOOLEAN
  BY <1>1 DEF ServerTypeOK
<1>3. \E more \in Seq({"wc"}) : Run("wc", more)
  BY TasksOfWrite
  DEF WriteComplete, SendBlock, SendBuffered, SendNothing, SendEnd, Unread
<1>4. UNCHANGED <<state, peer, overlapped>>
  BY DEF WriteComplete
<1>5. ASSUME wcCb = 0
      PROVE  UNCHANGED <<wcCb, files, shut>>
  BY <1>5
  DEF WriteComplete, SendBlock, SendBuffered, SendNothing, SendEnd, Unread
<1>6. ASSUME wcCb # 0
      PROVE  wcCb \in DOMAIN files /\ files[wcCb] \in FileState
  BY <1>2, <1>6
<1>7. ASSUME NEW file \in FileState, wcCb # 0,
             files' = [files EXCEPT ![wcCb] = file]
      PROVE  /\ files' \in Seq(FileState) /\ DOMAIN files' = DOMAIN files
             /\ Len(files') = Len(files) /\ files'[wcCb] = file
             /\ \A k \in DOMAIN files : k # wcCb => files'[k] = files[k]
  BY <1>2, <1>6, <1>7
<1>8. ASSUME peer # "reset", ~overlapped, state = "established", wcCb # 0
      PROVE  /\ ~shut /\ Unsent(files[wcCb])
             /\ \A k \in DOMAIN files : k # wcCb => files[k].sent = files[k].size
  BY <1>1, <1>8 DEF FilesInOrder
<1>9. ASSUME NEW file \in FileState, wcCb # 0,
             files' = [files EXCEPT ![wcCb] = file], UNCHANGED <<wcCb, shut>>,
             Unsent(files[wcCb]) => Unsent(file)
      PROVE  /\ files' \in Seq(FileState) /\ wcCb' \in 0..Len(files')
             /\ shut' \in BOOLEAN
             /\ state = "established" => FilesInOrder' /\ WholeFile'
  <2>1. wcCb' \in 0..Len(files') /\ shut' \in BOOLEAN /\ files' \in Seq(FileState)
    BY <1>2, <1>7, <1>9
  <2>2. ASSUME peer # "reset", ~overlapped, state = "established"
        PROVE  /\ ~shut' /\ Unsent(files'[wcCb'])
               /\ \A k \in DOMAIN files' : k # wcCb' => files'[k].sent = files'[k].size
    BY <1>7, <1>8, <1>9, <2>2
  <2>3. ASSUME state = "established"
        PROVE  FilesInOrder' /\ WholeFile'
    BY <1>4, <2>2, <2>3 DEF FilesInOrder, WholeFile, Unsent
  <2> QED  BY <2>1, <2>3
<1>10. ASSUME SendBlock \/ SendBuffered
       PROVE  /\ files' \in Seq(FileState) /\ wcCb' \in 0..Len(files')
              /\ shut' \in BOOLEAN
              /\ state = "established" => FilesInOrder' /\ WholeFile'
  <2> DEFINE file == AfterSend(files[wcCb])
  <2>1. /\ wcCb # 0 /\ files[wcCb].good /\ files[wcCb].blocks # <<>>
        /\ files' = [files EXCEPT ![wcCb] = file] /\ UNCHANGED <<wcCb, shut>>
    BY <1>10 DEF SendBlock, SendBuffered, Unread
  <2>2. /\ file \in FileState
        /\ Unsent(files[wcCb]) => Unsent(file)
    BY <1>6, <2>1, BlockRead
  <2> HIDE DEF file
  <2> QED  BY <1>9, <2>1, <2>2
<1>11. ASSUME SendNothing
       PROVE  /\ files' \in Seq(FileState) /\ wcCb' \in 0..Len(files')
              /\ shut' \in BOOLEAN
              /\ state = "established" => FilesInOrder' /\ WholeFile'
  <2> DEFINE file == AfterRead(files[wcCb])
  <2>1. /\ wcCb # 0 /\ files[wcCb].good /\ files[wcCb].blocks = <<>>
        /\ files' = [files EXCEPT ![wcCb] = file] /\ UNCHANGED <<wcCb, shut>>
    BY <1>11 DEF SendNothing
  <2>2. /\ file \in FileState
        /\ Unsent(files[wcCb]) => Unsent(file)
    BY <1>6, <2>1, BlockRead
  <2> HIDE DEF file
  <2> QED  BY <1>9, <2>1, <2>2
<1>12. ASSUME SendEnd
       PROVE  /\ files' \in Seq(FileState) /\ wcCb' \in 0..Len(files')
              /\ shut' \in BOOLEAN
              /\ state = "established" => FilesInOrder' /\ WholeFile'
  <2>1. wcCb # 0 /\ wcCb' = 0 /\ shut' = TRUE
    BY <1>12 DEF SendEnd
  <2>2. files' \in Seq(FileState)
    <3>1. CASE UNCHANGED files
      BY <1>2, <3>1
    <3>2. CASE files' = [files EXCEPT ![wcCb] = AfterRead(@)]
      BY <1>6, <1>7, <2>1, <3>2, BlockRead
    <3> QED  BY <1>12, <3>1, <3>2 DEF SendEnd
  <2>3. wcCb' \in 0..Len(files')
    BY <2>1, <2>2
  <2>4. ASSUME peer # "reset", ~overlapped, state = "established"
        PROVE  \A k \in DOMAIN files' : files'[k].sent = files'[k].size
    <3>1. ~shut /\ Unsent(files[wcCb])
      BY <1>8, <2>1, <2>4
    <3>2. 0 \notin Taken(1)
      BY <2>4, <3>1 DEF Taken
    <3>3. ~files[wcCb].good /\ UNCHANGED files
      BY <1>12, <3>2 DEF SendEnd
    <3>4. files[wcCb].sent = files[wcCb].size
      <4>1. files[wcCb].blocks = <<>> /\ Len(<<>>) = 0 /\ files[wcCb].sent \in Nat
        BY <1>6, <2>1, <3>1, <3>3 DEF Unsent, FileState
      <4> QED  BY <3>1, <4>1 DEF Unsent
    <3> QED  BY <1>8, <2>1, <2>4, <3>3, <3>4
  <2>5. ASSUME state = "established"
        PROVE  FilesInOrder' /\ WholeFile'
    BY <1>4, <2>1, <2>4, <2>5 DEF FilesInOrder, WholeFile
  <2> QED  BY <2>1, <2>2, <2>3, <2>5
<1>13. ASSUME wcCb = 0
       PROVE  /\ files' \in Seq(FileState) /\ wcCb' \in 0..Len(files')
              /\ shut' \in BOOLEAN
              /\ state = "established" => FilesInOrder' /\ WholeFile'
  <2>1. FilesInOrder' /\ WholeFile'
    BY <1>4, <1>5, <1>13, FilesAlone DEF ServerInv
  <2> QED  BY <1>2, <1>5, <1>13, <2>1
<1> QED
  BY <1>3, <1>10, <1>11, <1>12, <1>13 DEF WriteComplete

\* A task of write() runs before the connection is closed.
LEMMA WriteCompleteInv ==
  ASSUME ServerInv, WriteComplete
  PROVE  ServerInv' /\ state = "established"
<1>1. ServerTypeOK /\ TasksInOrder
  BY DEF ServerInv
<1>2. PICK more \in Seq({"wc"}) : Run("wc", more)
  BY SendStep
<1>3. /\ tasks' \in Seq({"connect", "wc", "destroy"}) /\ left' \in 0..Len(tasks')
      /\ 1 \in Queued("wc")
      /\ \A t \in {"connect", "destroy"} :
           \A i \in Queued(t)' : i + 1 \in Queued(t) /\ i + 1 # 1
  BY <1>1, <1>2, NextTask
<1>4. /\ UNCHANGED <<phase, state, connected, inMap, userData, msgCb, peer, overlapped>>
      /\ stuck' = FALSE
  BY <1>2 DEF WriteComplete, Run
<1>5. state = "established"
  <2>1. tasks # <<"connect">>
    BY <1>3 DEF Queued
  <2> QED  BY <1>1, <2>1 DEF TasksInOrder, ServerTypeOK, WriteComplete
<1>6. Queued("connect")' = {} /\ Queued("destroy")' = {}
  BY <1>1, <1>3, <1>5 DEF TasksInOrder
<1>7. TasksInOrder'
  BY <1>1, <1>4, <1>5, <1>6 DEF TasksInOrder
<1>8. ServerTypeOK'
  BY <1>1, <1>3, <1>4, SendStep DEF ServerTypeOK
<1> QED  BY <1>5, <1>7, <1>8, SendStep DEF ServerInv

\* A task of write() that runs after it.
LEMMA WriteCompleteLateInv ==
  ASSUME ServerInv, WriteCompleteLate
  PROVE  ServerInv'
<1>1. ServerTypeOK /\ TasksInOrder /\ Run("wc", <<>>)
  BY DEF ServerInv, WriteCompleteLate
<1>2. /\ tasks' \in Seq({"connect", "wc", "destroy"}) /\ left' \in 0..Len(tasks')
      /\ \A t \in {"connect", "destroy"} :
           \A i \in Queued(t)' : i + 1 \in Queued(t) /\ i + 1 # 1
  BY <1>1, TasksOfWrite, NextTask
<1>3. /\ UNCHANGED <<phase, state, connected, inMap, userData, msgCb, wcCb, files, peer,
                     shut, overlapped>>
      /\ ~connected /\ stuck' = FALSE
  BY <1>1 DEF WriteCompleteLate, Run, context
<1>4. state = "disconnected" /\ Queued("connect") = {}
  BY <1>1, <1>3 DEF TasksInOrder, ServerTypeOK
<1>5. ServerTypeOK'
  BY <1>1, <1>2, <1>3 DEF ServerTypeOK
<1>6. /\ Queued("connect")' = {}
      /\ Queued("destroy")' # {} => Queued("destroy") # {}
      /\ \A i, j \in Queued("destroy")' : i = j
  <2>1. Queued("connect")' = {}
    BY <1>2, <1>4
  <2>2. \A i \in Queued("destroy")' : i \in Nat
    BY <1>2 DEF Queued
  <2>3. \A i, j \in Queued("destroy") : i = j
    BY <1>1 DEF TasksInOrder
  <2>4. \A i, j \in Queued("destroy")' : i + 1 = j + 1
    BY <1>2, <2>3
  <2>5. \A i, j \in Nat : i + 1 = j + 1 => i = j
    OBVIOUS
  <2>6. \A i, j \in Queued("destroy")' : i = j
    BY <2>2, <2>4, <2>5
  <2> QED  BY <1>2, <2>1, <2>6
<1>7. TasksInOrder'
  BY <1>1, <1>3, <1>4, <1>6 DEF TasksInOrder
<1> QED
  BY <1>3, <1>5, <1>7, FilesAlone DEF ServerInv

-----------------------------------------------------------------------------
(* The theorems about the server. *)

LEMMA ServerStep ==
  ASSUME ServerInv, [ServerNext]_serverVars
  PROVE  ServerInv'
<1>1. CASE UNCHANGED serverVars
  BY <1>1
  DEF serverVars, loop, context, ServerInv, ServerTypeOK,
      TasksInOrder, Queued, FilesInOrder, WholeFile
<1>2. CASE LoopStep
  BY <1>2, AroundInv, ConnectInv, HandleCloseInv, DestroyInv, WriteCompleteInv,
     WriteCompleteLateInv
  DEF LoopStep
<1>3. CASE Erase \/ PeerEnds \/ WriteBlocks
  BY <1>3, AroundInv
<1>4. ASSUME NEW path \in Paths, Request(path)
      PROVE  ServerInv'
  BY <1>4, RequestInv
<1>5. CASE WriteReturns
  BY <1>4, <1>5, WriteCompleteInv DEF WriteReturns
<1> QED  BY <1>1, <1>2, <1>3, <1>4, <1>5 DEF ServerNext

THEOREM ServerInvariant == ServerSpec => []ServerInv
<1> QED  BY ServerBegins, ServerStep, PTL DEF ServerSpec

\* A file is sent whole before the sending side of its connection is shut down, unless
\* the peer reset the connection or sent a request during the file or after that
\* shutdown: sendMore() shuts down at the end of a file, and at no other time.  For files
\* of any length, any number of requests, and a header of any number of writes.
THEOREM FilesGoWhole == ServerSpec => []WholeFile
<1>1. ServerInv => WholeFile
  BY DEF ServerInv
<1> QED  BY <1>1, ServerInvariant, PTL

\* Every any_cast of HttpServer finds the context: the tasks that write() queued and the
\* one that destroys the connection run after initConnection() and before
\* deleteConnection(), whatever else is queued, or find the callbacks gone.
THEOREM ContextIsFound == ServerSpec => CastsFind
<1>1. ASSUME ServerInv, WriteComplete
      PROVE  userData = "ctx"
  BY <1>1, WriteCompleteInv DEF ServerInv, TasksInOrder
<1>2. ASSUME ServerInv, Destroy
      PROVE  userData = "ctx"
  <2>1. 1 \in Queued("destroy")
    BY <1>2, TasksOfWrite, NextTask DEF ServerInv, Destroy
  <2> QED  BY <1>2, <2>1 DEF ServerInv, TasksInOrder
<1>3. ASSUME ServerInv, NEW path \in Paths, Request(path)
      PROVE  userData = "ctx"
  BY <1>3 DEF ServerInv, TasksInOrder, Request, RequestComes
<1>4. ServerInv /\ [ServerNext]_serverVars
        => [(WriteComplete \/ Destroy
              \/ \E path \in Paths : Request(path))
              => userData = "ctx"]_serverVars
  BY <1>1, <1>2, <1>3
<1> QED  BY <1>4, ServerInvariant, PTL DEF ServerSpec, CastsFind

==============================================================================
