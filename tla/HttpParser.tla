----------------------------- MODULE HttpParser ------------------------------
(***************************************************************************)
(* http/HttpParser.hpp: the callbacks of one parser, which collect the      *)
(* fragments llhttp reports into messages.                                  *)
(*                                                                         *)
(* llhttp is external: it reports what was sent, in order, each text in     *)
(* fragments cut anywhere.  A text is the sequence of its pieces, which are *)
(* not cut further.  The first line stands for the path of a request and    *)
(* for the status message of a response; the numbers (version, method,      *)
(* status code) are left out.  Chunk boundaries are fragment boundaries.    *)
(***************************************************************************)
EXTENDS Naturals, Sequences

CONSTANTS
  Line, Name, Value, Body,   \* the texts that are sent, by their place
  Empty,                     \* a text of no bytes
  MaxHeaders,                \* bound: headers and trailers of a message
  MaxMessages                \* bound: messages of a connection

ASSUME EmptyAssumption == Empty \notin Line \cup Name
ASSUME BoundAssumption == MaxHeaders \in Nat /\ MaxMessages \in Nat

VARIABLES
  at,         \* what llhttp is reading
  trailing,   \* ... after the last chunk
  rest,       \* the text it is reading, less what it has reported
  buffer,     \* _currentBuffer
  buffer1,    \* _currentBuffer1
  messages,   \* what _data pointed to in turn: the program may hold them all
  sent        \* what the peer sends, for each of them (history)

vars == <<at, trailing, rest, buffer, buffer1, messages, sent>>

Text(x) == IF x = Empty THEN <<>> ELSE <<<<x, 1>>, <<x, 2>>>>
Blank == [line |-> <<>>, headers |-> [n \in {} |-> <<>>], body |-> <<>>]

Init ==
  /\ at = "idle" /\ trailing = FALSE /\ rest = <<>>
  /\ buffer = <<>> /\ buffer1 = <<>>
  /\ messages = <<>> /\ sent = <<>>

This == Len(messages)

Piece == (Line \cup Name \cup Value \cup Body) \X {1, 2}
Content == Seq(Piece)
Headers == UNION {[names -> Content] : names \in SUBSET Content}
Message == [line : Content, headers : Headers, body : Content]
SentHeader == [name : Name, value : Value]
SentMessage == [line : Line, headers : Seq(SentHeader), trailers : Seq(SentHeader),
                body : Body \cup {Empty}]

\* Values of the variables; between the two ends of a message there is one, and
\* a header that is being read is the last of those that were sent.
TypeOK ==
  /\ at \in {"idle", "line", "headers", "field", "value", "body"}
  /\ trailing \in BOOLEAN
  /\ rest \in Content /\ buffer \in Content /\ buffer1 \in Content
  /\ messages \in Seq(Message) /\ sent \in Seq(SentMessage) /\ Len(sent) = This
  /\ at # "idle" => This > 0
  /\ at = "field" => IF trailing THEN sent[This].trailers # <<>> ELSE sent[This].headers # <<>>

-----------------------------------------------------------------------------
(* What the callbacks do, and the faults the properties were tried with. *)

\* reset(): a new message; the old one belongs to whoever holds it.
ResetInPlace == Append([messages EXCEPT ![This] = Blank], Blank)
Reset == Append(messages, Blank)

\* append().
Replaced(text, fragment) == fragment
Appended(text, fragment) == text \o fragment

\* headers[name].swap(value): the map, and what is left in the second buffer.
HeaderSet(headers, name, value) ==
  [n \in DOMAIN headers \cup {name} |-> IF n = name THEN value ELSE headers[n]]
HeaderLeft(headers, name) ==
  IF name \in DOMAIN headers THEN headers[name] ELSE <<>>

\* clear() of the first buffer.
NotCleared(text) == text
Cleared(text) == <<>>

-----------------------------------------------------------------------------
(* The callbacks, in the order of llhttp. *)

\* on_message_begin().
MessageBegin ==
  /\ at = "idle" /\ Len(sent) < MaxMessages
  /\ at' = "line"
  /\ \E line \in Line :
       /\ rest' = Text(line)
       /\ sent' = Append(sent, [line |-> line, headers |-> <<>>, trailers |-> <<>>,
                                body |-> Empty])
  /\ messages' = Reset
  /\ UNCHANGED <<trailing, buffer, buffer1>>

Fragments == {SubSeq(rest, 1, n) : n \in 1..Len(rest)}
Report(f) == rest' = SubSeq(rest, Len(f) + 1, Len(rest))

\* on_url(), on_status(), on_header_field() and on_body().
OnText(f) ==
  /\ at \in {"line", "field", "body"} /\ Report(f)
  /\ buffer' = Appended(buffer, f)
  /\ UNCHANGED <<at, trailing, buffer1, messages, sent>>

\* on_header_value().
OnValue(f) ==
  /\ at = "value" /\ Report(f)
  /\ buffer1' = Appended(buffer1, f)
  /\ UNCHANGED <<at, trailing, buffer, messages, sent>>

\* on_url_complete() and on_status_complete(): swap().
LineComplete ==
  /\ at = "line" /\ rest = <<>>
  /\ at' = "headers"
  /\ messages' = [messages EXCEPT ![This].line = buffer]
  /\ buffer' = messages[This].line
  /\ UNCHANGED <<trailing, rest, buffer1, sent>>

\* A header, or after the last chunk a trailer, begins.
HeaderBegin ==
  /\ at = "headers"
  /\ Len(sent[This].headers) + Len(sent[This].trailers) < MaxHeaders
  /\ at' = "field"
  /\ \E name \in Name, value \in Value :
       /\ rest' = Text(name)
       /\ LET h == [name |-> name, value |-> value]
          IN sent' = IF trailing THEN [sent EXCEPT ![This].trailers = Append(@, h)]
                     ELSE [sent EXCEPT ![This].headers = Append(@, h)]
  /\ UNCHANGED <<trailing, buffer, buffer1, messages>>

\* on_header_field_complete().
FieldComplete ==
  /\ at = "field" /\ rest = <<>>
  /\ at' = "value"
  /\ LET hs == IF trailing THEN sent[This].trailers ELSE sent[This].headers
     IN rest' = Text(hs[Len(hs)].value)
  /\ UNCHANGED <<trailing, buffer, buffer1, messages, sent>>

\* on_header_value_complete().
ValueComplete ==
  /\ at = "value" /\ rest = <<>>
  /\ at' = "headers"
  /\ messages' = [messages EXCEPT ![This].headers = HeaderSet(@, buffer, buffer1)]
  /\ buffer1' = HeaderLeft(messages[This].headers, buffer)
  /\ buffer' = Cleared(buffer)
  /\ UNCHANGED <<trailing, rest, sent>>

\* on_headers_complete(); nothing sets the header callback.
HeadersComplete ==
  /\ at = "headers" /\ ~trailing
  /\ at' = "body"
  /\ \E body \in Body :
       /\ rest' = Text(body)
       /\ sent' = [sent EXCEPT ![This].body = body]
  /\ UNCHANGED <<trailing, buffer, buffer1, messages>>

\* on_chunk_complete() of the last chunk, when trailers follow.
LastChunk ==
  /\ at = "body" /\ rest = <<>>
  /\ at' = "headers" /\ trailing' = TRUE
  /\ UNCHANGED <<rest, buffer, buffer1, messages, sent>>

\* on_message_complete(): swap(), and the message callback.
MessageComplete ==
  /\ \/ at = "body" /\ rest = <<>>
     \/ at = "headers" /\ trailing
  /\ at' = "idle" /\ trailing' = FALSE
  /\ messages' = [messages EXCEPT ![This].body = buffer]
  /\ buffer' = messages[This].body
  /\ UNCHANGED <<rest, buffer1, sent>>

Next ==
  \/ MessageBegin \/ LineComplete
  \/ HeaderBegin \/ FieldComplete \/ ValueComplete \/ HeadersComplete
  \/ LastChunk \/ MessageComplete
  \/ \E f \in Fragments : OnText(f) \/ OnValue(f)

Spec == Init /\ [][Next]_vars

-----------------------------------------------------------------------------
(* Properties. *)

\* The messages the program was told of.
Delivered == {k \in DOMAIN messages : k < This \/ at = "idle"}

Distinct(hs) == \A i, j \in DOMAIN hs : hs[i].name = hs[j].name => i = j

\* Up to a message, none had trailers or repeated a name.
Plain(k) == \A j \in 1..k : sent[j].trailers = <<>> /\ Distinct(sent[j].headers)

\* The headers that were sent, as a map.
AsMap(hs) ==
  [n \in {Text(hs[i].name) : i \in DOMAIN hs} |->
     LET i == CHOOSE i \in DOMAIN hs : Text(hs[i].name) = n IN Text(hs[i].value)]

AsSent(k) ==
  /\ messages[k].line = Text(sent[k].line)
  /\ sent[k].trailers = <<>> => messages[k].body = Text(sent[k].body)
  /\ Plain(k) => messages[k].headers = AsMap(sent[k].headers)

\* However the bytes are cut and however many messages a connection carries, a
\* message is delivered as it was sent: its first line always, its body unless
\* trailers follow it (on_header_field() appends to the buffer that holds the
\* body), its headers until a name is repeated (swap() keeps the old value in
\* the second buffer) or trailers came.
DeliveredAsSent == \A k \in Delivered : AsSent(k)

\* Why.  The message that is being collected, or was last: the buffers and what is left
\* to report are the text that is read, and the message has those before it.
LastOf(hs) == hs[Len(hs)]
InHeader == at \in {"field", "value"}
Complete ==
  LET hs == sent[This].headers IN IF InHeader THEN SubSeq(hs, 1, Len(hs) - 1) ELSE hs

LineSoFar ==
  /\ at = "line" => buffer \o rest = Text(sent[This].line) /\ messages[This].line = <<>>
  /\ at # "line" => messages[This].line = Text(sent[This].line)
BodySoFar ==
  /\ at # "idle" => messages[This].body = <<>>
  /\ at = "body" => ~trailing /\ buffer \o rest = Text(sent[This].body)
  /\ at = "headers" /\ trailing /\ sent[This].trailers = <<>>
       => buffer = Text(sent[This].body)
HeadersSoFar ==
  /\ at = "line" => ~trailing /\ sent[This].headers = <<>>
  /\ at # "idle" /\ ~trailing => sent[This].trailers = <<>>
  /\ InHeader => IF trailing THEN sent[This].trailers # <<>> ELSE sent[This].headers # <<>>
  /\ at = "headers" /\ ~trailing => buffer = <<>>
  /\ at = "field" /\ ~trailing => buffer \o rest = Text(LastOf(sent[This].headers).name)
  /\ at = "value" /\ ~trailing => buffer = Text(LastOf(sent[This].headers).name)
ValuesSoFar ==
  /\ at = "value" => buffer1 \o rest = Text(LastOf(sent[This].headers).value)
  /\ messages[This].headers = AsMap(Complete)

BuffersBetween ==
  /\ at = "idle" => ~trailing /\ buffer = <<>>
  /\ Plain(This) /\ at # "value" => buffer1 = <<>>
CollectedSoFar ==
  /\ BuffersBetween
  /\ This > 0 => /\ LineSoFar /\ BodySoFar /\ HeadersSoFar
                 /\ Plain(This) => ValuesSoFar
InductiveInv == TypeOK /\ CollectedSoFar /\ DeliveredAsSent

\* A message that was delivered is never written again: a handler that waits for
\* a connection upstream holds it while the parser goes on (HttpContext.hpp).
MessageKept ==
  [][\A k \in Delivered : messages'[k] = messages[k]]_vars

\* What on_header_value_complete() says of itself: "Now _currentBuffer and
\* _currentBuffer1 are all clear".
BuffersClear ==
  [][ValueComplete => buffer' = <<>> /\ buffer1' = <<>>]_vars
=============================================================================
