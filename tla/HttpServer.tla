----------------------------- MODULE HttpServer ------------------------------
(***************************************************************************)
(* http/HttpServer.hpp over one accepted connection, with HttpContext,      *)
(* HttpRouter, StaticHandler and the routes of rpx.cpp.  The proxied routes *)
(* are in ProxyHandler, the parser in HttpParser: here it hands over whole  *)
(* requests, any number per read.  A malformed request silences the parser  *)
(* for good (advance() drops its error), as a peer that sends no more.      *)
(*                                                                         *)
(* The connection is the part of TcpConnection this code depends on.  An    *)
(* accepted socket blocks: a write is taken whole, however long that takes, *)
(* and fails after a shutdown, or with a part of it after a reset.  A step  *)
(* that writes is the whole handler, at its end; one that has to wait for   *)
(* the peer is announced by WriteBlocks.  A block stands for the 4096 bytes *)
(* of sendMore().                                                          *)
(***************************************************************************)
EXTENDS Naturals, Sequences

CONSTANTS
  HeaderWrites,   \* bound: writes of a header (14 for a file, 11 for an error)
  MaxBlocks,      \* bound: full blocks of a file
  MaxRequests     \* bound: requests of the connection

ASSUME HeaderAssumption == HeaderWrites \in Nat \ {0, 1}
ASSUME RequestBounds == MaxBlocks \in Nat /\ MaxRequests \in Nat

VARIABLES
  phase,      \* of the io loop: polling, reading this connection, running tasks
  tasks,      \* the tasks it has for this connection
  left,       \* tasks of the batch it runs
  state,      \* of the connection
  connected,  \* the connection has its message and write-complete callbacks
  inMap,      \* it is in the map of the TcpServer
  userData,   \* what the std::any of the connection holds
  msgCb,      \* the callback of the parser, which holds the context
  wcCb,       \* the request whose file the context's callback sends, or 0
  files,      \* per request: the file of its answer
  peer,       \* the other end: it is there, has finished or has reset
  shut,       \* the sending side is shut down
  stuck,      \* the io loop is inside a write() that waits for the peer to read
  overlapped  \* a request came during a file, or after a shutdown (history)

loop == <<phase, tasks, left>>
context == <<userData, msgCb, wcCb, files>>
serverVars == <<loop, state, connected, inMap, context, peer, shut, stuck, overlapped>>

\* The file of an answer: what is unread of it, and what was sent.  A directory
\* opens, has a size and cannot be read.
File(kind, blocks) == [kind |-> kind, blocks |-> blocks, size |-> Len(blocks),
                       good |-> TRUE, sent |-> 0]
RegularFiles ==
  {File("regular", [i \in 1..full |-> "full"] \o tail) :
     full \in 0..MaxBlocks, tail \in {<<>>, <<"part">>}}
Directory == File("directory", <<>>)
NoFile == File("none", <<>>)

ServerInit ==
  /\ phase = "poll" /\ tasks = <<"connect">> /\ left = 0
  /\ state = "connecting" /\ connected = TRUE /\ inMap = TRUE
  /\ userData = "none" /\ msgCb = FALSE /\ wcCb = 0 /\ files = <<>>
  /\ peer = "open" /\ shut = FALSE /\ stuck = FALSE /\ overlapped = FALSE

Tasks(task, n) == [i \in 1..n |-> task]

-----------------------------------------------------------------------------
(* The loop. *)

StartBatch ==
  /\ \/ phase = "read"
     \/ phase = "poll" /\ tasks # <<>>
  /\ phase' = "tasks" /\ left' = Len(tasks)
  /\ UNCHANGED <<tasks, state, connected, inMap, context, peer, shut, stuck, overlapped>>

EndBatch ==
  /\ phase = "tasks" /\ left = 0
  /\ phase' = "poll"
  /\ UNCHANGED <<tasks, left, state, connected, inMap, context, peer, shut, stuck, overlapped>>

\* The loop is at a task of the batch.
AtTask(task) == phase = "tasks" /\ left > 0 /\ Head(tasks) = task

\* It runs it to its end; the task queues others.
Run(task, more) ==
  /\ AtTask(task)
  /\ tasks' = Tail(tasks) \o more /\ left' = left - 1
  /\ stuck' = FALSE
  /\ UNCHANGED phase

-----------------------------------------------------------------------------
(* HttpServer. *)

\* The task of TcpServer::handleNewConnection(), with initConnection().
Connect ==
  /\ Run("connect", <<>>)
  /\ state' = "established"
  /\ userData' = "ctx" /\ msgCb' = TRUE
  /\ UNCHANGED <<connected, inMap, wcCb, files, peer, shut, overlapped>>

\* The callbacks handleClose() leaves to the connection: none, or by a fault those
\* it had.
ConnectionCallbacksKept == connected
ConnectionCallbacks == FALSE

\* TcpConnection::handleClose() at the end of the input; TcpServer queues the
\* rest in both loops.
HandleClose ==
  /\ phase = "poll" /\ state = "established" /\ peer # "open"
  /\ phase' = "read"
  /\ state' = "disconnected" /\ connected' = ConnectionCallbacks
  /\ tasks' = Append(tasks, "destroy")
  /\ UNCHANGED <<left, inMap, context, peer, shut, stuck, overlapped>>

\* The task TcpServer::handleClose() gave the base loop.
Erase ==
  /\ state = "disconnected" /\ inMap
  /\ inMap' = FALSE
  /\ UNCHANGED <<loop, state, connected, context, peer, shut, stuck, overlapped>>

\* The context's callback after deleteConnection(): none, or by a fault the one
\* it had.
WriteCompleteStays == wcCb
WriteCompleteDropped == 0

\* The task that destroys the connection, with deleteConnection().
Destroy ==
  /\ Run("destroy", <<>>)
  /\ msgCb' = FALSE /\ wcCb' = WriteCompleteDropped /\ userData' = "null"
  /\ UNCHANGED <<state, connected, inMap, files, peer, shut, overlapped>>

-----------------------------------------------------------------------------
(* HttpRouter and StaticHandler. *)

\* write() of n pieces: how many the socket takes.
Taken(n) ==
  IF shut THEN {0} ELSE IF peer = "reset" THEN 0..n ELSE {n}

\* One task per piece taken; by a fault, one for all of them.
WriteCompletesOnce(n) == Tasks("wc", IF n = 0 THEN 0 ELSE 1)
WriteCompletes(n) == Tasks("wc", n)

Routes == <<[url |-> "/ping", handler |-> "ping"], [url |-> "/static", handler |-> "static"]>>

\* A path: what it begins with, and what comes then.
Paths == [start : {"/ping", "/static", "/else"}, next : {"end", "punct", "alnum"}]

\* SimpleRoute::match().
Match(route, path) == path.start = route.url /\ path.next # "alnum"

\* HttpRouter::handleRequest(): the first route that matches.
Handler(path) ==
  LET matching == {i \in DOMAIN Routes : Match(Routes[i], path)}
  IN IF matching = {} THEN "error"
     ELSE Routes[CHOOSE i \in matching : \A j \in matching : i <= j].handler

\* HttpServer::handleMessage() with a request in the buffer, and its handler.
Ping ==
  /\ \E n \in Taken(1) : tasks' = tasks \o WriteCompletes(n)
  /\ files' = Append(files, NoFile)
  /\ UNCHANGED <<wcCb, shut>>

\* sendError(): the header, and shutdown() at once.
SendError ==
  /\ \E n \in Taken(HeaderWrites) : tasks' = tasks \o WriteCompletes(n)
  /\ files' = Append(files, NoFile)
  /\ shut' = TRUE
  /\ UNCHANGED wcCb

\* StaticHandler::operator(): 403, 404, or the header and the callback.
SendFile ==
  /\ \E n \in Taken(HeaderWrites) : tasks' = tasks \o WriteCompletes(n)
  /\ \E file \in RegularFiles \cup {Directory} : files' = Append(files, file)
  /\ wcCb' = Len(files) + 1
  /\ UNCHANGED shut

\* A read of this connection has one more request.
RequestComes ==
  /\ phase \in {"poll", "read"} /\ state = "established"
  /\ phase = "poll" => peer # "reset"
  /\ Len(files) < MaxRequests

Request(path) ==
  /\ RequestComes
  /\ phase' = "read" /\ stuck' = FALSE
  /\ overlapped' = (overlapped \/ wcCb # 0 \/ shut)
  /\ CASE Handler(path) = "ping" -> Ping
       [] Handler(path) = "error" -> SendError
       [] Handler(path) = "static" -> SendFile \/ SendError
  /\ UNCHANGED <<left, state, connected, inMap, userData, msgCb, peer>>

\* read() of a block: the file after it.
AfterRead(file) ==
  LET some == file.blocks # <<>>
  IN [file EXCEPT !.good = some /\ Head(file.blocks) = "full",
                  !.blocks = IF some THEN Tail(@) ELSE @]

\* And when the block is sent.
AfterSend(file) == [AfterRead(file) EXCEPT !.sent = @ + 1]

\* sendMore() has something to send.
Unread == wcCb # 0 /\ files[wcCb].good /\ files[wcCb].blocks # <<>>

\* Fault: sendMore() takes a block that is not full for the last, and shuts down
\* before it is sent.
SendEndEarly ==
  /\ wcCb # 0
  /\ ~files[wcCb].good \/ Len(files[wcCb].blocks) = 1
  /\ Run("wc", <<>>)
  /\ wcCb' = 0 /\ shut' = TRUE
  /\ UNCHANGED files

\* StaticHandler::sendMore() with something read and sent, with some of it sent
\* before a reset and the rest left in the connection's buffer (from then on, all
\* of it), with nothing read, and at the end or when the write fails.
SendBlock ==
  /\ Unread
  /\ 1 \in Taken(1)
  /\ Run("wc", WriteCompletes(1))
  /\ files' = [files EXCEPT ![wcCb] = AfterSend(@)]
  /\ UNCHANGED <<wcCb, shut>>

SendBuffered ==
  /\ Unread
  /\ peer = "reset"
  /\ Run("wc", <<>>)
  /\ files' = [files EXCEPT ![wcCb] = AfterSend(@)]
  /\ UNCHANGED <<wcCb, shut>>

SendNothing ==
  /\ wcCb # 0 /\ files[wcCb].good /\ files[wcCb].blocks = <<>>
  /\ Run("wc", <<>>)
  /\ files' = [files EXCEPT ![wcCb] = AfterRead(@)]
  /\ UNCHANGED <<wcCb, shut>>

SendEnd ==
  /\ wcCb # 0
  /\ \/ ~files[wcCb].good /\ UNCHANGED files
     \/ /\ Unread /\ 0 \in Taken(1)
        /\ files' = [files EXCEPT ![wcCb] = AfterRead(@)]
  /\ Run("wc", <<>>)
  /\ wcCb' = 0 /\ shut' = TRUE

\* The task of TcpConnection::write(), with HttpServer::writeCompleteCallback().
WriteComplete ==
  /\ connected
  /\ \/ SendBlock \/ SendBuffered \/ SendNothing \/ SendEnd
     \/ wcCb = 0 /\ Run("wc", <<>>) /\ UNCHANGED <<wcCb, files, shut>>
  /\ UNCHANGED <<state, connected, inMap, userData, msgCb, peer, overlapped>>

WriteCompleteLate ==
  /\ ~connected
  /\ Run("wc", <<>>)
  /\ UNCHANGED <<state, connected, inMap, context, peer, shut, overlapped>>

\* A write() of the handler of a request, or of sendMore(), finds the socket full.
\* It returns in the step of that handler: when the peer has read or reset.
WriteBlocks ==
  /\ ~stuck /\ ~shut /\ peer # "reset"
  /\ \/ RequestComes /\ phase' = "read"
     \/ AtTask("wc") /\ connected /\ Unread /\ UNCHANGED phase
  /\ stuck' = TRUE
  /\ UNCHANGED <<tasks, left, state, connected, inMap, context, peer, shut, overlapped>>

WriteReturns ==
  stuck /\ (WriteComplete \/ \E path \in Paths : Request(path))

-----------------------------------------------------------------------------
(* The other end. *)

PeerEnds ==
  /\ \/ peer = "open" /\ peer' = "finished"
     \/ peer # "reset" /\ peer' = "reset"
  /\ UNCHANGED <<loop, state, connected, inMap, context, shut, stuck, overlapped>>

LoopStep ==
  /\ ~stuck
  /\ \/ StartBatch \/ EndBatch \/ Connect \/ HandleClose \/ Destroy
     \/ WriteComplete \/ WriteCompleteLate

ServerNext ==
  \/ LoopStep \/ WriteBlocks \/ WriteReturns \/ Erase \/ PeerEnds
  \/ ~stuck /\ \E path \in Paths : Request(path)

\* The threads of both loops go on, and what other connections of the loop call
\* returns.  The peer owes nothing: a write() that waits for it returns for certain
\* only when the peer has reset.
Fairness ==
  /\ WF_serverVars(LoopStep) /\ WF_serverVars(Erase)
  /\ WF_serverVars(peer = "reset" /\ WriteReturns)

ServerSpec == ServerInit /\ [][ServerNext]_serverVars /\ Fairness

-----------------------------------------------------------------------------
(* Properties. *)

\* Every any_cast of HttpServer finds the context: none of its callbacks runs
\* before initConnection() or after deleteConnection(), whatever is queued.
CastsFind ==
  [][(WriteComplete \/ Destroy \/ \E path \in Paths : Request(path))
       => userData = "ctx"]_serverVars

\* A file is sent whole before the sending side is shut down, unless the peer
\* reset the connection or sent another request meanwhile (the context has one
\* callback, and sendError() does not wait) or after that shutdown.
WholeFile ==
  shut /\ peer # "reset" /\ ~overlapped =>
    \A k \in DOMAIN files : files[k].sent = files[k].size

\* Values of the variables.
FileState == [kind : {"none", "regular", "directory"}, blocks : Seq({"full", "part"}),
              size : Nat, good : BOOLEAN, sent : Nat]
ServerTypeOK ==
  /\ phase \in {"poll", "read", "tasks"}
  /\ tasks \in Seq({"connect", "wc", "destroy"})
  /\ left \in 0..Len(tasks)
  /\ state \in {"connecting", "established", "disconnected"}
  /\ connected \in BOOLEAN /\ inMap \in BOOLEAN /\ msgCb \in BOOLEAN
  /\ userData \in {"none", "ctx", "null"}
  /\ files \in Seq(FileState) /\ wcCb \in 0..Len(files)
  /\ peer \in {"open", "finished", "reset"}
  /\ shut \in BOOLEAN /\ stuck \in BOOLEAN /\ overlapped \in BOOLEAN

\* Why the casts find the context: a connection has it from the first of its tasks to
\* the one that destroys it, which is queued once and only when it is closed.
Queued(task) == {i \in DOMAIN tasks : tasks[i] = task}
TasksInOrder ==
  /\ connected <=> state # "disconnected"
  /\ state = "connecting" => tasks = <<"connect">> /\ ~shut
  /\ state # "connecting" => Queued("connect") = {}
  /\ state = "established" => userData = "ctx"
  /\ Queued("destroy") # {} => state = "disconnected" /\ userData = "ctx"
  /\ \A i, j \in Queued("destroy") : i = j

\* Why a file is sent whole: what is unread and what was sent make it up, a block that
\* is not full is its last, and the callback is the context's until both are so.
Unsent(file) ==
  /\ file.sent + Len(file.blocks) = file.size
  /\ file.good \/ file.blocks = <<>>
  /\ \A i \in DOMAIN file.blocks : i < Len(file.blocks) => file.blocks[i] = "full"
FilesInOrder ==
  peer # "reset" /\ ~overlapped =>
    /\ shut => wcCb = 0
    /\ state # "disconnected" =>
         /\ \A k \in DOMAIN files : k # wcCb => files[k].sent = files[k].size
         /\ wcCb # 0 => Unsent(files[wcCb])
ServerInv == ServerTypeOK /\ TasksInOrder /\ FilesInOrder /\ WholeFile

\* The answer with a file comes to an end: sendMore() shuts down, or the
\* connection closes, unless a write() waits for a peer that never reads again.  A
\* file of whole blocks ends only because the header was written in pieces, each of
\* which asks for a block.
FileEnds ==
  \A k \in 1..MaxRequests :
    (k \in DOMAIN files /\ files[k].kind # "none")
      ~> (shut \/ state = "disconnected" \/ []stuck)

\* What still holds the connection and its context, which hold each other.
Released ==
  ~inMap /\ tasks = <<>> /\ userData # "ctx" /\ ~msgCb /\ wcCb = 0

\* A connection that ended is let go of, and its context and file with it.
ContextReleased == state = "disconnected" ~> Released

\* What does not hold: an answer ends whatever the peer does.  One that stays and does
\* not read keeps the io loop, with all its connections, in write().
FileEndsUnread ==
  \A k \in 1..MaxRequests :
    (k \in DOMAIN files /\ files[k].kind # "none") ~> (shut \/ state = "disconnected")

\* What does not hold: an answer is sent whole also when requests are pipelined.
WholeFilePipelined ==
  shut /\ peer # "reset" => \A k \in DOMAIN files : files[k].sent = files[k].size
=============================================================================
