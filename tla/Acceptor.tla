------------------------------- MODULE Acceptor -------------------------------
(***************************************************************************)
(* core/Acceptor.hpp at the limit of descriptors (EMFILE): the acceptor     *)
(* keeps a spare descriptor, and gives it up for a moment to take a         *)
(* connection off the backlog and close it.  The io threads open and close  *)
(* descriptors of the same table meanwhile: files, connections upstream,    *)
(* the connections they were given.                                        *)
(*                                                                         *)
(* The kernel's table gives the lowest free number, and accept() asks for   *)
(* it before it looks at the backlog.  The listening socket is watched      *)
(* level-triggered.  What becomes of a connection is in TcpServer; other    *)
(* errors of accept() end handleRead() like an empty backlog and are left   *)
(* out.                                                                    *)
(***************************************************************************)
EXTENDS Naturals, Sequences, SequencesExt, FiniteSetsExt

CONSTANTS
  NumFds,   \* > 0: descriptors of the process, but for those that are always open
  Peer      \* connection attempts

Fd == 1..NumFds
NoFd == 0   \* -1 in the code

VARIABLES
  owner,    \* whose a descriptor is
  idleFd,   \* _idleFd
  backlog,  \* connections nobody accepted yet
  arrived,  \* the peers that tried
  at,       \* where the base loop is with handleRead()
  raced     \* another thread opened a descriptor while the spare was given up (history)

vars == <<owner, idleFd, backlog, arrived, at, raced>>

\* Values of the variables.
TypeOK ==
  /\ owner \in [Fd -> {"free", "spare", "conn", "other"}]
  /\ idleFd \in Fd \cup {NoFd}
  /\ backlog \in Seq(Peer) /\ arrived \in SUBSET Peer
  /\ at \in {"wait", "accept", "full", "room", "took", "reopen", "gone"}
  /\ raced \in BOOLEAN

\* The constructor, before the limit is reached, and listen().
Init ==
  /\ owner = [f \in Fd |-> IF f = 1 THEN "spare" ELSE "free"]
  /\ idleFd = 1
  /\ backlog = <<>> /\ arrived = {}
  /\ at = "wait" /\ raced = FALSE

-----------------------------------------------------------------------------
(* The kernel's table. *)

Free == {f \in Fd : owner[f] = "free"}
Full == Free = {}
Lowest == Min(Free)

\* close(), also of -1 or of what is closed already.
Close(f) == owner' = [g \in Fd |-> IF g = f THEN "free" ELSE owner[g]]
OpenAs(who) == owner' = [owner EXCEPT ![Lowest] = who]

-----------------------------------------------------------------------------
(* handleRead(). *)

\* epoll_wait() returns as long as the backlog is not empty.
Readable ==
  /\ at = "wait" /\ backlog # <<>>
  /\ at' = "accept"
  /\ UNCHANGED <<owner, idleFd, backlog, arrived, raced>>

\* accept() succeeds: the callback has the connection, and the next one is tried.
AcceptOne ==
  /\ at = "accept" /\ ~Full /\ backlog # <<>>
  /\ OpenAs("conn")
  /\ backlog' = Tail(backlog)
  /\ UNCHANGED <<idleFd, arrived, at, raced>>

AcceptNone ==
  /\ at = "accept" /\ ~Full /\ backlog = <<>>
  /\ at' = "wait"
  /\ UNCHANGED <<owner, idleFd, backlog, arrived, raced>>

AcceptEmfile ==
  /\ at = "accept" /\ Full
  /\ at' = "full"
  /\ UNCHANGED <<owner, idleFd, backlog, arrived, raced>>

GiveUpSpare ==
  /\ at = "full"
  /\ Close(idleFd)
  /\ at' = "room"
  /\ UNCHANGED <<idleFd, backlog, arrived, raced>>

\* What the second accept() leaves in _idleFd when it fails.
KeptNumber == idleFd    \* fault: the number that was closed
NoNumber == NoFd

\* The second accept(), into _idleFd.
AcceptIntoSpare ==
  /\ at = "room"
  /\ at' = "took"
  /\ \/ /\ ~Full /\ backlog # <<>>
        /\ OpenAs("spare") /\ idleFd' = Lowest
        /\ backlog' = Tail(backlog)
     \/ /\ Full \/ backlog = <<>>
        /\ idleFd' = NoNumber
        /\ UNCHANGED <<owner, backlog>>
  /\ UNCHANGED <<arrived, raced>>

Refuse ==
  /\ at = "took"
  /\ Close(idleFd)
  /\ at' = "reopen"
  /\ UNCHANGED <<idleFd, backlog, arrived, raced>>

\* Fault: the spare is not opened again.
NotReopened ==
  /\ at = "reopen"
  /\ at' = "wait"
  /\ idleFd' = NoFd
  /\ UNCHANGED <<owner, backlog, arrived, raced>>

\* open(), and return: the rest of the backlog waits for the next iteration.
Reopen ==
  /\ at = "reopen"
  /\ at' = "wait"
  /\ \/ ~Full /\ OpenAs("spare") /\ idleFd' = Lowest
     \/ Full /\ idleFd' = NoFd /\ UNCHANGED owner
  /\ UNCHANGED <<backlog, arrived, raced>>

\* ~Acceptor(), and ~Socket() of its socket, which resets what is in the backlog.
Destroy ==
  /\ at = "wait"
  /\ at' = "gone"
  /\ Close(idleFd)
  /\ backlog' = <<>>
  /\ UNCHANGED <<idleFd, arrived, raced>>

HandleRead ==
  \/ Readable \/ AcceptOne \/ AcceptNone \/ AcceptEmfile
  \/ GiveUpSpare \/ AcceptIntoSpare \/ Refuse \/ Reopen

-----------------------------------------------------------------------------
(* The others. *)

Connect(p) ==
  /\ at # "gone" /\ p \notin arrived
  /\ arrived' = arrived \cup {p}
  /\ backlog' = Append(backlog, p)
  /\ UNCHANGED <<owner, idleFd, at, raced>>

\* Another thread opens a file or a socket.
OpenElsewhere ==
  /\ ~Full
  /\ OpenAs("other")
  /\ raced' = (raced \/ at \in {"room", "took", "reopen"})
  /\ UNCHANGED <<idleFd, backlog, arrived, at>>

\* A file, a client or a connection is closed.
CloseElsewhere(f) ==
  /\ owner[f] \in {"conn", "other"}
  /\ Close(f)
  /\ UNCHANGED <<idleFd, backlog, arrived, at, raced>>

Next ==
  \/ HandleRead \/ Destroy \/ OpenElsewhere
  \/ \E p \in Peer : Connect(p)
  \/ \E f \in Fd : CloseElsewhere(f)

\* The base loop runs as long as its listening socket is readable.
Spec == Init /\ [][Next]_vars /\ WF_vars(HandleRead)

-----------------------------------------------------------------------------
(* Properties. *)

\* Whether _idleFd is a descriptor of the acceptor, and not the number of one it closed.
HasSpare == idleFd # NoFd /\ at \notin {"room", "reopen", "gone"}

\* However the descriptors of the io threads come and go in between, what the
\* acceptor is about to close is its own, and it has no other: the number in
\* _idleFd may be a client's connection the moment after it was closed.
SpareIsOwn == {f \in Fd : owner[f] = "spare"} = {f \in {idleFd} : HasSpare}

\* A connection attempt is accepted or refused at once even when there is no
\* descriptor left for it and nobody ever closes one, which is what the spare
\* descriptor is for, as long as no other thread took it in the window.
Answered ==
  \A p \in Peer : p \in ToSet(backlog) ~> p \notin ToSet(backlog) \/ raced

\* The same without the exception, when the other threads open nothing any more.  It
\* fails: an open() that finds no descriptor loses the spare one, the next EMFILE
\* closes -1, and the base loop spins on a socket that stays readable
\* (Acceptor.hpp:65).
AnsweredAfterRace ==
  (<>[][~OpenElsewhere]_vars) =>
    \A p \in Peer : p \in ToSet(backlog) ~> p \notin ToSet(backlog)
=============================================================================
