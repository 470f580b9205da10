------------------------------ MODULE ServerLife ------------------------------
(***************************************************************************)
(* A TcpServer's own life: its constructor makes the acceptor and then the  *)
(* pool of io loops, start() listens, and its destructor ends the pool and  *)
(* then the acceptor, whose member comes first.  The thread of the base     *)
(* loop does all of that and handleRead(); the io threads open and close    *)
(* descriptors of the acceptor's table while they are in their loops.       *)
(***************************************************************************)
EXTENDS LoopPool, Sequences

CONSTANTS NumFds, Peer   \* as in Acceptor

ASSUME NumFdsAssumption == NumFds \in Nat \ {0}

VARIABLES
  table,    \* the acceptor's owner
  idleFd, backlog, arrived, at, raced

acceptorVars == <<table, idleFd, backlog, arrived, at, raced>>
lifeVars == <<poolVars, acceptorVars>>

Listener == INSTANCE Acceptor WITH owner <- table

\* TcpServer::TcpServer(), before the pool's threads begin.
LifeInit == PoolInit /\ Listener!Init

\* The constructor has returned, start() was called, and the destructor was not.
Listening == builder = "ready"

\* The destructor begins on the base loop's thread, outside handleRead().
PoolStep ==
  /\ PoolNext
  /\ at = "wait" \/ builder' = builder
  /\ UNCHANGED acceptorVars

Serve == Listening /\ Listener!HandleRead /\ UNCHANGED poolVars

\* The socket listens until ~Acceptor(), though the base loop serves it no more once
\* the destructor has begun.
PeerConnects ==
  /\ builder \in {"ready", "quitting"}
  /\ \E p \in Peer : Listener!Connect(p)
  /\ UNCHANGED poolVars

\* An io thread in its loop.
IoThread ==
  /\ \E i \in Loop : loops[i] = "counted"
  /\ Listener!OpenElsewhere \/ \E f \in 1..NumFds : Listener!CloseElsewhere(f)
  /\ UNCHANGED poolVars

\* ~TcpServer(), the acceptor's turn.
DestroyAcceptor == owner = "joined" /\ Listener!Destroy /\ UNCHANGED poolVars

LifeNext == PoolStep \/ Serve \/ PeerConnects \/ IoThread \/ DestroyAcceptor

\* Nothing is asked of the peers, of what the io threads open and close, or that the
\* destructor be called.
LifeSpec ==
  /\ LifeInit /\ [][LifeNext]_lifeVars
  /\ PoolFairness /\ WF_lifeVars(Serve) /\ WF_lifeVars(DestroyAcceptor)

-----------------------------------------------------------------------------
(* Properties, beside those of LoopPool. *)

\* Among the descriptors that io threads open and close, and to the end of the
\* destructor, the acceptor closes only its own spare one, and loses none.
SpareIsOwn == Listener!SpareIsOwn

\* Whatever descriptors are left, a connection attempt is accepted or refused, at
\* the latest by the destructor, unless an io thread took the spare descriptor.
Answered == Listener!Answered
=============================================================================
