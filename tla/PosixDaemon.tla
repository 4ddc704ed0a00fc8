---------------------------- MODULE PosixDaemon ----------------------------
(***************************************************************************)
(* The poll loop of the daemon (gamessqd_posix.cpp) and the front ends'    *)
(* side of the connection (gamessq_posix_client.cpp), over a unix domain   *)
(* socket.                                                                 *)
(*                                                                         *)
(* The daemon's functions are cut at every system call at which a front    *)
(* end can get in between: the events of one poll are looked at while the  *)
(* clients go on, reads block, and an answer is written some time after    *)
(* its command was read.  A message is its type byte and then the rest of  *)
(* it ("body": length and text).                                           *)
(*                                                                         *)
(* The queue is abstracted to one bit, what CheckQueue returns: GamessQ-   *)
(* Server.tla is the module about it.                                      *)
(***************************************************************************)
EXTENDS Naturals, Sequences, FiniteSets, SequencesExt

CONSTANTS
  Session,      \* the connections; each is made at most once
  InitialFds,   \* the size of mFds at first: 10 in the code
  MaxCalls,     \* bound: calls of one session
  ClientsMayDie \* a front end may be killed at any moment

ASSUME SessionAssumption == IsFiniteSet(Session)
ASSUME InitialFdsAssumption == InitialFds \in Nat \ {0}
ASSUME MaxCallsAssumption == MaxCalls \in Nat
ASSUME ClientsAssumption == ClientsMayDie \in BOOLEAN

Fd == 1 .. Cardinality(Session)
Nobody == "nobody"
ASSUME NobodyAssumption == Nobody \notin Session

(* "nval": the descriptor is not open, so poll reports it at once.         *)
Revents == {"none", "in", "hup", "nval"}

VARIABLES
  pc,         \* where the daemon is
  mFds,       \* the connections it polls: mFds[1 ..] of the code
  mMaxNumFds, \* the size of the array, the listening socket included
  incoming,   \* mFds[0].revents & POLLIN
  i,          \* ReadCommands' index into mFds
  kind,       \* the type byte it read
  newsock,    \* HandleConnection's new descriptor
  table,      \* the daemon's open descriptors and whose they are
  work,       \* whether jobs are waiting, running or paused
  backlog,    \* connections not accepted yet
  client,     \* where the front end of each session is
  toServer,   \* what it wrote and the daemon has not read
  toClient,   \* what the daemon wrote and it has not read
  calls,      \* calls it has made
  served      \* calls the daemon has carried out

loop == <<pc, mFds, mMaxNumFds, incoming, i, kind, newsock, table>>
front == <<backlog, client, toServer, toClient, calls>>
vars == <<loop, work, front, served>>

Places == {"poll", "scan", "type", "body", "handle", "reply", "accept",
           "verify", "leaving", "exited", "killed"}
ClientStates == {"off", "connecting", "hello", "ready", "sending", "calling",
                 "closed"}

TypeOK ==
  /\ pc \in Places
  /\ mFds \in Seq([fd : Fd, revents : Revents])
  /\ mMaxNumFds \in Nat /\ Len(mFds) + 1 <= mMaxNumFds
  /\ incoming \in BOOLEAN
  /\ i \in 0 .. Len(mFds) + 1
  /\ kind \in {"command", "request"}
  /\ newsock \in Fd \cup {0}
  /\ table \in [Fd -> Session \cup {Nobody}]
  /\ work \in BOOLEAN
  /\ backlog \in Seq(Session)
  /\ client \in [Session -> ClientStates]
  /\ toServer \in [Session -> Seq({"connected", "command", "request", "body"})]
  /\ toClient \in [Session -> Seq({"verify", "answer"})]
  /\ calls \in [Session -> 0 .. MaxCalls]
  /\ served \in [Session -> 0 .. MaxCalls]

Init ==
  /\ pc = "poll"
  /\ mFds = <<>>
  /\ mMaxNumFds = InitialFds
  /\ incoming = FALSE
  /\ i = 0
  /\ kind = "command"
  /\ newsock = 0
  /\ table = [f \in Fd |-> Nobody]
  /\ work \in BOOLEAN
  /\ backlog = <<>>
  /\ client = [s \in Session |-> "off"]
  /\ toServer = [s \in Session |-> <<>>]
  /\ toClient = [s \in Session |-> <<>>]
  /\ calls = [s \in Session |-> 0]
  /\ served = [s \in Session |-> 0]

Gone == pc \in {"exited", "killed"}

-----------------------------------------------------------------------------
(* OnRun: one poll of at most 500 ms, and CheckQueue only when it timed    *)
(* out with nothing to do.                                                 *)

Event(f) ==
  LET s == table[f] IN
  CASE s = Nobody -> "nval"
    [] s # Nobody /\ client[s] = "closed" -> "hup"
    [] s # Nobody /\ client[s] # "closed" /\ toServer[s] # <<>> -> "in"
    [] OTHER -> "none"

Ready ==
  backlog # <<>> \/ \E k \in DOMAIN mFds : Event(mFds[k].fd) # "none"

PollActivity ==
  /\ pc = "poll" /\ Ready
  /\ mFds' = [k \in DOMAIN mFds |->
                [fd |-> mFds[k].fd, revents |-> Event(mFds[k].fd)]]
  /\ incoming' = (backlog # <<>>)
  /\ i' = 1
  /\ pc' = "scan"
  /\ UNCHANGED <<mMaxNumFds, kind, newsock, table, work, front, served>>

PollTimeout_QueueOnly ==
  /\ pc = "poll" /\ ~Ready
  /\ work' \in {work, FALSE}
  /\ pc' = IF work' THEN "poll" ELSE "leaving"
  /\ UNCHANGED <<mFds, mMaxNumFds, incoming, i, kind, newsock, table, front,
                 served>>
PollTimeout_CountsListener ==
  /\ pc = "poll" /\ ~Ready
  /\ work' \in {work, FALSE}
  /\ pc' = IF work' \/ Len(mFds) + 1 > 0 THEN "poll" ELSE "leaving"
  /\ UNCHANGED <<mFds, mMaxNumFds, incoming, i, kind, newsock, table, front,
                 served>>
PollTimeout ==
  /\ pc = "poll" /\ ~Ready
  /\ work' \in {work, FALSE}
  /\ pc' = IF work' \/ mFds # <<>> THEN "poll" ELSE "leaving"
  /\ UNCHANGED <<mFds, mMaxNumFds, incoming, i, kind, newsock, table, front,
                 served>>

Leave ==
  /\ pc = "leaving"
  /\ pc' = "exited"
  /\ UNCHANGED <<mFds, mMaxNumFds, incoming, i, kind, newsock, table, work,
                 front, served>>

-----------------------------------------------------------------------------
(* ReadCommands: the connections in turn, by the events poll reported.     *)

Current == mFds[i]
Peer == table[Current.fd]
Scanning == pc = "scan" /\ i <= Len(mFds)

HangUp_KeepsLast ==
  /\ Scanning /\ Current.revents = "hup"
  /\ table' = [table EXCEPT ![Current.fd] = Nobody]
  /\ mFds' = IF i = Len(mFds) THEN Front(mFds)
             ELSE Front([mFds EXCEPT ![i] = mFds[i + 1]])
  /\ UNCHANGED <<pc, mMaxNumFds, incoming, i, kind, newsock, work, front,
                 served>>
HangUp_Unclosed ==
  /\ Scanning /\ Current.revents = "hup"
  /\ mFds' = RemoveAt(mFds, i)
  /\ UNCHANGED <<pc, mMaxNumFds, incoming, i, kind, newsock, table, work,
                 front, served>>
HangUp_KeepsEntry ==
  /\ Scanning /\ Current.revents = "hup"
  /\ table' = [table EXCEPT ![Current.fd] = Nobody]
  /\ i' = i + 1
  /\ UNCHANGED <<pc, mFds, mMaxNumFds, incoming, kind, newsock, work, front,
                 served>>
HangUp ==
  /\ Scanning /\ Current.revents = "hup"
  /\ table' = [table EXCEPT ![Current.fd] = Nobody]
  /\ mFds' = RemoveAt(mFds, i)
  /\ UNCHANGED <<pc, mMaxNumFds, incoming, i, kind, newsock, work, front,
                 served>>

Skip ==
  /\ Scanning /\ Current.revents \in {"none", "nval"}
  /\ i' = i + 1
  /\ UNCHANGED <<pc, mFds, mMaxNumFds, incoming, kind, newsock, table, work,
                 front, served>>

Attend ==
  /\ Scanning /\ Current.revents = "in"
  /\ pc' = "type"
  /\ UNCHANGED <<mFds, mMaxNumFds, incoming, i, kind, newsock, table, work,
                 front, served>>

EndScan ==
  /\ pc = "scan" /\ i > Len(mFds)
  /\ pc' = IF incoming THEN "accept" ELSE "poll"
  /\ i' = 0
  /\ UNCHANGED <<mFds, mMaxNumFds, incoming, kind, newsock, table, work,
                 front, served>>

(* A read blocks until there is something to read or the peer has closed.  *)
Readable(s) == s # Nobody /\ toServer[s] # <<>>
AtEof(s) == s = Nobody \/ (toServer[s] = <<>> /\ client[s] = "closed")

ReadType ==
  /\ pc = "type" /\ Readable(Peer)
  /\ kind' = Head(toServer[Peer])
  /\ toServer' = [toServer EXCEPT ![Peer] = Tail(@)]
  /\ pc' = "body"
  /\ UNCHANGED <<mFds, mMaxNumFds, incoming, i, newsock, table, work,
                 backlog, client, toClient, calls, served>>

ReadBody_AnswersFirst ==
  /\ pc = "body" /\ Readable(Peer)
  /\ toServer' = [toServer EXCEPT ![Peer] = Tail(@)]
  /\ toClient' = [toClient EXCEPT ![Peer] = Append(@, "answer")]
  /\ pc' = "handle"
  /\ UNCHANGED <<mFds, mMaxNumFds, incoming, i, kind, newsock, table, work,
                 backlog, client, calls, served>>
ReadBody ==
  /\ pc = "body" /\ Readable(Peer)
  /\ toServer' = [toServer EXCEPT ![Peer] = Tail(@)]
  /\ pc' = "handle"
  /\ UNCHANGED <<mFds, mMaxNumFds, incoming, i, kind, newsock, table, work,
                 backlog, client, toClient, calls, served>>

(* The results of read are not looked at: at the end of the stream type,   *)
(* length and text are whatever the stack and the heap held.  The daemon   *)
(* runs out of memory, carries out garbage and is killed when it answers,  *)
(* or takes the message for neither a command nor a request.               *)
ReadGarbage ==
  /\ pc \in {"type", "body"} /\ AtEof(Peer)
  /\ work' \in BOOLEAN
  /\ \/ pc' = "killed" /\ i' = i
     \/ pc' = "scan" /\ i' = i + 1
  /\ UNCHANGED <<mFds, mMaxNumFds, incoming, kind, newsock, table, front,
                 served>>

(* OnExecute and OnRequest; only a command changes the queue.              *)
Handle ==
  /\ pc = "handle"
  /\ served' = [served EXCEPT ![Peer] = @ + 1]
  /\ work' \in IF kind = "command" THEN BOOLEAN ELSE {work}
  /\ pc' = "reply"
  /\ UNCHANGED <<mFds, mMaxNumFds, incoming, i, kind, newsock, table, front>>

(* Writing to a front end that is gone raises SIGPIPE, which is left at    *)
(* its default.                                                            *)
Reply_CommandsOnly ==
  /\ pc = "reply"
  /\ \/ /\ client[Peer] = "closed"
        /\ pc' = "killed"
        /\ UNCHANGED <<i, toClient>>
     \/ /\ client[Peer] # "closed"
        /\ toClient' = IF kind = "command"
                       THEN [toClient EXCEPT ![Peer] = Append(@, "answer")]
                       ELSE toClient
        /\ pc' = "scan" /\ i' = i + 1
  /\ UNCHANGED <<mFds, mMaxNumFds, incoming, kind, newsock, table, work,
                 backlog, client, toServer, calls, served>>
Reply ==
  /\ pc = "reply"
  /\ \/ /\ client[Peer] = "closed"
        /\ pc' = "killed"
        /\ UNCHANGED <<i, toClient>>
     \/ /\ client[Peer] # "closed"
        /\ toClient' = [toClient EXCEPT ![Peer] = Append(@, "answer")]
        /\ pc' = "scan" /\ i' = i + 1
  /\ UNCHANGED <<mFds, mMaxNumFds, incoming, kind, newsock, table, work,
                 backlog, client, toServer, calls, served>>

-----------------------------------------------------------------------------
(* HandleConnection: accept, the exchange of one byte each way, and a      *)
(* place in mFds.                                                          *)

Accept ==
  /\ pc = "accept"
  /\ newsock' = CHOOSE f \in Fd :                   \* the lowest free one
                  /\ table[f] = Nobody
                  /\ \A g \in Fd : table[g] = Nobody => f <= g
  /\ table' = [table EXCEPT ![newsock'] = Head(backlog)]
  /\ backlog' = Tail(backlog)
  /\ pc' = "verify"
  /\ UNCHANGED <<mFds, mMaxNumFds, incoming, i, kind, work, client, toServer,
                 toClient, calls, served>>

(* "add the new socket to mFds", twice as large when it is full.           *)
AddFd(f) ==
  /\ mFds' = Append(mFds, [fd |-> f, revents |-> "none"])
  /\ mMaxNumFds' = IF Len(mFds) + 1 = mMaxNumFds THEN 2 * mMaxNumFds
                   ELSE mMaxNumFds

Verify ==
  /\ pc = "verify"
  /\ LET s == table[newsock] IN
     /\ Readable(s)
     /\ toServer' = [toServer EXCEPT ![s] = Tail(@)]
     /\ \/ /\ client[s] = "closed"
           /\ pc' = "killed"
           /\ UNCHANGED <<mFds, mMaxNumFds, newsock, toClient>>
        \/ /\ client[s] # "closed"
           /\ toClient' = [toClient EXCEPT ![s] = Append(@, "verify")]
           /\ AddFd(newsock)
           /\ newsock' = 0
           /\ pc' = "poll"
  /\ UNCHANGED <<incoming, i, kind, table, work, backlog, client, calls,
                 served>>

(* The front end closed without a word.  The byte is not initialised: it   *)
(* may happen to be SOCK_CONNECTED, and answering kills the daemon; if not *)
(* the descriptor is closed, and takes a place in mFds all the same.       *)
VerifyEof ==
  /\ pc = "verify" /\ AtEof(table[newsock])
  /\ \/ /\ pc' = "killed"
        /\ UNCHANGED <<mFds, mMaxNumFds, newsock, table>>
     \/ /\ table' = [table EXCEPT ![newsock] = Nobody]
        /\ AddFd(newsock)
        /\ newsock' = 0
        /\ pc' = "poll"
  /\ UNCHANGED <<incoming, i, kind, work, front, served>>

Daemon ==
  \/ PollActivity \/ PollTimeout \/ Leave
  \/ HangUp \/ Skip \/ Attend \/ EndScan
  \/ ReadType \/ ReadBody \/ ReadGarbage \/ Handle \/ Reply
  \/ Accept \/ Verify \/ VerifyEof

-----------------------------------------------------------------------------
(* GamessQPosixClient.                                                     *)

Moves(s, from, to) == client[s] = from /\ client' = [client EXCEPT ![s] = to]
Writes(s, what) == toServer' = [toServer EXCEPT ![s] = Append(@, what)]
Reads(s, what) ==
  /\ toClient[s] # <<>> /\ Head(toClient[s]) = what
  /\ toClient' = [toClient EXCEPT ![s] = Tail(@)]

Connect(s) ==
  /\ ~Gone
  /\ Moves(s, "off", "connecting")
  /\ backlog' = Append(backlog, s)
  /\ UNCHANGED <<loop, work, toServer, toClient, calls, served>>

SayConnected(s) ==
  /\ ~Gone
  /\ Moves(s, "connecting", "hello")
  /\ Writes(s, "connected")
  /\ UNCHANGED <<loop, work, backlog, toClient, calls, served>>

Connected(s) ==
  /\ Moves(s, "hello", "ready")
  /\ Reads(s, "verify")
  /\ UNCHANGED <<loop, work, backlog, toServer, calls, served>>

(* Execute and Request: IsConnected, then the message, then the answer.    *)
Begin(s) ==
  /\ ~Gone
  /\ calls[s] < MaxCalls
  /\ Moves(s, "ready", "sending")
  /\ \E k \in {"command", "request"} : Writes(s, k)
  /\ calls' = [calls EXCEPT ![s] = @ + 1]
  /\ UNCHANGED <<loop, work, backlog, toClient, served>>

SendBody(s) ==
  /\ ~Gone
  /\ Moves(s, "sending", "calling")
  /\ Writes(s, "body")
  /\ UNCHANGED <<loop, work, backlog, toClient, calls, served>>

Return(s) ==
  /\ Moves(s, "calling", "ready")
  /\ Reads(s, "answer")
  /\ UNCHANGED <<loop, work, backlog, toServer, calls, served>>

(* Whatever the front end was waiting for, the daemon is gone: Connect     *)
(* returns false, a read ends, a write raises SIGPIPE.                     *)
Fail(s) ==
  /\ Gone
  /\ client[s] \in {"connecting", "hello", "sending", "calling"}
  /\ toClient[s] = <<>>
  /\ client' = [client EXCEPT ![s] = "closed"]
  /\ UNCHANGED <<loop, work, backlog, toServer, toClient, calls, served>>

Close(s) ==
  /\ Moves(s, "ready", "closed")
  /\ UNCHANGED <<loop, work, backlog, toServer, toClient, calls, served>>

Die(s) ==
  /\ ClientsMayDie
  /\ client[s] \notin {"off", "closed"}
  /\ client' = [client EXCEPT ![s] = "closed"]
  /\ UNCHANGED <<loop, work, backlog, toServer, toClient, calls, served>>

(* What a front end does once it has begun; connecting, calling and        *)
(* closing are the user's.                                                 *)
Proceed(s) ==
  SayConnected(s) \/ Connected(s) \/ SendBody(s) \/ Return(s) \/ Fail(s)

FrontEnd(s) == Proceed(s) \/ Connect(s) \/ Begin(s) \/ Close(s) \/ Die(s)

Next == Daemon \/ \E s \in Session : FrontEnd(s)

Spec == Init /\ [][Next]_vars

FairSpec ==
  /\ Spec
  /\ WF_vars(Daemon)
  /\ \A s \in Session : WF_vars(Proceed(s))

-----------------------------------------------------------------------------
(* Safety.                                                                 *)

InSession(s) == client[s] \in {"ready", "sending", "calling"}

(* A front end whose connection was verified is among those the daemon     *)
(* polls, whoever hung up before it and however often the array grew: it   *)
(* is never left waiting for an answer nobody is going to write.           *)
ConnectedIsPolled ==
  ~Gone => \A s \in Session :
             InSession(s) => \E k \in DOMAIN mFds : table[mFds[k].fd] = s

(* The daemon leaves its loop only when it serves nobody.                  *)
NobodyAbandoned ==
  pc \in {"leaving", "exited"} => \A s \in Session : ~InSession(s)

(* As long as front ends are not killed, mFds is exactly the descriptors   *)
(* the daemon has accepted: none closed, none twice, none missing; and they*)
(* fit into the array beside the listening one.                            *)
FdsMirrorTable ==
  /\ Len(mFds) + 1 <= mMaxNumFds
  /\ \A k, l \in DOMAIN mFds : mFds[k].fd = mFds[l].fd => k = l
  /\ {mFds[k].fd : k \in DOMAIN mFds}
       = {f \in Fd : table[f] # Nobody} \ {newsock}

(* The connection keeps the promise of CallService: a call is carried out  *)
(* exactly once before it returns, and calls of one session are not taken  *)
(* for another's.  Under FairSpec every call returns.                      *)
PhaseOf(s) ==
  CASE client[s] = "closed" -> "ended"
    [] client[s] \in {"sending", "calling"} ->
         IF served[s] = calls[s] THEN "done" ELSE "called"
    [] OTHER -> "idle"

Service == INSTANCE CallService WITH phase <- [s \in Session |-> PhaseOf(s)]
ImplementsService == Service!Spec
ExactlyOnce == Service!Safety

-----------------------------------------------------------------------------
(* Liveness, under FairSpec and with front ends that are not killed.       *)

(* When the front ends fall silent the loop gets back to its poll and      *)
(* finds nothing, so that CheckQueue runs every 500 ms (or the daemon has  *)
(* left).                                                                  *)
Silent == \A s \in Session : client[s] \in {"off", "ready", "closed"}
QuietQueueIsChecked == <>[]Silent => <>[](Gone \/ (pc = "poll" /\ ~Ready))

(* gamessqd_posix.cpp:47-49: "If GamessQServer::CheckQueue() returns false,*)
(* and there are no client connections, the while loop breaks, and the     *)
(* program quits."                                                         *)
Unused == ~work /\ \A s \in Session : client[s] \in {"off", "closed"}
QuitsWhenUnused == <>[]Unused => <>Gone
=============================================================================
