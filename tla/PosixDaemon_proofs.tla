------------------------- MODULE PosixDaemon_proofs -------------------------
(***************************************************************************)
(* Proofs about the connection between front ends and the daemon, for any  *)
(* number of sessions and calls, front ends killed at any moment included: *)
(* a verified front end is among those polled, the daemon leaves only when *)
(* it serves nobody, and each call is carried out exactly once before it   *)
(* returns.  While no front end is killed, mFds is exactly the descriptors *)
(* the daemon has accepted.                                                *)
(*                                                                         *)
(* The argument follows one message at a time: for every session, the      *)
(* state of the front end and what lies in the two directions of its       *)
(* socket determine each other, up to where the daemon is with it.         *)
(***************************************************************************)
EXTENDS PosixDaemon, SequenceTheorems, FiniteSetTheorems,
        WellFoundedInduction, TLAPS

-----------------------------------------------------------------------------
(* Sequences of one and two messages, and RemoveAt.                        *)

(* What reading and writing one message does to the shortest streams.      *)
LEMMA OneMessage ==
  ASSUME NEW k
  PROVE  /\ Head(<<k>>) = k /\ Tail(<<k>>) = <<>>
         /\ Append(<<>>, k) = <<k>> /\ <<k>> # <<>>
<1>1. Head(<<k>>) = k
  OBVIOUS
<1>2. Tail(<<k>>) = <<>>
  OBVIOUS
<1>3. Append(<<>>, k) = <<k>>
  OBVIOUS
<1>4. <<k>> # <<>>
  OBVIOUS
<1> QED
  BY <1>1, <1>2, <1>3, <1>4

(* The same for a type byte with its body behind it.                       *)
LEMMA TwoMessages ==
  ASSUME NEW k, NEW m
  PROVE  /\ Head(<<k, m>>) = k /\ Tail(<<k, m>>) = <<m>>
         /\ Append(<<k>>, m) = <<k, m>> /\ <<k, m>> # <<>>
<1>1. Head(<<k, m>>) = k
  OBVIOUS
<1>2. Tail(<<k, m>>) = <<m>>
  OBVIOUS
<1>3. Append(<<k>>, m) = <<k, m>>
  <2>1. /\ <<k>> \in Seq({k, m}) /\ Len(<<k>>) = 1 /\ <<k>>[1] = k
        /\ <<k, m>> \in Seq({k, m}) /\ Len(<<k, m>>) = 2
        /\ <<k, m>>[1] = k /\ <<k, m>>[2] = m
    OBVIOUS
  <2>2. /\ Append(<<k>>, m) \in Seq({k, m}) /\ Len(Append(<<k>>, m)) = 2
        /\ Append(<<k>>, m)[1] = k /\ Append(<<k>>, m)[2] = m
    BY ONLY <2>1, AppendProperties
  <2>3. \A x \in 1 .. Len(Append(<<k>>, m)) : Append(<<k>>, m)[x] = <<k, m>>[x]
    BY ONLY <2>1, <2>2
  <2> QED
    BY ONLY <2>1, <2>2, <2>3, SeqEqual
<1>4. <<k, m>> # <<>>
  OBVIOUS
<1> QED
  BY <1>1, <1>2, <1>3, <1>4

(* Sequences with one domain have one length.                              *)
LEMMA SameInterval ==
  ASSUME NEW a \in Nat, NEW b \in Nat, 1 .. a = 1 .. b
  PROVE  a = b
<1>1. ASSUME a < b PROVE FALSE
  <2>1. b \in 1 .. b /\ b \notin 1 .. a
    BY <1>1
  <2> QED
    BY <2>1
<1>2. ASSUME b < a PROVE FALSE
  <2>1. a \in 1 .. a /\ a \notin 1 .. b
    BY <1>2
  <2> QED
    BY <2>1
<1> QED
  BY <1>1, <1>2

(* RemoveAt takes one element out and moves the later ones up by one.      *)
LEMMA RemoveAtProperties ==
  ASSUME NEW S, NEW s \in Seq(S), NEW n \in 1 .. Len(s)
  PROVE  /\ RemoveAt(s, n) \in Seq(S)
         /\ Len(RemoveAt(s, n)) = Len(s) - 1
         /\ \A k \in 1 .. Len(s) - 1 :
              RemoveAt(s, n)[k] = IF k < n THEN s[k] ELSE s[k + 1]
<1> DEFINE u == SubSeq(s, 1, n - 1)
           v == SubSeq(s, n + 1, Len(s))
<1>0. Len(s) \in Nat /\ \A k \in 1 .. Len(s) : s[k] \in S
  BY LenProperties, ElementOfSeq
<1>1. /\ u \in Seq(S) /\ Len(u) = n - 1
      /\ \A k \in 1 .. n - 1 : u[k] = s[k]
  BY <1>0, SubSeqProperties
<1>2. /\ v \in Seq(S) /\ Len(v) = Len(s) - n
      /\ \A k \in 1 .. Len(s) - n : v[k] = s[n + k]
  BY <1>0, SubSeqProperties
<1> HIDE DEF u, v
<1>3. /\ u \o v \in Seq(S) /\ Len(u \o v) = Len(u) + Len(v)
      /\ \A k \in 1 .. Len(u) + Len(v) :
           (u \o v)[k] = IF k <= Len(u) THEN u[k] ELSE v[k - Len(u)]
  BY ONLY <1>1, <1>2, ConcatProperties
<1>4. RemoveAt(s, n) = u \o v
  BY DEF RemoveAt, u, v
<1>5. Len(u) + Len(v) = Len(s) - 1
  BY <1>0, <1>1, <1>2
<1>6. ASSUME NEW k \in 1 .. Len(s) - 1
      PROVE  (u \o v)[k] = IF k < n THEN s[k] ELSE s[k + 1]
  <2>1. CASE k < n
    BY <1>0, <1>1, <1>3, <1>5, <2>1
  <2>2. CASE ~(k < n)
    <3>1. /\ k - Len(u) \in 1 .. Len(s) - n
          /\ n + (k - Len(u)) = k + 1
          /\ ~(k <= Len(u))
      BY <1>0, <1>1, <2>2
    <3>2. (u \o v)[k] = v[k - Len(u)]
      BY <1>3, <1>5, <3>1
    <3> QED
      BY <1>0, <1>2, <2>2, <3>1, <3>2
  <2> QED
    BY <1>0, <2>1, <2>2
<1> QED
  BY <1>3, <1>4, <1>5, <1>6

-----------------------------------------------------------------------------
(* The invariant.                                                          *)

Scans == {"scan", "type", "body", "handle", "reply"}
Kind == {"command", "request"}

InHand(s) == pc \in {"body", "handle", "reply"} /\ Peer = s

(* Connected, but the first byte has not been read yet.                    *)
Unmet(s) ==
  \/ \E b \in DOMAIN backlog : backlog[b] = s
  \/ pc = "verify" /\ table[newsock] = s

Polled(s) == pc = "killed" \/ \E k \in DOMAIN mFds : table[mFds[k].fd] = s

(* Its first byte was read, and the daemon polls it.                       *)
Met(s) == Polled(s) /\ ~Unmet(s)

(* A session waits to be accepted, or has one descriptor, or neither.      *)
Descriptors ==
  /\ \A f, g \in Fd : table[f] = table[g] => table[f] = Nobody \/ f = g
  /\ \A a, b \in DOMAIN backlog : backlog[a] = backlog[b] => a = b
  /\ \A b \in DOMAIN backlog, f \in Fd : table[f] # backlog[b]
  /\ \A s \in Session : client[s] = "off" =>
       /\ \A b \in DOMAIN backlog : backlog[b] # s
       /\ \A f \in Fd : table[f] # s

(* What the daemon relies on where it is: the index of the connection it   *)
(* reads from, a connection to accept, and that a hang-up it was told of   *)
(* is one still.                                                           *)
Loop ==
  /\ pc = "verify" => newsock \in Fd /\ table[newsock] # Nobody
  /\ pc \in Scans => i >= 1 /\ (incoming => backlog # <<>>)
  /\ pc \in Scans \ {"scan"} => i <= Len(mFds)
  /\ pc \in {"body", "handle", "reply"} => Peer # Nobody
  /\ pc = "accept" => backlog # <<>>
  /\ pc \in {"leaving", "exited"} => mFds = <<>>
  /\ pc \in Scans => \A k \in DOMAIN mFds :
       mFds[k].revents = "hup" =>
         table[mFds[k].fd] = Nobody \/ client[table[mFds[k].fd]] = "closed"

Outstanding(s) == calls[s] = served[s] + 1
Answered(s) == calls[s] = served[s]
Silence(s) == toServer[s] = <<>> /\ toClient[s] = <<>>

(* The two directions of a socket, by what its front end is at: nothing is *)
(* sent before the connection is accepted but the first byte; a message    *)
(* lies there, or the daemon has its type byte, or all of it, or has       *)
(* carried it out, or its answer lies there.                               *)
Greeting(s) ==
  /\ calls[s] = 0 /\ served[s] = 0 /\ ~InHand(s)
  /\ \/ toServer[s] = <<"connected">> /\ toClient[s] = <<>> /\ Unmet(s)
     \/ toServer[s] = <<>> /\ toClient[s] = <<"verify">> /\ Met(s)

Sending(s) ==
  /\ toClient[s] = <<>> /\ Outstanding(s) /\ Met(s)
  /\ \/ ~InHand(s) /\ \E k \in Kind : toServer[s] = <<k>>
     \/ InHand(s) /\ pc = "body" /\ toServer[s] = <<>>

Calling(s) ==
  /\ Met(s)
  /\ \/ /\ ~InHand(s) /\ toClient[s] = <<>> /\ Outstanding(s)
        /\ \E k \in Kind : toServer[s] = <<k, "body">>
     \/ /\ InHand(s) /\ pc = "body" /\ toServer[s] = <<"body">>
        /\ toClient[s] = <<>> /\ Outstanding(s)
     \/ InHand(s) /\ pc = "handle" /\ Silence(s) /\ Outstanding(s)
     \/ InHand(s) /\ pc = "reply" /\ Silence(s) /\ Answered(s)
     \/ /\ ~InHand(s) /\ toServer[s] = <<>> /\ toClient[s] = <<"answer">>
        /\ Answered(s)

(* A front end that is gone may have been at anything; nothing of what it  *)
(* wrote is carried out twice.                                             *)
Closed(s) ==
  \/ /\ toServer[s] = <<"connected">> /\ ~InHand(s) /\ served[s] <= calls[s]
     /\ Unmet(s) \/ pc = "killed"
  \/ /\ toServer[s] = <<>> /\ InHand(s) /\ pc \in {"body", "handle"}
     /\ served[s] < calls[s]
  \/ toServer[s] = <<>> /\ (InHand(s) => pc = "reply") /\ served[s] <= calls[s]
  \/ /\ toServer[s] = <<"body">> /\ InHand(s) /\ pc = "body"
     /\ served[s] < calls[s]
  \/ /\ \E k \in Kind : toServer[s] \in {<<k>>, <<k, "body">>}
     /\ ~InHand(s) /\ ~Unmet(s) /\ served[s] < calls[s]

Wire(s) ==
  /\ client[s] \in {"off", "connecting"} =>
       Silence(s) /\ calls[s] = 0 /\ served[s] = 0 /\ ~InHand(s)
  /\ client[s] = "connecting" => Unmet(s)
  /\ client[s] = "hello" => Greeting(s)
  /\ client[s] = "ready" => Silence(s) /\ Answered(s) /\ ~InHand(s) /\ Met(s)
  /\ client[s] = "sending" => Sending(s)
  /\ client[s] = "calling" => Calling(s)
  /\ client[s] = "closed" => Closed(s)

Wires == \A s \in Session : Wire(s)

DaemonInv == TypeOK /\ Descriptors /\ Loop /\ Wires

-----------------------------------------------------------------------------
(* Types.                                                                  *)

(* There is a descriptor left for a connection that waits: as many as      *)
(* sessions exist, and the one that waits has none.                        *)
LEMMA FreeDescriptor ==
  ASSUME TypeOK, Descriptors, backlog # <<>>
  PROVE  \E f \in Fd : /\ table[f] = Nobody
                       /\ \A g \in Fd : table[g] = Nobody => f <= g
<1> DEFINE s == Head(backlog)
           S == Session \ {s}
<1>1. 1 \in DOMAIN backlog /\ s = backlog[1] /\ s \in Session
  BY EmptySeq, ElementOfSeq, LenProperties DEF TypeOK
<1>2. /\ IsFiniteSet(Session) /\ Cardinality(Session) \in Nat
      /\ IsFiniteSet(S) /\ Cardinality(S) = Cardinality(Session) - 1
  BY <1>1, SessionAssumption, FS_RemoveElement, FS_CardinalityType
<1>3. IsFiniteSet(Fd) /\ Cardinality(Fd) = Cardinality(Session)
  BY <1>2, FS_Interval DEF Fd
<1>4. \E f \in Fd : table[f] = Nobody
  <2> SUFFICES ASSUME \A f \in Fd : table[f] # Nobody PROVE FALSE
    OBVIOUS
  <2>1. table \in [Fd -> S]
    BY <1>1 DEF TypeOK, Descriptors
  <2>2. \E f, g \in Fd : f # g /\ table[f] = table[g]
    BY <1>2, <1>3, <2>1, FS_PigeonHole
  <2> QED
    BY <2>2 DEF Descriptors
<1>5. \E f \in Fd : table[f] = Nobody /\ \A g \in Fd : table[g] = Nobody => f <= g
  <2> DEFINE N == {f \in Fd : table[f] = Nobody}
  <2>1. N \subseteq Nat /\ N # {}
    BY <1>2, <1>4 DEF Fd
  <2>2. PICK f \in N : \A g \in N : <<g, f>> \notin OpToRel(<, Nat)
    BY <2>1, NatLessThanWellFounded, WFMin
  <2>3. \A g \in N : ~(g < f)
    BY <2>1, <2>2 DEF OpToRel
  <2>4. \A g \in N : f <= g
    BY <2>1, <2>3
  <2> QED
    BY <2>4
<1> QED
  BY <1>5

(* An element of mFds.                                                     *)
LEMMA Entry ==
  ASSUME TypeOK
  PROVE  /\ Len(mFds) \in Nat /\ DOMAIN mFds = 1 .. Len(mFds)
         /\ \A k \in DOMAIN mFds : mFds[k].fd \in Fd
<1> DEFINE E == [fd : Fd, revents : Revents]
<1>1. mFds \in Seq(E)
  BY DEF TypeOK
<1> HIDE DEF E
<1>2. /\ Len(mFds) \in Nat /\ DOMAIN mFds = 1 .. Len(mFds)
      /\ \A k \in 1 .. Len(mFds) : mFds[k] \in E
  BY ONLY <1>1, LenProperties, ElementOfSeq
<1> QED
  BY <1>2 DEF E

(* The daemon has in hand only what a front end that has begun a call sent,*)
(* and before the call is carried out one more was called than served.     *)
LEMMA HandledWasCalled ==
  ASSUME DaemonInv, NEW s \in Session, InHand(s)
  PROVE  /\ client[s] \in {"sending", "calling", "closed"}
         /\ pc \in {"body", "handle"} => served[s] < calls[s]
<1>1. Wire(s) /\ calls[s] \in Nat /\ served[s] \in Nat
  BY DEF DaemonInv, Wires, TypeOK
<1>2. client[s] \in ClientStates
  BY DEF DaemonInv, TypeOK
<1>3. client[s] \in {"sending", "calling", "closed"}
  BY <1>1, <1>2 DEF Wire, Greeting, ClientStates
<1>4. CASE client[s] = "sending"
  BY <1>1, <1>4 DEF Wire, Sending, Outstanding
<1>5. CASE client[s] = "calling"
  BY <1>1, <1>5 DEF Wire, Calling, Outstanding
<1>6. CASE client[s] = "closed"
  BY <1>1, <1>6 DEF Wire, Closed
<1> QED
  BY <1>3, <1>4, <1>5, <1>6

(* The stream of a session holds at most a message.                        *)
LEMMA Contents ==
  ASSUME DaemonInv, NEW s \in Session
  PROVE  \/ toServer[s] = <<>>
         \/ /\ toServer[s] = <<"connected">> /\ ~InHand(s)
            /\ Unmet(s) \/ pc = "killed"
         \/ toServer[s] = <<"body">> /\ InHand(s) /\ pc = "body"
         \/ ~InHand(s) /\ \E k \in Kind : toServer[s] \in {<<k>>, <<k, "body">>}
<1>1. Wire(s) /\ client[s] \in ClientStates
  BY DEF DaemonInv, Wires, TypeOK
<1> QED
  BY <1>1 DEF Wire, Greeting, Sending, Calling, Closed, Silence, ClientStates

(* A polled descriptor leads to a session that was met.                    *)
LEMMA PolledIsMet ==
  ASSUME DaemonInv, pc \in Scans, NEW k \in DOMAIN mFds, NEW s \in Session,
         table[mFds[k].fd] = s
  PROVE  ~Unmet(s)
<1>1. mFds[k].fd \in Fd
  BY Entry DEF DaemonInv
<1> QED
  BY <1>1 DEF DaemonInv, Descriptors, Unmet, Scans

(* What the daemon reads as a type byte is one.                            *)
LEMMA TypeIsRead ==
  ASSUME DaemonInv, pc = "type", Readable(Peer)
  PROVE  /\ Peer \in Session /\ ~InHand(Peer)
         /\ \E k \in Kind : toServer[Peer] \in {<<k>>, <<k, "body">>}
<1>1. i \in DOMAIN mFds /\ Current.fd \in Fd
  BY Entry DEF DaemonInv, TypeOK, Loop, Scans, Current
<1>2. Peer \in Session
  BY <1>1 DEF DaemonInv, TypeOK, Peer, Readable
<1>3. ~Unmet(Peer)
  BY <1>1, <1>2, PolledIsMet DEF Peer, Current, Scans
<1>4. ~InHand(Peer)
  BY DEF InHand
<1> QED
  BY <1>2, <1>3, <1>4, Contents DEF Readable

(* From the type byte to the answer the peer is a session.                 *)
LEMMA PeerInHand ==
  ASSUME DaemonInv, pc \in {"body", "handle", "reply"}
  PROVE  /\ i \in DOMAIN mFds /\ Current.fd \in Fd
         /\ Peer \in Session /\ InHand(Peer)
<1>1. i \in DOMAIN mFds
  BY Entry DEF DaemonInv, TypeOK, Loop, Scans
<1>2. Current.fd \in Fd
  BY <1>1, Entry DEF DaemonInv, Current
<1>3. Peer \in Session
  BY <1>2 DEF DaemonInv, TypeOK, Loop, Peer
<1> QED
  BY <1>1, <1>2, <1>3 DEF InHand

(* The daemon's steps keep the types.                                      *)
LEMMA DaemonTypes ==
  ASSUME DaemonInv, Daemon
  PROVE  TypeOK'
<1> USE NobodyAssumption DEF DaemonInv
<1>m. /\ mFds \in Seq([fd : Fd, revents : Revents])
      /\ Len(mFds) \in Nat /\ DOMAIN mFds = 1 .. Len(mFds)
      /\ \A k \in DOMAIN mFds : mFds[k].fd \in Fd
  BY Entry DEF TypeOK
<1>1. CASE PollActivity
  <2>1. \A k \in DOMAIN mFds : Event(mFds[k].fd) \in Revents
    BY DEF Event, Revents
  <2>2. /\ mFds' \in Seq([fd : Fd, revents : Revents])
        /\ Len(mFds') = Len(mFds)
    <3> DEFINE e(k) == [fd |-> mFds[k].fd, revents |-> Event(mFds[k].fd)]
    <3>1. \A k \in 1 .. Len(mFds) : e(k) \in [fd : Fd, revents : Revents]
      BY <1>m, <2>1
    <3>2. mFds' = [k \in 1 .. Len(mFds) |-> e(k)]
      BY <1>m, <1>1 DEF PollActivity
    <3> HIDE DEF e
    <3>3. mFds' \in Seq([fd : Fd, revents : Revents])
      BY <1>m, <3>1, <3>2, IsASeq
    <3>4. DOMAIN mFds' = 1 .. Len(mFds') /\ Len(mFds') \in Nat
      BY <3>3, LenProperties
    <3>5. DOMAIN mFds' = 1 .. Len(mFds)
      BY <3>2
    <3>6. Len(mFds') = Len(mFds)
      BY <1>m, <3>4, <3>5, SameInterval
    <3> QED
      BY <3>3, <3>6
  <2>3. i' \in 0 .. Len(mFds') + 1 /\ pc' \in Places /\ incoming' \in BOOLEAN
    BY <1>m, <1>1, <2>2 DEF PollActivity, Places
  <2> QED
    BY <1>m, <1>1, <2>2, <2>3 DEF PollActivity, TypeOK, front
<1>2. CASE PollTimeout \/ Leave \/ Skip \/ Attend \/ EndScan
  <2>1. i' \in {i, 0} \/ (i' = i + 1 /\ i <= Len(mFds))
    BY <1>2 DEF PollTimeout, Leave, Skip, Attend, EndScan, Scanning
  <2>i. i' \in 0 .. Len(mFds) + 1
    BY <1>m, <2>1 DEF TypeOK
  <2>2. work' \in BOOLEAN /\ pc' \in Places
    BY <1>2 DEF PollTimeout, Leave, Skip, Attend, EndScan, TypeOK, Places
  <2> QED
    BY <1>2, <2>i, <2>2
       DEF PollTimeout, Leave, Skip, Attend, EndScan, TypeOK, front
<1>3. CASE HangUp
  <2>1. i \in 1 .. Len(mFds)
    BY <1>m, <1>3 DEF HangUp, Scanning, Loop, Scans, TypeOK
  <2>2. /\ mFds' \in Seq([fd : Fd, revents : Revents])
        /\ Len(mFds') = Len(mFds) - 1
    BY <1>m, <1>3, <2>1, RemoveAtProperties DEF HangUp
  <2>3. table' \in [Fd -> Session \cup {Nobody}]
    BY <1>3 DEF HangUp, TypeOK
  <2>4. i' \in 0 .. Len(mFds') + 1 /\ Len(mFds') + 1 <= mMaxNumFds'
    BY <1>m, <1>3, <2>1, <2>2 DEF HangUp, TypeOK
  <2> QED
    BY <1>3, <2>2, <2>3, <2>4 DEF HangUp, TypeOK, front
<1>4. CASE ReadType
  <2>1. Peer \in Session /\ \E k \in Kind : toServer[Peer] \in {<<k>>, <<k, "body">>}
    BY <1>4, TypeIsRead DEF ReadType
  <2>2. kind' \in Kind
    BY <1>4, <2>1, OneMessage, TwoMessages DEF ReadType
  <2>3. Tail(toServer[Peer]) \in Seq({"connected", "command", "request", "body"})
    BY <1>4, <2>1, HeadTailProperties DEF ReadType, Readable, TypeOK
  <2>4. toServer' \in [Session -> Seq({"connected", "command", "request", "body"})]
    BY <1>4, <2>1, <2>3 DEF ReadType, TypeOK
  <2> QED
    BY <1>m, <1>4, <2>2, <2>4 DEF ReadType, TypeOK, Places, Kind
<1>5. CASE ReadBody
  <2>1. Peer \in Session
    BY <1>5, PeerInHand DEF ReadBody
  <2>2. Tail(toServer[Peer]) \in Seq({"connected", "command", "request", "body"})
    BY <1>5, <2>1, HeadTailProperties DEF ReadBody, Readable, TypeOK
  <2>3. toServer' \in [Session -> Seq({"connected", "command", "request", "body"})]
    BY <1>5, <2>1, <2>2 DEF ReadBody, TypeOK
  <2> QED
    BY <1>m, <1>5, <2>3 DEF ReadBody, TypeOK, Places
<1>6. CASE ReadGarbage
  <2>1. i' \in 0 .. Len(mFds) + 1
    BY <1>m, <1>6 DEF ReadGarbage, TypeOK, Loop, Scans
  <2> QED
    BY <1>6, <2>1 DEF ReadGarbage, TypeOK, Places, front
<1>7. CASE Handle
  <2>1. Peer \in Session /\ served[Peer] < calls[Peer]
    BY <1>7, PeerInHand, HandledWasCalled DEF Handle
  <2>2. served' \in [Session -> 0 .. MaxCalls]
    BY <1>7, <2>1, MaxCallsAssumption DEF Handle, TypeOK
  <2> QED
    BY <1>m, <1>7, <2>2 DEF Handle, TypeOK, Places, front
<1>8. CASE Reply
  <2>1. Peer \in Session
    BY <1>8, PeerInHand DEF Reply
  <2>2. Append(toClient[Peer], "answer") \in Seq({"verify", "answer"})
    BY <2>1, AppendProperties DEF TypeOK
  <2>3. toClient' \in [Session -> Seq({"verify", "answer"})]
    BY <1>8, <2>1, <2>2 DEF Reply, TypeOK
  <2>4. i' \in 0 .. Len(mFds) + 1 /\ pc' \in Places
    BY <1>m, <1>8 DEF Reply, TypeOK, Loop, Scans, Places
  <2> QED
    BY <1>8, <2>3, <2>4 DEF Reply, TypeOK
<1>9. CASE Accept
  <2>1. newsock' \in Fd /\ backlog # <<>>
    BY <1>9, FreeDescriptor DEF Accept, Loop
  <2>2. Head(backlog) \in Session /\ Tail(backlog) \in Seq(Session)
    BY <2>1, HeadTailProperties DEF TypeOK
  <2>3. table' \in [Fd -> Session \cup {Nobody}]
    BY <1>9, <2>1, <2>2 DEF Accept, TypeOK
  <2> QED
    BY <1>9, <2>1, <2>2, <2>3 DEF Accept, TypeOK, Places
<1>10. ASSUME AddFd(newsock), pc = "verify"
       PROVE  /\ mFds' \in Seq([fd : Fd, revents : Revents])
              /\ mMaxNumFds' \in Nat /\ Len(mFds') + 1 <= mMaxNumFds'
              /\ i \in 0 .. Len(mFds') + 1
  <2>1. [fd |-> newsock, revents |-> "none"] \in [fd : Fd, revents : Revents]
    BY <1>10 DEF Loop, Revents
  <2>2. /\ mFds' \in Seq([fd : Fd, revents : Revents])
        /\ Len(mFds') = Len(mFds) + 1
    BY <1>m, <1>10, <2>1, AppendProperties DEF AddFd
  <2> QED
    BY <1>m, <1>10, <2>2 DEF AddFd, TypeOK
<1>11. CASE Verify
  <2> DEFINE s == table[newsock]
  <2>1. s \in Session
    BY <1>11 DEF Verify, Loop, TypeOK
  <2>2. /\ Tail(toServer[s]) \in Seq({"connected", "command", "request", "body"})
        /\ Append(toClient[s], "verify") \in Seq({"verify", "answer"})
    BY <1>11, <2>1, HeadTailProperties, AppendProperties DEF Verify, Readable, TypeOK
  <2>3. toServer' \in [Session -> Seq({"connected", "command", "request", "body"})]
    BY <1>11, <2>1, <2>2 DEF Verify, TypeOK
  <2>4. toClient' \in [Session -> Seq({"verify", "answer"})]
    BY <1>11, <2>1, <2>2 DEF Verify, TypeOK
  <2>5. /\ mFds' \in Seq([fd : Fd, revents : Revents])
        /\ mMaxNumFds' \in Nat /\ Len(mFds') + 1 <= mMaxNumFds'
        /\ i \in 0 .. Len(mFds') + 1
    BY <1>10, <1>11 DEF Verify, TypeOK
  <2>6. newsock' \in Fd \cup {0} /\ pc' \in Places
    BY <1>11 DEF Verify, Places, TypeOK
  <2> QED
    BY <1>11, <2>3, <2>4, <2>5, <2>6 DEF Verify, TypeOK
<1>12. CASE VerifyEof
  <2>1. table' \in [Fd -> Session \cup {Nobody}]
    BY <1>12 DEF VerifyEof, TypeOK
  <2>2. /\ mFds' \in Seq([fd : Fd, revents : Revents])
        /\ mMaxNumFds' \in Nat /\ Len(mFds') + 1 <= mMaxNumFds'
        /\ i \in 0 .. Len(mFds') + 1
    BY <1>10, <1>12 DEF VerifyEof, TypeOK
  <2>3. newsock' \in Fd \cup {0} /\ pc' \in Places
    BY <1>12 DEF VerifyEof, Places, TypeOK
  <2> QED
    BY <1>12, <2>1, <2>2, <2>3 DEF VerifyEof, TypeOK, front
<1> QED
  BY <1>1, <1>2, <1>3, <1>4, <1>5, <1>6, <1>7, <1>8, <1>9, <1>11, <1>12 DEF Daemon

(* Front ends keep the types.                                              *)
LEMMA FrontEndTypes ==
  ASSUME DaemonInv, NEW s \in Session, FrontEnd(s)
  PROVE  TypeOK'
<1> USE DEF DaemonInv
<1>1. client' \in [Session -> ClientStates]
  BY DEF FrontEnd, Proceed, Connect, SayConnected, Connected, Begin, SendBody,
         Return, Fail, Close, Die, Moves, TypeOK, ClientStates
<1>2. backlog' \in Seq(Session)
  <2>1. backlog' \in {backlog, Append(backlog, s)}
    BY DEF FrontEnd, Proceed, Connect, SayConnected, Connected, Begin, SendBody,
           Return, Fail, Close, Die
  <2>2. backlog \in Seq(Session)
    BY DEF TypeOK
  <2>3. Append(backlog, s) \in Seq(Session)
    BY ONLY <2>2, s \in Session, AppendProperties
  <2> QED
    BY <2>1, <2>2, <2>3
<1>3. toServer' \in [Session -> Seq({"connected", "command", "request", "body"})]
  <2>1. CASE SayConnected(s) \/ Begin(s) \/ SendBody(s)
    <3>1. PICK m \in {"connected", "command", "request", "body"} : Writes(s, m)
      BY <2>1 DEF SayConnected, Begin, SendBody
    <3>2. Append(toServer[s], m) \in Seq({"connected", "command", "request", "body"})
      BY AppendProperties DEF TypeOK
    <3> QED
      BY <3>1, <3>2 DEF Writes, TypeOK
  <2>2. CASE ~(SayConnected(s) \/ Begin(s) \/ SendBody(s))
    BY <2>2 DEF FrontEnd, Proceed, Connect, Connected, Return, Fail, Close, Die,
       TypeOK
  <2> QED
    BY <2>1, <2>2
<1>4. toClient' \in [Session -> Seq({"verify", "answer"})]
  <2>1. CASE Connected(s) \/ Return(s)
    <3>1. PICK m \in {"verify", "answer"} : Reads(s, m)
      BY <2>1 DEF Connected, Return
    <3>2. Tail(toClient[s]) \in Seq({"verify", "answer"})
      BY <3>1, HeadTailProperties DEF Reads, TypeOK
    <3> QED
      BY <3>1, <3>2 DEF Reads, TypeOK
  <2>2. CASE ~(Connected(s) \/ Return(s))
    BY <2>2 DEF FrontEnd, Proceed, Connect, SayConnected, Begin, SendBody, Fail,
       Close, Die, TypeOK
  <2> QED
    BY <2>1, <2>2
<1>5. calls' \in [Session -> 0 .. MaxCalls]
  <2>1. CASE Begin(s)
    BY <2>1, MaxCallsAssumption DEF Begin, TypeOK
  <2>2. CASE ~Begin(s)
    BY <2>2 DEF FrontEnd, Proceed, Connect, SayConnected, Connected, SendBody,
       Return, Fail, Close, Die, TypeOK
  <2> QED
    BY <2>1, <2>2
<1>6. UNCHANGED <<loop, work, served>>
  BY DEF FrontEnd, Proceed, Connect, SayConnected, Connected, Begin, SendBody,
         Return, Fail, Close, Die
<1> QED
  BY <1>1, <1>2, <1>3, <1>4, <1>5, <1>6 DEF TypeOK, loop

-----------------------------------------------------------------------------
(* Descriptors.                                                            *)

(* Removing an entry of mFds: what was polled at another descriptor still  *)
(* is, and nothing is polled that was not.                                 *)
LEMMA HangUpEntries ==
  ASSUME DaemonInv, HangUp
  PROVE  /\ i \in DOMAIN mFds /\ DOMAIN mFds' = 1 .. Len(mFds) - 1
         /\ \A k \in DOMAIN mFds' : \E l \in DOMAIN mFds : mFds'[k] = mFds[l]
         /\ \A l \in DOMAIN mFds : l # i => \E k \in DOMAIN mFds' : mFds'[k] = mFds[l]
<1>1. /\ Len(mFds) \in Nat /\ DOMAIN mFds = 1 .. Len(mFds) /\ i \in 1 .. Len(mFds)
      /\ mFds \in Seq([fd : Fd, revents : Revents])
  BY Entry DEF DaemonInv, HangUp, Scanning, Loop, Scans, TypeOK
<1>2. /\ mFds' \in Seq([fd : Fd, revents : Revents])
      /\ Len(mFds') = Len(mFds) - 1
      /\ \A k \in 1 .. Len(mFds) - 1 :
           mFds'[k] = IF k < i THEN mFds[k] ELSE mFds[k + 1]
  BY <1>1, RemoveAtProperties DEF HangUp
<1>3. DOMAIN mFds' = 1 .. Len(mFds) - 1
  BY <1>2, LenProperties
<1>4. ASSUME NEW k \in DOMAIN mFds'
      PROVE  \E l \in DOMAIN mFds : mFds'[k] = mFds[l]
  <2>1. CASE k < i
    BY <1>1, <1>2, <1>3, <2>1
  <2>2. CASE ~(k < i)
    <3>1. k + 1 \in DOMAIN mFds
      BY <1>1, <1>3
    <3> QED
      BY <1>2, <1>3, <2>2, <3>1
  <2> QED
    BY <2>1, <2>2
<1>5. ASSUME NEW l \in DOMAIN mFds, l # i
      PROVE  \E k \in DOMAIN mFds' : mFds'[k] = mFds[l]
  <2>1. CASE l < i
    <3>1. l \in DOMAIN mFds'
      BY <1>1, <1>3, <2>1
    <3> QED
      BY <1>2, <1>3, <2>1, <3>1
  <2>2. CASE ~(l < i)
    <3>1. l - 1 \in DOMAIN mFds' /\ ~(l - 1 < i) /\ (l - 1) + 1 = l
      BY <1>1, <1>3, <1>5, <2>2
    <3> QED
      BY <1>2, <1>3, <3>1
  <2> QED
    BY <2>1, <2>2
<1> QED
  BY <1>1, <1>3, <1>4, <1>5

(* A connection that is accepted leaves the line and gets a descriptor     *)
(* nobody has.                                                             *)
LEMMA AcceptEntries ==
  ASSUME DaemonInv, Accept
  PROVE  /\ newsock' \in Fd /\ table[newsock'] = Nobody
         /\ 1 \in DOMAIN backlog /\ backlog[1] \in Session
         /\ table' = [table EXCEPT ![newsock'] = backlog[1]]
         /\ \A b \in DOMAIN backlog' : b + 1 \in DOMAIN backlog
                                       /\ backlog'[b] = backlog[b + 1] /\ b + 1 # 1
         /\ \A b \in DOMAIN backlog : b # 1 =>
              b - 1 \in DOMAIN backlog' /\ backlog'[b - 1] = backlog[b]
<1>1. newsock' \in Fd /\ table[newsock'] = Nobody /\ backlog # <<>>
  BY FreeDescriptor DEF DaemonInv, Accept, Loop
<1>2. /\ backlog \in Seq(Session) /\ Len(backlog) \in Nat \ {0}
      /\ DOMAIN backlog = 1 .. Len(backlog)
  BY <1>1, EmptySeq, LenProperties DEF DaemonInv, TypeOK
<1>3. /\ backlog' \in Seq(Session) /\ Len(backlog') = Len(backlog) - 1
      /\ \A b \in 1 .. Len(backlog) - 1 : backlog'[b] = backlog[b + 1]
  BY <1>1, <1>2, HeadTailProperties DEF Accept
<1>4. DOMAIN backlog' = 1 .. Len(backlog) - 1
  BY <1>3, LenProperties
<1>5. 1 \in DOMAIN backlog /\ backlog[1] \in Session
  BY <1>2, ElementOfSeq
<1>6. table' = [table EXCEPT ![newsock'] = backlog[1]]
  BY <1>1, <1>2 DEF Accept
<1>7. ASSUME NEW b \in DOMAIN backlog'
      PROVE  b + 1 \in DOMAIN backlog /\ backlog'[b] = backlog[b + 1] /\ b + 1 # 1
  BY <1>2, <1>3, <1>4
<1>8. ASSUME NEW b \in DOMAIN backlog, b # 1
      PROVE  b - 1 \in DOMAIN backlog' /\ backlog'[b - 1] = backlog[b]
  <2>1. b - 1 \in 1 .. Len(backlog) - 1 /\ (b - 1) + 1 = b
    BY <1>2, <1>8
  <2> QED
    BY <1>3, <1>4, <2>1
<1> QED
  BY <1>1, <1>5, <1>6, <1>7, <1>8

(* A session waits or has a descriptor, never both nor two.                *)
LEMMA DescriptorsNext ==
  ASSUME DaemonInv, [Next]_vars
  PROVE  Descriptors'
<1>t. /\ table \in [Fd -> Session \cup {Nobody}] /\ backlog \in Seq(Session)
      /\ client \in [Session -> ClientStates] /\ newsock \in Fd \cup {0}
  BY DEF DaemonInv, TypeOK
<1>d. Descriptors
  BY DEF DaemonInv
<1>1. CASE UNCHANGED <<table, backlog, client>>
  BY <1>d, <1>1 DEF Descriptors
<1>2. ASSUME NEW f, table' = [table EXCEPT ![f] = Nobody],
             UNCHANGED <<backlog, client>>
      PROVE  Descriptors'
  <2>1. \A g \in Fd : table'[g] = table[g] \/ table'[g] = Nobody
    BY <1>t, <1>2
  <2>2. \A b \in DOMAIN backlog : backlog[b] # Nobody
    BY <1>t, ElementOfSeq, LenProperties, NobodyAssumption
  <2> QED
    BY <1>d, <1>2, <2>1, <2>2, NobodyAssumption DEF Descriptors
<1>3. CASE Accept
  <2> DEFINE n == newsock'
             s == backlog[1]
  <2>1. /\ n \in Fd /\ table[n] = Nobody /\ 1 \in DOMAIN backlog /\ s \in Session
        /\ \A g \in Fd : table'[g] = IF g = n THEN s ELSE table[g]
        /\ \A b \in DOMAIN backlog' : b + 1 \in DOMAIN backlog
                                      /\ backlog'[b] = backlog[b + 1] /\ b + 1 # 1
    BY <1>t, <1>3, AcceptEntries
  <2>2. client' = client
    BY <1>3 DEF Accept
  <2>s. DOMAIN backlog' \subseteq Nat
    <3>1. backlog' \in Seq(Session)
      BY <1>3, DaemonTypes DEF Daemon, TypeOK
    <3> QED
      BY <3>1, LenProperties
  <2> HIDE DEF n, s
  <2>3. \A f, g \in Fd : table'[f] = table'[g] => table'[f] = Nobody \/ f = g
    BY <1>d, <2>1 DEF Descriptors, s
  <2>4. \A a, b \in DOMAIN backlog' : backlog'[a] = backlog'[b] => a = b
    <3> SUFFICES ASSUME NEW a \in DOMAIN backlog', NEW b \in DOMAIN backlog',
                        backlog'[a] = backlog'[b]
                 PROVE  a = b
      OBVIOUS
    <3>1. a + 1 = b + 1
      BY <1>d, <2>1 DEF Descriptors
    <3> QED
      BY <2>s, <3>1
  <2>5. \A b \in DOMAIN backlog', f \in Fd : table'[f] # backlog'[b]
    BY <1>d, <2>1 DEF Descriptors, s
  <2>6. \A t \in Session : client[t] = "off" =>
          /\ \A b \in DOMAIN backlog' : backlog'[b] # t
          /\ \A f \in Fd : table'[f] # t
    BY <1>d, <2>1 DEF Descriptors, s
  <2> QED
    BY <2>2, <2>3, <2>4, <2>5, <2>6 DEF Descriptors
<1>4. ASSUME NEW s \in Session, Connect(s) PROVE Descriptors'
  <2>1. /\ client[s] = "off" /\ table' = table
        /\ client' = [client EXCEPT ![s] = "connecting"]
        /\ backlog' = Append(backlog, s)
    BY <1>4 DEF Connect, Moves, loop
  <2>2. /\ DOMAIN backlog = 1 .. Len(backlog) /\ Len(backlog) \in Nat
        /\ DOMAIN backlog' = 1 .. Len(backlog) + 1
        /\ \A b \in DOMAIN backlog : backlog'[b] = backlog[b]
        /\ backlog'[Len(backlog) + 1] = s
    BY <1>t, <2>1, AppendProperties, LenProperties
  <2>3. \A b \in DOMAIN backlog' : b \in DOMAIN backlog \/ b = Len(backlog) + 1
    BY <2>2
  <2>4. /\ \A b \in DOMAIN backlog : backlog[b] # s
        /\ \A f \in Fd : table[f] # s
    BY <1>d, <2>1 DEF Descriptors
  <2>5. \A a, b \in DOMAIN backlog' : backlog'[a] = backlog'[b] => a = b
    BY <1>d, <2>2, <2>3, <2>4 DEF Descriptors
  <2>6. \A b \in DOMAIN backlog', f \in Fd : table'[f] # backlog'[b]
    BY <1>d, <2>1, <2>2, <2>3, <2>4 DEF Descriptors
  <2>7. \A t \in Session : client'[t] = "off" => t # s /\ client[t] = "off"
    BY <1>t, <2>1
  <2>8. \A t \in Session : client'[t] = "off" =>
          /\ \A b \in DOMAIN backlog' : backlog'[b] # t
          /\ \A f \in Fd : table'[f] # t
    BY <1>d, <2>1, <2>2, <2>3, <2>7 DEF Descriptors
  <2> QED
    BY <1>d, <2>1, <2>5, <2>6, <2>8 DEF Descriptors
<1>5. ASSUME NEW s \in Session, FrontEnd(s), ~Connect(s) PROVE Descriptors'
  <2>1. UNCHANGED <<table, backlog>>
        /\ \A t \in Session : client'[t] = "off" => client[t] = "off"
    BY <1>t, <1>5
       DEF FrontEnd, Proceed, SayConnected, Connected, Begin, SendBody, Return,
           Fail, Close, Die, Moves, loop
  <2> QED
    BY <1>d, <2>1 DEF Descriptors
<1>6. CASE HangUp \/ VerifyEof
  BY <1>1, <1>2, <1>6 DEF HangUp, VerifyEof, front
<1>7. CASE Daemon /\ ~(HangUp \/ VerifyEof \/ Accept)
  BY <1>1, <1>7 DEF Daemon, PollActivity, PollTimeout, Leave, Skip, Attend, EndScan,
     ReadType, ReadBody, ReadGarbage, Handle, Reply, Verify, front
<1>8. CASE UNCHANGED vars
  BY <1>1, <1>8 DEF vars, loop, front
<1> QED
  BY <1>3, <1>4, <1>5, <1>6, <1>7, <1>8 DEF Next

-----------------------------------------------------------------------------
(* The daemon's loop.                                                      *)

(* What poll reports as hung up is: the entries are looked at before the   *)
(* next connection is accepted, and a front end that closed stays closed.  *)
LEMMA HangUpsNext ==
  ASSUME DaemonInv, [Next]_vars, pc' \in Scans, NEW k \in DOMAIN mFds',
         mFds'[k].revents = "hup"
  PROVE  LET s == table'[mFds'[k].fd] IN s = Nobody \/ client'[s] = "closed"
<1>t. /\ table \in [Fd -> Session \cup {Nobody}]
      /\ client \in [Session -> ClientStates]
  BY DEF DaemonInv, TypeOK
<1>m. \A l \in DOMAIN mFds : mFds[l].fd \in Fd
  BY Entry DEF DaemonInv
<1>d. pc \in Scans => \A l \in DOMAIN mFds :
        mFds[l].revents = "hup" =>
          table[mFds[l].fd] = Nobody \/ client[table[mFds[l].fd]] = "closed"
  BY DEF DaemonInv, Loop
<1>1. CASE PollActivity
  <2>1. /\ k \in DOMAIN mFds /\ UNCHANGED <<table, client>>
        /\ mFds'[k].fd = mFds[k].fd /\ Event(mFds[k].fd) = "hup"
    BY <1>1 DEF PollActivity, front
  <2> QED
    BY <2>1 DEF Event
<1>2. CASE HangUp
  <2>1. PICK l \in DOMAIN mFds : mFds'[k] = mFds[l]
    BY <1>2, HangUpEntries
  <2>2. /\ pc \in Scans /\ client' = client
        /\ \A f \in Fd : table'[f] = table[f] \/ table'[f] = Nobody
    BY <1>t, <1>2 DEF HangUp, Scanning, Scans, front
  <2> QED
    BY <1>d, <1>m, <2>1, <2>2
<1>3. CASE Daemon /\ ~PollActivity /\ ~HangUp
  <2>1. pc \in Scans /\ UNCHANGED <<mFds, table, client>>
    BY <1>3
       DEF Daemon, PollTimeout, Leave, Skip, Attend, EndScan, ReadType, ReadBody,
           ReadGarbage, Handle, Reply, Accept, Verify, VerifyEof, Scans, Scanning,
           front
  <2> QED
    BY <1>d, <2>1
<1>4. ASSUME NEW s \in Session, FrontEnd(s)
      PROVE  LET t == table'[mFds'[k].fd] IN t = Nobody \/ client'[t] = "closed"
  <2>1. UNCHANGED <<pc, mFds, table>>
        /\ \A t \in Session : client[t] = "closed" => client'[t] = "closed"
    BY <1>t, <1>4
       DEF FrontEnd, Proceed, Connect, SayConnected, Connected, Begin, SendBody,
           Return, Fail, Close, Die, Moves, loop
  <2>2. table[mFds[k].fd] \in Session \cup {Nobody}
    BY <1>t, <1>m, <2>1
  <2> QED
    BY <1>d, <2>1, <2>2
<1>5. CASE UNCHANGED vars
  BY <1>d, <1>5 DEF vars, loop, front
<1> QED
  BY <1>1, <1>2, <1>3, <1>4, <1>5 DEF Next

(* What the daemon relies on holds wherever it gets to.                    *)
LEMMA LoopNext ==
  ASSUME DaemonInv, [Next]_vars
  PROVE  Loop'
<1>m. /\ Len(mFds) \in Nat /\ DOMAIN mFds = 1 .. Len(mFds)
      /\ i \in 0 .. Len(mFds) + 1
  BY Entry DEF DaemonInv, TypeOK
<1>d. Loop
  BY DEF DaemonInv
<1>1. pc' = "verify" => newsock' \in Fd /\ table'[newsock'] # Nobody
  <2>1. CASE Accept
    <3>1. /\ newsock' \in Fd /\ backlog[1] \in Session
          /\ table' = [table EXCEPT ![newsock'] = backlog[1]]
          /\ table \in [Fd -> Session \cup {Nobody}]
      BY <2>1, AcceptEntries DEF DaemonInv, TypeOK
    <3> QED
      BY <3>1, NobodyAssumption
  <2>2. CASE Daemon /\ ~Accept
    BY <1>d, <2>2
       DEF Daemon, PollActivity, PollTimeout, Leave, HangUp, Skip, Attend, EndScan,
           ReadType, ReadBody, ReadGarbage, Handle, Reply, Verify, VerifyEof,
           Scanning, Loop
  <2>3. CASE (\E s \in Session : FrontEnd(s)) \/ UNCHANGED vars
    <3>1. UNCHANGED <<pc, newsock, table>>
      BY <2>3
         DEF FrontEnd, Proceed, Connect, SayConnected, Connected, Begin, SendBody,
             Return, Fail, Close, Die, loop, vars
    <3> QED
      BY <1>d, <3>1 DEF Loop
  <2> QED
    BY <2>1, <2>2, <2>3 DEF Next
<1>2. backlog # <<>> /\ ~Accept => backlog' # <<>>
  <2> SUFFICES ASSUME backlog # <<>>, ~Accept PROVE backlog' # <<>>
    OBVIOUS
  <2>1. ASSUME NEW s \in Session, Connect(s) PROVE backlog' # <<>>
    <3>1. backlog' = Append(backlog, s) /\ backlog \in Seq(Session)
      BY <2>1 DEF Connect, DaemonInv, TypeOK
    <3> QED
      BY ONLY <3>1, s \in Session, AppendProperties
  <2>2. CASE Daemon
    BY <2>2
       DEF Daemon, PollActivity, PollTimeout, Leave, HangUp, Skip, Attend, EndScan,
           ReadType, ReadBody, ReadGarbage, Handle, Reply, Verify, VerifyEof, front
  <2>3. ASSUME NEW s \in Session, FrontEnd(s), ~Connect(s) PROVE backlog' = backlog
    BY <2>3 DEF FrontEnd, Proceed, SayConnected, Connected, Begin, SendBody, Return,
       Fail, Close, Die
  <2>4. CASE UNCHANGED vars
    BY <2>4 DEF vars, front
  <2> QED
    BY <2>1, <2>2, <2>3, <2>4 DEF Next
<1>3. CASE Daemon
  <2>1. pc' \in Scans => i' >= 1 /\ (incoming' => backlog' # <<>>)
    <3>1. CASE PollActivity
      <4>1. i' >= 1
        BY <3>1 DEF PollActivity
      <4>2. incoming' => backlog' # <<>>
        BY <3>1 DEF PollActivity, front
      <4> QED
        BY <4>1, <4>2
    <3>2. CASE HangUp \/ Skip \/ Attend \/ EndScan
      BY <1>d, <1>m, <3>2
         DEF HangUp, Skip, Attend, EndScan, Scanning, Loop, Scans, front
    <3>3. CASE ReadType \/ ReadBody \/ ReadGarbage \/ Handle \/ Reply
      BY <1>d, <1>m, <3>3
         DEF ReadType, ReadBody, ReadGarbage, Handle, Reply, Loop, Scans, front
    <3>4. CASE PollTimeout \/ Leave \/ Accept \/ Verify \/ VerifyEof
      BY <3>4 DEF PollTimeout, Leave, Accept, Verify, VerifyEof, Scans
    <3> QED
      BY <1>3, <3>1, <3>2, <3>3, <3>4 DEF Daemon
  <2>2. pc' \in Scans \ {"scan"} => i' <= Len(mFds')
    <3>1. CASE PollActivity \/ PollTimeout \/ Leave \/ Accept \/ Verify \/ VerifyEof
      BY <3>1 DEF PollActivity, PollTimeout, Leave, Accept, Verify, VerifyEof, Scans
    <3>2. CASE HangUp \/ Skip \/ Attend \/ EndScan
      BY <1>d, <3>2 DEF HangUp, Skip, Attend, EndScan, Scanning, Loop, Scans
    <3>3. CASE ReadType \/ ReadBody \/ ReadGarbage \/ Handle \/ Reply
      BY <1>d, <3>3 DEF ReadType, ReadBody, ReadGarbage, Handle, Reply, Loop, Scans
    <3> QED
      BY <1>3, <3>1, <3>2, <3>3 DEF Daemon
  <2>3. pc' \in {"body", "handle", "reply"} => Peer' # Nobody
    <3>1. CASE ReadType \/ ReadBody \/ Handle
      <4>1. Peer' = Peer /\ Peer # Nobody
        BY <1>d, <3>1
           DEF ReadType, ReadBody, Handle, Readable, Loop, Peer, Current
      <4> QED
        BY <4>1
    <3>2. CASE ~(ReadType \/ ReadBody \/ Handle)
      BY <1>3, <3>2
         DEF Daemon, PollActivity, PollTimeout, Leave, HangUp, Skip, Attend, EndScan,
             ReadGarbage, Reply, Accept, Verify, VerifyEof, Scanning
    <3> QED
      BY <3>1, <3>2
  <2>4. pc' = "accept" => backlog' # <<>>
    <3>1. CASE EndScan
      BY <1>d, <3>1 DEF EndScan, Loop, Scans, front
    <3>2. CASE ~EndScan
      BY <1>3, <3>2
         DEF Daemon, PollActivity, PollTimeout, Leave, HangUp, Skip, Attend,
             ReadType, ReadBody, ReadGarbage, Handle, Reply, Accept, Verify,
             VerifyEof, Scanning
    <3> QED
      BY <3>1, <3>2
  <2>5. pc' \in {"leaving", "exited"} => mFds' = <<>>
    BY <1>d, <1>3
       DEF Daemon, PollActivity, PollTimeout, Leave, HangUp, Skip, Attend, EndScan,
           ReadType, ReadBody, ReadGarbage, Handle, Reply, Accept, Verify,
           VerifyEof, Scanning, Loop
  <2> QED
    BY <1>1, <2>1, <2>2, <2>3, <2>4, <2>5, HangUpsNext DEF Loop
<1>4. CASE (\E s \in Session : FrontEnd(s)) \/ UNCHANGED vars
  <2>1. UNCHANGED <<pc, newsock, table, i, incoming, mFds>> /\ Peer' = Peer
    BY <1>4
       DEF FrontEnd, Proceed, Connect, SayConnected, Connected, Begin, SendBody,
           Return, Fail, Close, Die, loop, vars, Peer, Current
  <2>2. ~Accept
    BY <2>1 DEF Accept
  <2> QED
    BY <1>d, <1>1, <1>2, <2>1, <2>2, HangUpsNext DEF Loop, Scans
<1> QED
  BY <1>3, <1>4 DEF Next

-----------------------------------------------------------------------------
(* The messages of one session.                                            *)

(* A step that leaves the front end and its socket alone, and the daemon   *)
(* where it is with it, keeps what is said of the session.                 *)
LEMMA WireKept ==
  ASSUME NEW s \in Session, Wire(s),
         client'[s] = client[s], toServer'[s] = toServer[s],
         toClient'[s] = toClient[s], calls'[s] = calls[s], served'[s] = served[s],
         Unmet(s) => Unmet(s)' \/ (client[s] = "closed" /\ pc' = "killed"),
         client[s] # "closed" /\ Polled(s) => Polled(s)', Unmet(s)' => Unmet(s),
         InHand(s)' <=> InHand(s), InHand(s) => pc' = pc,
         pc = "killed" => pc' = "killed"
  PROVE  Wire(s)'
<1>1. Silence(s) => Silence(s)'
  BY DEF Silence
<1>2. (Answered(s) => Answered(s)') /\ (Outstanding(s) => Outstanding(s)')
  BY DEF Answered, Outstanding
<1>m. client[s] # "closed" /\ Met(s) => Met(s)'
  BY DEF Met
<1>3. CASE client[s] = "closed"
  <2>1. Closed(s)
    BY <1>3 DEF Wire
  <2>2. Closed(s)'
    BY <1>3, <2>1 DEF Closed
  <2> QED
    BY <1>3, <2>2 DEF Wire
<1>4. CASE client[s] # "closed"
  <2>1. Greeting(s) => Greeting(s)'
    BY <1>4, <1>m DEF Greeting
  <2>2. Sending(s) => Sending(s)'
    BY <1>2, <1>4, <1>m DEF Sending
  <2>3. Calling(s) => Calling(s)'
    BY <1>1, <1>2, <1>4, <1>m DEF Calling
  <2> QED
    BY <1>1, <1>2, <1>4, <1>m, <2>1, <2>2, <2>3 DEF Wire
<1> QED
  BY <1>3, <1>4

(* Between two readings: polling, skipping, hanging up, accepting.         *)
LEMMA WireWhileScanning ==
  ASSUME DaemonInv, NEW s \in Session,
         \/ PollActivity \/ PollTimeout \/ Leave \/ HangUp \/ Skip \/ Attend
         \/ EndScan \/ Accept
  PROVE  Wire(s)'
<1>t. table \in [Fd -> Session \cup {Nobody}]
  BY DEF DaemonInv, TypeOK
<1>m. \A k \in DOMAIN mFds : mFds[k].fd \in Fd
  BY Entry DEF DaemonInv
<1>1. /\ UNCHANGED <<client, toServer, toClient, calls, served>>
      /\ ~InHand(s) /\ ~InHand(s)' /\ pc # "killed"
  BY DEF PollActivity, PollTimeout, Leave, HangUp, Skip, Attend, EndScan, Accept,
         Scanning, InHand, front
<1>2. Unmet(s) => Unmet(s)'
  <2>1. CASE Accept
    <3>1. CASE backlog[1] = s
      <4>1. table'[newsock'] = s /\ pc' = "verify"
        BY <1>t, <2>1, <3>1, AcceptEntries DEF Accept
      <4> QED
        BY <4>1 DEF Unmet
    <3>2. CASE backlog[1] # s
      <4> SUFFICES ASSUME Unmet(s) PROVE \E a \in DOMAIN backlog' : backlog'[a] = s
        BY DEF Unmet
      <4>1. PICK b \in DOMAIN backlog : backlog[b] = s
        BY <2>1 DEF Unmet, Accept
      <4>2. b - 1 \in DOMAIN backlog' /\ backlog'[b - 1] = s
        BY <2>1, <3>2, <4>1, AcceptEntries
      <4> QED
        BY <4>2
    <3> QED
      BY <3>1, <3>2
  <2>2. CASE ~Accept
    BY <2>2 DEF Unmet, PollActivity, PollTimeout, Leave, HangUp, Skip, Attend,
       EndScan, Scanning, front
  <2> QED
    BY <2>1, <2>2
<1>u. Unmet(s)' => Unmet(s)
  <2>1. CASE Accept
    <3>1. table[newsock'] = Nobody /\ newsock' \in Fd
          /\ table' = [table EXCEPT ![newsock'] = backlog[1]]
          /\ 1 \in DOMAIN backlog
      BY <2>1, AcceptEntries
    <3>2. \A b \in DOMAIN backlog' : \E a \in DOMAIN backlog : backlog'[b] = backlog[a]
      BY <2>1, AcceptEntries
    <3> QED
      BY <1>t, <3>1, <3>2 DEF Unmet
  <2>2. CASE ~Accept
    BY <2>2 DEF Unmet, PollActivity, PollTimeout, Leave, HangUp, Skip, Attend,
       EndScan, Scanning, front
  <2> QED
    BY <2>1, <2>2
<1>3. client[s] # "closed" /\ Polled(s) => Polled(s)'
  <2> SUFFICES ASSUME client[s] # "closed", NEW k \in DOMAIN mFds,
                      table[mFds[k].fd] = s
               PROVE  \E l \in DOMAIN mFds' : table'[mFds'[l].fd] = s
    BY <1>1 DEF Polled
  <2>1. CASE HangUp
    <3>1. table[Current.fd] = Nobody \/ client[table[Current.fd]] = "closed"
      BY <2>1, HangUpEntries
         DEF HangUp, Scanning, DaemonInv, Loop, Scans, Current
    <3>2. mFds[k].fd # Current.fd
      BY <3>1, NobodyAssumption
    <3>3. k # i /\ table'[mFds[k].fd] = s
      BY <1>t, <1>m, <2>1, <3>2 DEF HangUp, Current
    <3> QED
      BY <2>1, <3>3, HangUpEntries
  <2>2. CASE Accept
    <3>1. table'[mFds[k].fd] = s
      BY <1>t, <1>m, <2>2, AcceptEntries, NobodyAssumption
    <3> QED
      BY <2>2, <3>1 DEF Accept
  <2>3. CASE PollActivity
    BY <2>3 DEF PollActivity
  <2>4. CASE PollTimeout \/ Leave \/ Skip \/ Attend \/ EndScan
    BY <2>4 DEF PollTimeout, Leave, Skip, Attend, EndScan
  <2> QED
    BY <2>1, <2>2, <2>3, <2>4
<1>4. Wire(s)
  BY DEF DaemonInv, Wires
<1> QED
  BY <1>1, <1>2, <1>3, <1>4, <1>u, WireKept

(* The daemon is with another session.                                     *)
LEMMA WireOfOthers ==
  ASSUME DaemonInv, NEW s \in Session, Peer # s,
         ReadType \/ ReadBody \/ ReadGarbage \/ Handle \/ Reply
  PROVE  Wire(s)'
<1>1. /\ UNCHANGED <<mFds, table, backlog, client, calls>>
      /\ toServer'[s] = toServer[s] /\ toClient'[s] = toClient[s]
      /\ served'[s] = served[s] /\ pc \notin {"verify", "killed"}
  BY DEF ReadType, ReadBody, ReadGarbage, Handle, Reply, front, DaemonInv, TypeOK
<1>2. ~InHand(s) /\ ~InHand(s)'
  <2>1. CASE i' = i
    BY <1>1, <2>1 DEF InHand, Peer, Current
  <2>2. CASE i' # i
    BY <2>2 DEF ReadType, ReadBody, ReadGarbage, Handle, Reply, InHand
  <2> QED
    BY <2>1, <2>2
<1>3. (Unmet(s)' <=> Unmet(s)) /\ (Polled(s) => Polled(s)')
  <2>1. pc' # "verify"
    BY DEF ReadType, ReadBody, ReadGarbage, Handle, Reply
  <2> QED
    BY <1>1, <2>1 DEF Unmet, Polled
<1>4. Wire(s)
  BY DEF DaemonInv, Wires
<1> QED
  BY <1>1, <1>2, <1>3, <1>4, WireKept

(* The type byte of a message is taken in hand.                            *)
LEMMA WireReadType ==
  ASSUME DaemonInv, NEW s \in Session, Peer = s, ReadType
  PROVE  Wire(s)'
<1>1. PICK k \in Kind : toServer[s] \in {<<k>>, <<k, "body">>}
  BY TypeIsRead DEF ReadType
<1>2. ~InHand(s)
  BY TypeIsRead DEF ReadType
<1>3. /\ toServer'[s] = Tail(toServer[s]) /\ pc' = "body"
      /\ UNCHANGED <<mFds, table, i, client, toClient, calls, served>>
  BY <1>2 DEF ReadType, DaemonInv, TypeOK
<1>4. \/ toServer[s] = <<k>> /\ toServer'[s] = <<>>
      \/ toServer[s] = <<k, "body">> /\ toServer'[s] = <<"body">>
  BY <1>1, <1>3, OneMessage, TwoMessages
<1>5. Peer' = s
  BY <1>3 DEF Peer, Current
<1>6. toServer[s] # <<>> /\ toServer[s] # <<"connected">>
  BY <1>1, OneMessage, TwoMessages DEF Kind
<1>7. Wire(s)
  BY <1>2 DEF DaemonInv, Wires
<1>8. client[s] \in {"sending", "calling", "closed"}
  <2>1. client[s] \in ClientStates
    BY <1>2 DEF DaemonInv, TypeOK
  <2> QED
    BY <1>6, <1>7, <2>1 DEF Wire, Greeting, Silence, ClientStates
<1>9. InHand(s)'
  BY <1>3, <1>5 DEF InHand
<1>10. Met(s) => Met(s)'
  BY <1>3 DEF Met, Polled, Unmet, ReadType
<1>11. CASE client[s] = "sending"
  <2>1. toServer[s] # <<k, "body">>
    BY <1>2, <1>7, <1>11 DEF Wire, Sending
  <2>2. Sending(s) /\ toServer'[s] = <<>>
    BY <1>4, <1>7, <1>11, <2>1 DEF Wire
  <2>3. Sending(s)'
    BY <1>3, <1>9, <1>10, <2>2 DEF Sending, Outstanding
  <2> QED
    BY <1>3, <1>11, <2>3 DEF Wire
<1>12. CASE client[s] = "calling"
  <2>1. /\ toServer[s] # <<k>> /\ toClient[s] = <<>> /\ Outstanding(s)
        /\ Met(s)
    BY <1>2, <1>6, <1>7, <1>12 DEF Wire, Calling
  <2>2. toServer'[s] = <<"body">>
    BY <1>4, <2>1
  <2>3. Calling(s)'
    BY <1>3, <1>9, <1>10, <2>1, <2>2 DEF Calling, Outstanding
  <2> QED
    BY <1>3, <1>12, <2>3 DEF Wire
<1>13. CASE client[s] = "closed"
  <2>1. served[s] < calls[s]
    BY <1>2, <1>6, <1>7, <1>13 DEF Wire, Closed
  <2>2. Closed(s)'
    BY <1>3, <1>4, <1>9, <2>1 DEF Closed
  <2> QED
    BY <1>3, <1>13, <2>2 DEF Wire
<1> QED
  BY <1>8, <1>11, <1>12, <1>13

(* The rest of the message is read; then it is carried out; then answered, *)
(* or the daemon reads nothing of a front end that is gone.                *)
LEMMA WireInHand ==
  ASSUME DaemonInv, NEW s \in Session, Peer = s,
         ReadBody \/ Handle \/ Reply \/ ReadGarbage
  PROVE  Wire(s)'
<1>1. Wire(s) /\ client[s] \in ClientStates
  BY DEF DaemonInv, Wires, TypeOK
<1>2. /\ calls[s] \in Nat /\ served[s] \in Nat
      /\ toServer \in [Session -> Seq({"connected", "command", "request", "body"})]
      /\ toClient \in [Session -> Seq({"verify", "answer"})]
      /\ served \in [Session -> 0 .. MaxCalls]
  BY DEF DaemonInv, TypeOK
<1>3. UNCHANGED <<client, calls>> /\ (Met(s) => Met(s)')
  BY DEF ReadBody, Handle, Reply, ReadGarbage, front, Met, Polled, Unmet
<1>4. CASE ReadBody
  <2>1. InHand(s) /\ pc = "body" /\ pc' = "handle" /\ InHand(s)'
    BY <1>4 DEF ReadBody, InHand, Peer, Current
  <2>2. /\ toServer[s] # <<>> /\ toServer'[s] = Tail(toServer[s])
        /\ UNCHANGED <<toClient, served>>
    BY <1>2, <1>4 DEF ReadBody, Readable
  <2>3. toServer[s] = <<"body">>
    BY <2>1, <2>2, Contents DEF InHand
  <2>4. toServer'[s] = <<>>
    BY <2>2, <2>3, OneMessage
  <2>5. client[s] \in {"calling", "closed"}
    BY <1>1, <2>1, <2>2, HandledWasCalled DEF Wire, Sending
  <2>6. CASE client[s] = "calling"
    <3>1. toClient[s] = <<>> /\ Outstanding(s) /\ Met(s)
      BY <1>1, <2>1, <2>3, <2>6, OneMessage DEF Wire, Calling, Silence
    <3>2. Calling(s)'
      BY <1>3, <2>1, <2>2, <2>4, <3>1 DEF Calling, Silence, Outstanding
    <3> QED
      BY <1>3, <2>6, <3>2 DEF Wire
  <2>7. CASE client[s] = "closed"
    <3>1. served[s] < calls[s]
      BY <2>1, HandledWasCalled
    <3>2. Closed(s)'
      BY <1>3, <2>1, <2>2, <2>4, <3>1 DEF Closed
    <3> QED
      BY <1>3, <2>7, <3>2 DEF Wire
  <2> QED
    BY <2>5, <2>6, <2>7
<1>5. CASE Handle
  <2>1. InHand(s) /\ pc = "handle" /\ pc' = "reply" /\ InHand(s)'
    BY <1>5 DEF Handle, InHand, Peer, Current
  <2>2. /\ UNCHANGED <<toServer, toClient>> /\ served'[s] = served[s] + 1
        /\ served[s] < calls[s]
    BY <1>2, <1>5, <2>1, HandledWasCalled DEF Handle, front
  <2>3. toServer[s] = <<>>
    BY <2>1, Contents
  <2>4. client[s] \in {"calling", "closed"}
    BY <1>1, <2>1, HandledWasCalled DEF Wire, Sending
  <2>5. CASE client[s] = "calling"
    <3>1. toClient[s] = <<>> /\ Outstanding(s) /\ Met(s)
      BY <1>1, <2>1, <2>5 DEF Wire, Calling, Silence
    <3>2. Calling(s)'
      BY <1>2, <1>3, <2>1, <2>2, <2>3, <3>1
         DEF Calling, Silence, Outstanding, Answered
    <3> QED
      BY <1>3, <2>5, <3>2 DEF Wire
  <2>6. CASE client[s] = "closed"
    <3>1. Closed(s)'
      BY <1>2, <1>3, <2>1, <2>2, <2>3 DEF Closed
    <3> QED
      BY <1>3, <2>6, <3>1 DEF Wire
  <2> QED
    BY <2>4, <2>5, <2>6
<1>6. CASE Reply
  <2>1. InHand(s) /\ pc = "reply" /\ ~InHand(s)'
    BY <1>6 DEF Reply, InHand
  <2>2. UNCHANGED <<toServer, served>> /\ toServer[s] = <<>>
    BY <1>6, <2>1, Contents DEF Reply
  <2>3. client[s] \in {"calling", "closed"}
    BY <1>1, <2>1, HandledWasCalled DEF Wire, Sending
  <2>4. CASE client[s] = "calling"
    <3>1. toClient[s] = <<>> /\ Answered(s) /\ Met(s)
      BY <1>1, <2>1, <2>4 DEF Wire, Calling, Silence
    <3>2. toClient'[s] = <<"answer">>
      BY <1>2, <1>6, <2>4, <3>1, OneMessage DEF Reply
    <3>3. Calling(s)'
      BY <1>3, <2>1, <2>2, <3>1, <3>2 DEF Calling, Answered
    <3> QED
      BY <1>3, <2>4, <3>3 DEF Wire
  <2>5. CASE client[s] = "closed"
    <3>1. served[s] <= calls[s]
      BY <1>1, <2>1, <2>2, <2>5, OneMessage DEF Wire, Closed
    <3>2. Closed(s)'
      BY <1>3, <2>1, <2>2, <3>1 DEF Closed
    <3> QED
      BY <1>3, <2>5, <3>2 DEF Wire
  <2> QED
    BY <2>3, <2>4, <2>5
<1>7. CASE ReadGarbage
  <2>1. client[s] = "closed" /\ toServer[s] = <<>> /\ ~InHand(s)'
    BY <1>7, NobodyAssumption DEF ReadGarbage, AtEof, InHand
  <2>2. UNCHANGED <<toServer, served>>
    BY <1>7 DEF ReadGarbage, front
  <2>3. served[s] <= calls[s]
    BY <1>1, <1>2, <2>1, OneMessage DEF Wire, Closed
  <2>4. Closed(s)'
    BY <1>3, <2>1, <2>2, <2>3 DEF Closed
  <2> QED
    BY <1>3, <2>1, <2>4 DEF Wire
<1> QED
  BY <1>4, <1>5, <1>6, <1>7

(* Another session than the one that is being accepted.                    *)
LEMMA WireVerifyOther ==
  ASSUME DaemonInv, NEW s \in Session, table[newsock] # s, Verify \/ VerifyEof
  PROVE  Wire(s)'
<1>t. /\ table \in [Fd -> Session \cup {Nobody}] /\ newsock \in Fd \cup {0}
      /\ pc = "verify" => newsock \in Fd
      /\ toServer \in [Session -> Seq({"connected", "command", "request", "body"})]
      /\ toClient \in [Session -> Seq({"verify", "answer"})]
  BY DEF DaemonInv, TypeOK, Loop
<1>m. /\ Len(mFds) \in Nat /\ DOMAIN mFds = 1 .. Len(mFds)
      /\ mFds \in Seq([fd : Fd, revents : Revents])
      /\ \A k \in DOMAIN mFds : mFds[k].fd \in Fd
  BY Entry DEF DaemonInv, TypeOK
<1>0. Wire(s)
  BY DEF DaemonInv, Wires
<1>1. /\ UNCHANGED <<backlog, client, calls, served>>
      /\ toServer'[s] = toServer[s] /\ toClient'[s] = toClient[s]
      /\ pc # "killed" /\ pc' # "verify"
  BY <1>t DEF Verify, VerifyEof, front
<1>2. ~InHand(s) /\ ~InHand(s)'
  BY DEF Verify, VerifyEof, InHand
<1>3. Unmet(s)' <=> Unmet(s)
  BY <1>1 DEF Unmet
<1>4. Polled(s) => Polled(s)'
  <2> SUFFICES ASSUME NEW k \in DOMAIN mFds, table[mFds[k].fd] = s
               PROVE  pc' = "killed" \/ \E l \in DOMAIN mFds' : table'[mFds'[l].fd] = s
    BY <1>1 DEF Polled
  <2>1. table'[mFds[k].fd] = s
    BY <1>t, <1>m DEF Verify, VerifyEof
  <2>2. CASE mFds' = mFds
    BY <2>1, <2>2
  <2>3. CASE mFds' # mFds /\ pc = "verify"
    <3>1. mFds' = Append(mFds, [fd |-> newsock, revents |-> "none"])
      BY <2>3 DEF Verify, VerifyEof, AddFd
    <3>2. [fd |-> newsock, revents |-> "none"] \in [fd : Fd, revents : Revents]
      BY <1>t, <2>3 DEF Revents
    <3>3. k \in DOMAIN mFds' /\ mFds'[k] = mFds[k]
      BY <1>m, <3>1, <3>2, AppendProperties, LenProperties
    <3> QED
      BY <2>1, <3>3
  <2> QED
    BY <2>2, <2>3 DEF Verify, VerifyEof
<1> QED
  BY <1>0, <1>1, <1>2, <1>3, <1>4, WireKept

(* The session that is accepted: its first byte is read and answered, and  *)
(* its descriptor takes a place in mFds.                                   *)
LEMMA WireVerify ==
  ASSUME DaemonInv, NEW s \in Session, table[newsock] = s, Verify \/ VerifyEof
  PROVE  Wire(s)'
<1>t. /\ newsock \in Fd
      /\ toServer \in [Session -> Seq({"connected", "command", "request", "body"})]
      /\ toClient \in [Session -> Seq({"verify", "answer"})]
      /\ served[s] \in Nat /\ calls[s] \in Nat
  BY DEF DaemonInv, TypeOK, Loop, Verify, VerifyEof
<1>0. Wire(s) /\ client[s] \in ClientStates
  BY DEF DaemonInv, Wires, TypeOK
<1>1. /\ Unmet(s) /\ ~InHand(s) /\ ~InHand(s)'
      /\ UNCHANGED <<backlog, client, calls, served>>
  BY DEF Unmet, InHand, Verify, VerifyEof, front
<1>2. ~Unmet(s)'
  <2>1. \A b \in DOMAIN backlog : backlog[b] # s
    BY <1>t DEF DaemonInv, Descriptors
  <2> QED
    BY <1>1, <2>1 DEF Unmet, Verify, VerifyEof
<1>3. client[s] = "closed" => served[s] <= calls[s]
  BY <1>t, <1>0, <1>1 DEF Wire, Closed
<1>4. CASE VerifyEof
  <2>1. client[s] = "closed" /\ toServer'[s] = <<>>
    BY <1>4, NobodyAssumption DEF VerifyEof, AtEof, front
  <2>2. Closed(s)'
    BY <1>1, <1>3, <2>1 DEF Closed
  <2> QED
    BY <1>1, <2>1, <2>2 DEF Wire
<1>5. CASE Verify
  <2>1. toServer[s] # <<>> /\ toServer'[s] = Tail(toServer[s])
    BY <1>t, <1>5 DEF Verify, Readable
  <2>2. toServer[s] = <<"connected">> /\ client[s] \in {"hello", "closed"}
    BY <1>0, <1>1, <2>1
       DEF Wire, Greeting, Sending, Calling, Closed, Silence, Met, ClientStates
  <2>3. toServer'[s] = <<>>
    BY <2>1, <2>2, OneMessage
  <2>4. CASE client[s] = "closed"
    <3>1. Closed(s)'
      BY <1>1, <1>3, <2>3, <2>4 DEF Closed
    <3> QED
      BY <1>1, <2>4, <3>1 DEF Wire
  <2>5. CASE client[s] = "hello"
    <3>1. toClient[s] = <<>> /\ calls[s] = 0 /\ served[s] = 0
      BY <1>0, <2>1, <2>5 DEF Wire, Greeting
    <3>2. toClient'[s] = <<"verify">>
      BY <1>t, <1>5, <2>5, <3>1, OneMessage DEF Verify
    <3>3. Polled(s)'
      <4>1. /\ mFds' = Append(mFds, [fd |-> newsock, revents |-> "none"])
            /\ table' = table
        BY <1>5, <2>5 DEF Verify, AddFd
      <4>2. /\ [fd |-> newsock, revents |-> "none"] \in [fd : Fd, revents : Revents]
            /\ mFds \in Seq([fd : Fd, revents : Revents]) /\ Len(mFds) \in Nat
        BY <1>t, Entry DEF Revents, DaemonInv, TypeOK
      <4>3. /\ Len(mFds) + 1 \in DOMAIN mFds'
            /\ mFds'[Len(mFds) + 1] = [fd |-> newsock, revents |-> "none"]
        BY <4>1, <4>2, AppendProperties, LenProperties
      <4> QED
        BY <4>1, <4>3 DEF Polled
    <3>4. Greeting(s)'
      BY <1>1, <1>2, <2>3, <3>1, <3>2, <3>3 DEF Greeting, Met
    <3> QED
      BY <1>1, <2>5, <3>4 DEF Wire
  <2> QED
    BY <2>2, <2>4, <2>5
<1> QED
  BY <1>4, <1>5

(* Another front end than the one that makes a step.                       *)
LEMMA WireOfOtherFrontEnds ==
  ASSUME DaemonInv, NEW s \in Session, NEW t \in Session, s # t, FrontEnd(t)
  PROVE  Wire(s)'
<1>t. /\ client \in [Session -> ClientStates]
      /\ toServer \in [Session -> Seq({"connected", "command", "request", "body"})]
      /\ toClient \in [Session -> Seq({"verify", "answer"})]
      /\ calls \in [Session -> 0 .. MaxCalls]
      /\ backlog \in Seq(Session)
  BY DEF DaemonInv, TypeOK
<1>1. /\ UNCHANGED <<loop, served>> /\ client'[s] = client[s]
      /\ toServer'[s] = toServer[s] /\ toClient'[s] = toClient[s]
      /\ calls'[s] = calls[s] /\ backlog' \in {backlog, Append(backlog, t)}
  BY <1>t
     DEF FrontEnd, Proceed, Connect, SayConnected, Connected, Begin, SendBody,
         Return, Fail, Close, Die, Moves, Writes, Reads
<1>2. Unmet(s)' <=> Unmet(s)
  <2>1. CASE backlog' = backlog
    BY <1>1, <2>1 DEF Unmet, loop
  <2>2. CASE backlog' = Append(backlog, t)
    <3>1. /\ Len(backlog) \in Nat /\ DOMAIN backlog = 1 .. Len(backlog)
          /\ DOMAIN backlog' = 1 .. Len(backlog) + 1
          /\ \A b \in DOMAIN backlog : backlog'[b] = backlog[b]
          /\ backlog'[Len(backlog) + 1] = t
      <4>1. backlog \in Seq(Session)
        BY <1>t
      <4> QED
        BY ONLY <2>2, <4>1, t \in Session, AppendProperties, LenProperties
    <3>2. \A b \in DOMAIN backlog' : b \in DOMAIN backlog \/ b = Len(backlog) + 1
      BY <3>1
    <3>3. DOMAIN backlog \subseteq DOMAIN backlog'
      BY <3>1
    <3> QED
      BY <1>1, <3>1, <3>2, <3>3 DEF Unmet, loop
  <2> QED
    BY <1>1, <2>1, <2>2
<1>3. (InHand(s)' <=> InHand(s)) /\ (Polled(s)' <=> Polled(s)) /\ pc' = pc
  BY <1>1 DEF InHand, Polled, Peer, Current, loop
<1>4. Wire(s)
  BY DEF DaemonInv, Wires
<1>5. served'[s] = served[s]
  BY <1>1
<1> QED
  BY <1>1, <1>2, <1>3, <1>4, <1>5, WireKept

(* What a front end does keeps what is said of its session.                *)
LEMMA WireOfFrontEnd ==
  ASSUME DaemonInv, NEW s \in Session, FrontEnd(s)
  PROVE  Wire(s)'
<1>t. /\ client \in [Session -> ClientStates]
      /\ toServer \in [Session -> Seq({"connected", "command", "request", "body"})]
      /\ toClient \in [Session -> Seq({"verify", "answer"})]
      /\ calls \in [Session -> 0 .. MaxCalls] /\ served \in [Session -> 0 .. MaxCalls]
      /\ calls[s] \in Nat /\ served[s] \in Nat
      /\ backlog \in Seq(Session)
  BY DEF DaemonInv, TypeOK
<1>0. Wire(s)
  BY DEF DaemonInv, Wires
<1>1. UNCHANGED <<loop, served>>
  BY DEF FrontEnd, Proceed, Connect, SayConnected, Connected, Begin, SendBody,
         Return, Fail, Close, Die
<1>2. (InHand(s)' <=> InHand(s)) /\ (Polled(s)' <=> Polled(s)) /\ pc' = pc
  BY <1>1 DEF InHand, Polled, Peer, Current, loop
<1>3. served'[s] = served[s]
  BY <1>1
<1>4. CASE Connect(s)
  <2>1. /\ client[s] = "off" /\ client'[s] = "connecting"
        /\ UNCHANGED <<toServer, toClient, calls>>
    BY <1>t, <1>4 DEF Connect, Moves
  <2>2. Unmet(s)'
    <3>1. backlog' = Append(backlog, s)
      BY <1>4 DEF Connect
    <3>2. /\ Len(backlog) + 1 \in DOMAIN backlog'
          /\ backlog'[Len(backlog) + 1] = s
      <4>1. backlog \in Seq(Session)
        BY <1>t
      <4> QED
        BY ONLY <3>1, <4>1, s \in Session, AppendProperties, LenProperties
    <3> QED
      BY <3>2 DEF Unmet
  <2> QED
    BY <1>0, <1>2, <1>3, <2>1, <2>2 DEF Wire, Silence
<1>5. ASSUME ~Connect(s) PROVE backlog' = backlog /\ (Unmet(s)' <=> Unmet(s))
  BY <1>1, <1>5
     DEF FrontEnd, Proceed, SayConnected, Connected, Begin, SendBody, Return, Fail,
         Close, Die, Unmet, loop
<1>6. ASSUME ~Connect(s) PROVE Met(s)' <=> Met(s)
  BY <1>2, <1>5, <1>6 DEF Met
<1>7. CASE SayConnected(s)
  <2>1. /\ client[s] = "connecting" /\ client'[s] = "hello" /\ ~Connect(s)
        /\ toServer'[s] = Append(toServer[s], "connected")
        /\ UNCHANGED <<toClient, calls>>
    BY <1>t, <1>7 DEF SayConnected, Moves, Writes, Connect
  <2>2. /\ Silence(s) /\ Unmet(s) /\ ~InHand(s) /\ calls[s] = 0 /\ served[s] = 0
    BY <1>0, <2>1 DEF Wire
  <2>3. toServer'[s] = <<"connected">>
    BY <2>1, <2>2, OneMessage DEF Silence
  <2>4. Greeting(s)'
    BY <1>2, <1>3, <1>5, <2>1, <2>2, <2>3 DEF Greeting, Silence
  <2> QED
    BY <2>1, <2>4 DEF Wire
<1>8. CASE Connected(s)
  <2>1. /\ client[s] = "hello" /\ client'[s] = "ready" /\ ~Connect(s)
        /\ toClient[s] # <<>> /\ toClient'[s] = Tail(toClient[s])
        /\ UNCHANGED <<toServer, calls>>
    BY <1>t, <1>8 DEF Connected, Moves, Reads, Connect
  <2>2. /\ toServer[s] = <<>> /\ toClient[s] = <<"verify">> /\ Met(s)
        /\ ~InHand(s) /\ calls[s] = 0 /\ served[s] = 0
    BY <1>0, <2>1 DEF Wire, Greeting
  <2>3. toClient'[s] = <<>>
    BY <2>1, <2>2, OneMessage
  <2> QED
    BY <1>2, <1>3, <1>6, <2>1, <2>2, <2>3 DEF Wire, Silence, Answered, Met
<1>9. CASE Begin(s)
  <2>1. PICK k \in Kind : Writes(s, k)
    BY <1>9 DEF Begin, Kind
  <2>2. /\ client[s] = "ready" /\ client'[s] = "sending" /\ ~Connect(s)
        /\ calls'[s] = calls[s] + 1 /\ toClient' = toClient
    BY <1>t, <1>9 DEF Begin, Moves, Connect
  <2>3. Silence(s) /\ Answered(s) /\ ~InHand(s) /\ Met(s)
    BY <1>0, <2>2 DEF Wire
  <2>4. toServer'[s] = <<k>>
    BY <1>t, <2>1, <2>3, OneMessage DEF Writes, Silence
  <2>5. Outstanding(s)'
    BY <1>3, <2>2, <2>3 DEF Outstanding, Answered
  <2>6. Sending(s)'
    BY <1>2, <1>6, <2>2, <2>3, <2>4, <2>5 DEF Sending, Silence
  <2> QED
    BY <2>2, <2>6 DEF Wire
<1>10. CASE SendBody(s)
  <2>1. /\ client[s] = "sending" /\ client'[s] = "calling" /\ ~Connect(s)
        /\ toServer'[s] = Append(toServer[s], "body")
        /\ UNCHANGED <<toClient, calls>>
    BY <1>t, <1>10 DEF SendBody, Moves, Writes, Connect
  <2>2. Sending(s)
    BY <1>0, <2>1 DEF Wire
  <2>3. \/ InHand(s) /\ pc = "body" /\ toServer'[s] = <<"body">>
        \/ ~InHand(s) /\ \E k \in Kind : toServer'[s] = <<k, "body">>
    <3>1. CASE InHand(s)
      BY <2>1, <2>2, <3>1, OneMessage DEF Sending
    <3>2. CASE ~InHand(s)
      <4>1. PICK k \in Kind : toServer[s] = <<k>>
        BY <2>2, <3>2 DEF Sending
      <4>2. toServer'[s] = <<k, "body">>
        BY <2>1, <4>1, TwoMessages
      <4> QED
        BY <3>2, <4>2
    <3> QED
      BY <3>1, <3>2
  <2>4. Calling(s)'
    BY <1>2, <1>3, <1>6, <2>1, <2>2, <2>3 DEF Sending, Calling, Outstanding
  <2> QED
    BY <2>1, <2>4 DEF Wire
<1>11. CASE Return(s)
  <2>1. /\ client[s] = "calling" /\ client'[s] = "ready" /\ ~Connect(s)
        /\ toClient[s] # <<>> /\ toClient'[s] = Tail(toClient[s])
        /\ UNCHANGED <<toServer, calls>>
    BY <1>t, <1>11 DEF Return, Moves, Reads, Connect
  <2>2. /\ ~InHand(s) /\ toServer[s] = <<>> /\ toClient[s] = <<"answer">>
        /\ Answered(s) /\ Met(s)
    BY <1>0, <2>1 DEF Wire, Calling, Silence
  <2>3. toClient'[s] = <<>>
    BY <2>1, <2>2, OneMessage
  <2> QED
    BY <1>2, <1>3, <1>6, <2>1, <2>2, <2>3 DEF Wire, Silence, Answered, Met
<1>12. CASE Fail(s) \/ Close(s) \/ Die(s)
  <2>1. /\ client[s] \in ClientStates \ {"off"} /\ client'[s] = "closed"
        /\ ~Connect(s) /\ UNCHANGED <<toServer, toClient, calls>>
    BY <1>t, <1>12 DEF Fail, Close, Die, Moves, Connect, ClientStates
  <2>2. Closed(s)
    <3>1. CASE client[s] \in {"connecting", "hello", "ready"}
      BY <1>0, <1>t, <3>1 DEF Wire, Greeting, Silence, Answered, Closed
    <3>2. CASE client[s] = "sending"
      <4>1. Sending(s) /\ served[s] < calls[s]
        BY <1>0, <1>t, <3>2 DEF Wire, Sending, Outstanding
      <4> QED
        BY <4>1 DEF Sending, Met, Closed
    <3>3. CASE client[s] = "calling"
      <4>1. /\ Calling(s)
            /\ Outstanding(s) => served[s] < calls[s]
            /\ Answered(s) => served[s] <= calls[s]
        BY <1>0, <1>t, <3>3 DEF Wire, Outstanding, Answered
      <4> QED
        BY <4>1 DEF Calling, Silence, Met, Closed
    <3>4. CASE client[s] = "closed"
      BY <1>0, <3>4 DEF Wire
    <3> QED
      BY <2>1, <3>1, <3>2, <3>3, <3>4 DEF ClientStates
  <2>3. Closed(s)'
    BY <1>2, <1>3, <1>5, <2>1, <2>2 DEF Closed
  <2> QED
    BY <2>1, <2>3 DEF Wire
<1> QED
  BY <1>4, <1>7, <1>8, <1>9, <1>10, <1>11, <1>12 DEF FrontEnd, Proceed

(* The messages of every session stay in order.                            *)
LEMMA WiresNext ==
  ASSUME DaemonInv, [Next]_vars
  PROVE  Wires'
<1> SUFFICES ASSUME NEW s \in Session PROVE Wire(s)'
  BY DEF Wires
<1>1. CASE Daemon
  <2>1. CASE \/ PollActivity \/ PollTimeout \/ Leave \/ HangUp \/ Skip \/ Attend
             \/ EndScan \/ Accept
    BY <2>1, WireWhileScanning
  <2>2. CASE ReadType \/ ReadBody \/ ReadGarbage \/ Handle \/ Reply
    BY <2>2, WireOfOthers, WireReadType, WireInHand
  <2>3. CASE Verify \/ VerifyEof
    BY <2>3, WireVerify, WireVerifyOther
  <2> QED
    BY <1>1, <2>1, <2>2, <2>3 DEF Daemon
<1>2. CASE \E t \in Session : FrontEnd(t)
  BY <1>2, WireOfFrontEnd, WireOfOtherFrontEnds
<1>3. CASE UNCHANGED vars
  <2>1. Wire(s)
    BY DEF DaemonInv, Wires
  <2> QED
    BY <1>3, <2>1
       DEF vars, loop, front, Wire, Silence, Greeting, Sending, Calling, Closed,
           Met, Polled, Unmet, InHand, Peer, Current, Outstanding, Answered
<1> QED
  BY <1>1, <1>2, <1>3 DEF Next

-----------------------------------------------------------------------------
(* Theorems.                                                               *)

(* The invariant holds in every state, front ends killed or not.           *)
THEOREM DaemonInvariant == Spec => []DaemonInv
<1>1. Init => DaemonInv
  <2> SUFFICES ASSUME Init PROVE DaemonInv
    OBVIOUS
  <2>1. mFds = <<>> /\ backlog = <<>> /\ DOMAIN mFds = {} /\ DOMAIN backlog = {}
    BY DEF Init
  <2>2. TypeOK
    <3>1. /\ mFds \in Seq([fd : Fd, revents : Revents]) /\ Len(mFds) = 0
          /\ backlog \in Seq(Session)
      BY ONLY <2>1, EmptySeq
    <3>2. /\ \A s \in Session : toServer[s] = <<>> /\ toClient[s] = <<>>
          /\ <<>> \in Seq({"connected", "command", "request", "body"})
          /\ <<>> \in Seq({"verify", "answer"})
      BY EmptySeq DEF Init
    <3>3. /\ toServer \in [Session -> Seq({"connected", "command", "request", "body"})]
          /\ toClient \in [Session -> Seq({"verify", "answer"})]
      BY <3>2 DEF Init
    <3>4. /\ mMaxNumFds \in Nat /\ Len(mFds) + 1 <= mMaxNumFds
          /\ i \in 0 .. Len(mFds) + 1
      BY <3>1, InitialFdsAssumption DEF Init
    <3>5. /\ calls \in [Session -> 0 .. MaxCalls]
          /\ served \in [Session -> 0 .. MaxCalls]
      BY MaxCallsAssumption DEF Init
    <3>6. /\ pc \in Places /\ incoming \in BOOLEAN /\ work \in BOOLEAN
          /\ kind \in {"command", "request"} /\ newsock \in Fd \cup {0}
          /\ table \in [Fd -> Session \cup {Nobody}]
          /\ client \in [Session -> ClientStates]
      BY DEF Init, Places, ClientStates
    <3> QED
      BY <3>1, <3>3, <3>4, <3>5, <3>6 DEF TypeOK
  <2>3. Descriptors
    BY <2>1, NobodyAssumption DEF Init, Descriptors
  <2>4. Loop
    BY DEF Init, Loop, Scans
  <2>5. Wires
    BY DEF Init, Wires, Wire, Silence, InHand
  <2> QED
    BY <2>2, <2>3, <2>4, <2>5 DEF DaemonInv
<1>2. DaemonInv /\ [Next]_vars => DaemonInv'
  <2> SUFFICES ASSUME DaemonInv, [Next]_vars PROVE DaemonInv'
    OBVIOUS
  <2>1. TypeOK'
    <3>1. CASE UNCHANGED vars
      BY <3>1 DEF vars, loop, front, TypeOK, DaemonInv
    <3> QED
      BY <3>1, DaemonTypes, FrontEndTypes DEF Next
  <2> QED
    BY <2>1, DescriptorsNext, LoopNext, WiresNext DEF DaemonInv
<1> QED
  BY <1>1, <1>2, PTL DEF Spec

(* What OnRun and its helpers keep of their variables: indices, array and  *)
(* descriptors in range, no more calls served than made.                   *)
THEOREM DaemonTypeOK == Spec => []TypeOK
<1>1. DaemonInv => TypeOK
  BY DEF DaemonInv
<1> QED
  BY <1>1, DaemonInvariant, PTL

(* A front end whose connection was verified is among those the daemon     *)
(* polls, whoever hung up before it (HandleConnection, ReadCommands).      *)
THEOREM ConnectedIsPolledHolds == Spec => []ConnectedIsPolled
<1>1. DaemonInv => ConnectedIsPolled
  <2> SUFFICES ASSUME DaemonInv, ~Gone, NEW s \in Session, InSession(s)
               PROVE  \E k \in DOMAIN mFds : table[mFds[k].fd] = s
    BY DEF ConnectedIsPolled
  <2>1. Polled(s)
    BY DEF DaemonInv, Wires, Wire, Sending, Calling, Met, InSession
  <2> QED
    BY <2>1 DEF Polled, Gone
<1> QED
  BY <1>1, DaemonInvariant, PTL

(* The daemon leaves its loop only when no front end is in session (OnRun's*)
(* condition to break, after CheckQueue).                                  *)
THEOREM NobodyAbandonedHolds == Spec => []NobodyAbandoned
<1>1. DaemonInv => NobodyAbandoned
  <2> SUFFICES ASSUME DaemonInv, pc \in {"leaving", "exited"}, NEW s \in Session,
                      InSession(s)
               PROVE  FALSE
    BY DEF NobodyAbandoned
  <2>1. Polled(s)
    BY DEF DaemonInv, Wires, Wire, Sending, Calling, Met, InSession
  <2>2. mFds = <<>>
    BY DEF DaemonInv, Loop
  <2>3. DOMAIN mFds = {}
    BY ONLY <2>2
  <2> QED
    BY <2>1, <2>3 DEF Polled
<1> QED
  BY <1>1, DaemonInvariant, PTL

-----------------------------------------------------------------------------
(* The refinement of CallService.                                          *)

(* Where a session is with its call, by the state of its front end.        *)
LEMMA PhaseOfSession ==
  ASSUME DaemonInv, NEW s \in Session
  PROVE  /\ client[s] = "closed" => PhaseOf(s) = "ended"
         /\ client[s] \notin {"closed", "sending", "calling"} => PhaseOf(s) = "idle"
         /\ client[s] = "sending" => PhaseOf(s) = "called"
         /\ client[s] = "calling" /\ served[s] # calls[s] => PhaseOf(s) = "called"
         /\ client[s] = "calling" /\ served[s] = calls[s] => PhaseOf(s) = "done"
<1>1. client[s] = "sending" => served[s] # calls[s]
  <2>1. calls[s] \in Nat /\ served[s] \in Nat /\ Wire(s)
    BY DEF DaemonInv, TypeOK, Wires
  <2> QED
    BY <2>1 DEF Wire, Sending, Outstanding
<1> QED
  BY <1>1 DEF PhaseOf

(* Handle is the step at which a call is carried out; of no other session. *)
LEMMA HandleServes ==
  ASSUME DaemonInv, DaemonInv', Handle
  PROVE  \E s \in Session :
           /\ \A t \in Session \ {s} : PhaseOf(t)' = PhaseOf(t)
           /\ \/ PhaseOf(s)' = PhaseOf(s)
              \/ PhaseOf(s) = "called" /\ PhaseOf(s)' = "done"
<1> DEFINE p == Peer
<1>1. p \in Session /\ InHand(p) /\ pc = "handle"
  BY PeerInHand DEF Handle
<1>2. /\ UNCHANGED <<client, calls>> /\ served' = [served EXCEPT ![p] = @ + 1]
      /\ served \in [Session -> 0 .. MaxCalls]
  BY DEF Handle, front, DaemonInv, TypeOK
<1>3. ASSUME NEW s \in Session, s = p
      PROVE  /\ \A t \in Session \ {s} : PhaseOf(t)' = PhaseOf(t)
             /\ \/ PhaseOf(s)' = PhaseOf(s)
                \/ PhaseOf(s) = "called" /\ PhaseOf(s)' = "done"
  <2>1. ASSUME NEW t \in Session \ {s} PROVE PhaseOf(t)' = PhaseOf(t)
    <3>1. served'[t] = served[t]
      BY <1>2, <1>3
    <3> QED
      BY <1>2, <3>1 DEF PhaseOf
  <2>2. InHand(s) /\ client[s] \in {"calling", "closed"} /\ Wire(s)
    <3>1. InHand(s) /\ Wire(s) /\ client[s] \in {"sending", "calling", "closed"}
      BY <1>1, <1>3, HandledWasCalled DEF DaemonInv, Wires
    <3> QED
      BY <1>1, <3>1 DEF Wire, Sending
  <2>3. CASE client[s] = "closed"
    BY <1>2, <2>3 DEF PhaseOf
  <2>4. CASE client[s] = "calling"
    <3>1. Outstanding(s)
      BY <1>1, <2>2, <2>4 DEF Wire, Calling
    <3>2. /\ served[s] # calls[s] /\ served'[s] = calls[s]
          /\ calls[s] \in Nat /\ served[s] \in Nat
      BY <1>2, <1>3, <3>1 DEF Outstanding, DaemonInv, TypeOK
    <3> QED
      BY <1>2, <2>4, <3>2 DEF PhaseOf
  <2> QED
    BY <2>1, <2>2, <2>3, <2>4
<1> QED
  BY <1>1, <1>3

(* No other step of the daemon changes the phase of a call.                *)
LEMMA DaemonStutters ==
  ASSUME Daemon, ~Handle
  PROVE  UNCHANGED <<client, calls, served>>
BY DEF Daemon, PollActivity, PollTimeout, Leave, HangUp, Skip, Attend, EndScan,
       ReadType, ReadBody, ReadGarbage, Reply, Accept, Verify, VerifyEof, front

(* A front end calls, returns or ends; of no other session.                *)
LEMMA FrontEndPhases ==
  ASSUME DaemonInv, DaemonInv', NEW s \in Session, FrontEnd(s)
  PROVE  /\ \A t \in Session \ {s} : PhaseOf(t)' = PhaseOf(t)
         /\ \/ PhaseOf(s)' = PhaseOf(s)
            \/ PhaseOf(s) = "idle" /\ PhaseOf(s)' = "called"
            \/ PhaseOf(s) = "done" /\ PhaseOf(s)' = "idle"
            \/ PhaseOf(s) \in {"idle", "called", "done"} /\ PhaseOf(s)' = "ended"
<1>t. /\ client \in [Session -> ClientStates]
      /\ calls \in [Session -> 0 .. MaxCalls]
      /\ served' = served
  BY DEF DaemonInv, TypeOK, FrontEnd, Proceed, Connect, SayConnected, Connected,
         Begin, SendBody, Return, Fail, Close, Die
<1>1. ASSUME NEW t \in Session \ {s} PROVE PhaseOf(t)' = PhaseOf(t)
  <2>1. client'[t] = client[t] /\ calls'[t] = calls[t]
    BY <1>t
       DEF FrontEnd, Proceed, Connect, SayConnected, Connected, Begin, SendBody,
           Return, Fail, Close, Die, Moves
  <2> QED
    BY <1>t, <2>1 DEF PhaseOf
<1>p. /\ client[s] = "closed" => PhaseOf(s) = "ended"
      /\ client[s] \notin {"closed", "sending", "calling"} => PhaseOf(s) = "idle"
      /\ client[s] = "sending" => PhaseOf(s) = "called"
      /\ client[s] = "calling" /\ served[s] # calls[s] => PhaseOf(s) = "called"
      /\ client[s] = "calling" /\ served[s] = calls[s] => PhaseOf(s) = "done"
  BY PhaseOfSession
<1>q. /\ client'[s] = "closed" => PhaseOf(s)' = "ended"
      /\ client'[s] \notin {"closed", "sending", "calling"} => PhaseOf(s)' = "idle"
      /\ client'[s] = "sending" => PhaseOf(s)' = "called"
      /\ client'[s] = "calling" /\ served'[s] # calls'[s] => PhaseOf(s)' = "called"
  <2>1. client'[s] = "sending" => served'[s] # calls'[s]
    <3>1. calls'[s] \in Nat /\ served'[s] \in Nat /\ Wire(s)'
      BY DEF DaemonInv, TypeOK, Wires
    <3> QED
      BY <3>1 DEF Wire, Sending, Outstanding
  <2> QED
    BY <2>1 DEF PhaseOf
<1>2. CASE Connect(s) \/ SayConnected(s) \/ Connected(s)
  <2>1. /\ client[s] \in {"off", "connecting", "hello"}
        /\ client'[s] \in {"connecting", "hello", "ready"}
    BY <1>t, <1>2 DEF Connect, SayConnected, Connected, Moves
  <2> QED
    BY <1>1, <1>p, <1>q, <2>1
<1>3. CASE Begin(s)
  <2>1. client[s] = "ready" /\ client'[s] = "sending"
    BY <1>t, <1>3 DEF Begin, Moves
  <2> QED
    BY <1>1, <1>p, <1>q, <2>1
<1>4. CASE SendBody(s)
  <2>1. client[s] = "sending" /\ client'[s] = "calling" /\ calls' = calls
    BY <1>t, <1>4 DEF SendBody, Moves
  <2>2. served[s] # calls[s]
    <3>1. calls[s] \in Nat /\ served[s] \in Nat /\ Wire(s)
      BY DEF DaemonInv, TypeOK, Wires
    <3> QED
      BY <2>1, <3>1 DEF Wire, Sending, Outstanding
  <2> QED
    BY <1>t, <1>1, <1>p, <1>q, <2>1, <2>2
<1>5. CASE Return(s)
  <2>1. /\ client[s] = "calling" /\ client'[s] = "ready" /\ toClient[s] # <<>>
    BY <1>t, <1>5 DEF Return, Moves, Reads
  <2>2. served[s] = calls[s]
    BY <2>1 DEF DaemonInv, Wires, Wire, Calling, Silence, Answered
  <2> QED
    BY <1>1, <1>p, <1>q, <2>1, <2>2
<1>6. CASE Fail(s) \/ Close(s) \/ Die(s)
  <2>1. client[s] \in ClientStates \ {"closed"} /\ client'[s] = "closed"
    BY <1>t, <1>6 DEF Fail, Close, Die, Moves, ClientStates
  <2> QED
    BY <1>1, <1>p, <1>q, <2>1 DEF ClientStates
<1> QED
  BY <1>2, <1>3, <1>4, <1>5, <1>6 DEF FrontEnd, Proceed

(* The step simulation: every step of the daemon or a front end is a step  *)
(* of CallService or leaves all phases as they are.                        *)
LEMMA StepImplements ==
  ASSUME DaemonInv, DaemonInv', [Next]_vars
  PROVE  [Service!Next]_([s \in Session |-> PhaseOf(s)])
<1> DEFINE phase == [s \in Session |-> PhaseOf(s)]
<1>1. ASSUME NEW s \in Session, NEW p, PhaseOf(s)' = p,
             \A t \in Session \ {s} : PhaseOf(t)' = PhaseOf(t)
      PROVE  phase' = [phase EXCEPT ![s] = p]
  BY <1>1
<1>2. ASSUME \A t \in Session : PhaseOf(t)' = PhaseOf(t)
      PROVE  phase' = phase
  BY <1>2
<1>3. CASE Handle
  <2>1. PICK s \in Session :
          /\ \A t \in Session \ {s} : PhaseOf(t)' = PhaseOf(t)
          /\ \/ PhaseOf(s)' = PhaseOf(s)
             \/ PhaseOf(s) = "called" /\ PhaseOf(s)' = "done"
    BY <1>3, HandleServes
  <2>2. CASE PhaseOf(s)' = PhaseOf(s)
    BY <1>2, <2>1, <2>2
  <2>3. CASE PhaseOf(s) = "called" /\ PhaseOf(s)' = "done"
    <3>1. phase[s] \in {"called"} /\ phase' = [phase EXCEPT ![s] = "done"]
      BY <1>1, <2>1, <2>3
    <3> QED
      BY <3>1 DEF Service!Next, Service!Serve, Service!Step
  <2> QED
    BY <2>1, <2>2, <2>3
<1>4. CASE Daemon /\ ~Handle
  <2>1. \A t \in Session : PhaseOf(t)' = PhaseOf(t)
    BY <1>4, DaemonStutters DEF PhaseOf
  <2> QED
    BY <1>2, <2>1
<1>5. ASSUME NEW s \in Session, FrontEnd(s) PROVE [Service!Next]_phase
  <2>1. \A t \in Session \ {s} : PhaseOf(t)' = PhaseOf(t)
    BY <1>5, FrontEndPhases
  <2>2. CASE PhaseOf(s)' = PhaseOf(s)
    BY <1>2, <2>1, <2>2
  <2>3. CASE PhaseOf(s) = "idle" /\ PhaseOf(s)' = "called"
    <3>1. phase[s] \in {"idle"} /\ phase' = [phase EXCEPT ![s] = "called"]
      BY <1>1, <2>1, <2>3
    <3> QED
      BY <3>1 DEF Service!Next, Service!Call, Service!Step
  <2>4. CASE PhaseOf(s) = "done" /\ PhaseOf(s)' = "idle"
    <3>1. phase[s] \in {"done"} /\ phase' = [phase EXCEPT ![s] = "idle"]
      BY <1>1, <2>1, <2>4
    <3> QED
      BY <3>1 DEF Service!Next, Service!Return, Service!Step
  <2>5. CASE PhaseOf(s) \in {"idle", "called", "done"} /\ PhaseOf(s)' = "ended"
    <3>1. /\ phase[s] \in {"idle", "called", "done"}
          /\ phase' = [phase EXCEPT ![s] = "ended"]
      BY <1>1, <2>1, <2>5
    <3> QED
      BY <3>1 DEF Service!Next, Service!End, Service!Step
  <2> QED
    BY <1>5, <2>2, <2>3, <2>4, <2>5, FrontEndPhases
<1>6. CASE UNCHANGED vars
  <2>1. \A t \in Session : PhaseOf(t)' = PhaseOf(t)
    BY <1>6 DEF vars, front, PhaseOf
  <2> QED
    BY <1>2, <2>1
<1> QED
  BY <1>3, <1>4, <1>5, <1>6 DEF Next

(* A call is carried out exactly once, between its beginning and its       *)
(* return, whichever front ends are killed: the safety part of CallService *)
(* is implemented (Execute and Request against ReadCommands).              *)
THEOREM ExactlyOnceHolds == Spec => ExactlyOnce
<1>1. Init => Service!Init
  BY DEF Init, Service!Init, PhaseOf
<1>2. DaemonInv /\ DaemonInv' /\ [Next]_vars
      => [Service!Next]_([s \in Session |-> PhaseOf(s)])
  BY StepImplements
<1> QED
  BY <1>1, <1>2, DaemonInvariant, PTL DEF Spec, ExactlyOnce, Service!Safety

-----------------------------------------------------------------------------
(* While front ends are not killed: mFds is what was accepted.             *)

(* A front end closes only when it is in session, so that none hangs up    *)
(* before it was verified.                                                 *)
UnmetIsOpen == \A s \in Session : ~Gone /\ Unmet(s) => client[s] # "closed"

FdsOnce == \A k, l \in DOMAIN mFds : mFds[k].fd = mFds[l].fd => k = l

FdsAreOpen ==
  \A f \in Fd : (\E k \in DOMAIN mFds : mFds[k].fd = f)
                <=> table[f] # Nobody /\ f # newsock

NewsockIsNew == pc \notin {"verify", "killed"} => newsock = 0

Mirror == UnmetIsOpen /\ FdsOnce /\ FdsAreOpen /\ NewsockIsNew

(* Nothing but Die closes a front end that was not met.                    *)
LEMMA UnmetIsOpenNext ==
  ASSUME ~ClientsMayDie, DaemonInv, UnmetIsOpen, [Next]_vars
  PROVE  UnmetIsOpen'
<1> SUFFICES ASSUME NEW s \in Session, ~Gone', Unmet(s)', client'[s] = "closed"
             PROVE  FALSE
  BY DEF UnmetIsOpen
<1>t. /\ client \in [Session -> ClientStates] /\ backlog \in Seq(Session)
      /\ table \in [Fd -> Session \cup {Nobody}] /\ Wire(s)
  BY DEF DaemonInv, TypeOK, Wires
<1>1. CASE Accept
  <2>1. client[s] = "closed" /\ ~Gone
    BY <1>1 DEF Accept, Gone
  <2>2. table[newsock'] = Nobody /\ newsock' \in Fd
        /\ table' = [table EXCEPT ![newsock'] = backlog[1]]
        /\ 1 \in DOMAIN backlog
        /\ \A b \in DOMAIN backlog' : \E a \in DOMAIN backlog : backlog'[b] = backlog[a]
    BY <1>1, AcceptEntries
  <2>3. Unmet(s)
    BY <1>t, <2>2 DEF Unmet
  <2> QED
    BY <2>1, <2>3 DEF UnmetIsOpen
<1>2. CASE Daemon /\ ~Accept
  <2>1. client[s] = "closed" /\ ~Gone
    BY <1>2
       DEF Daemon, PollActivity, PollTimeout, Leave, HangUp, Skip, Attend, EndScan,
           ReadType, ReadBody, ReadGarbage, Handle, Reply, Verify, VerifyEof,
           Scanning, Gone, front
  <2>2. backlog' = backlog /\ pc' # "verify"
    BY <1>2
       DEF Daemon, PollActivity, PollTimeout, Leave, HangUp, Skip, Attend, EndScan,
           ReadType, ReadBody, ReadGarbage, Handle, Reply, Verify, VerifyEof,
           Scanning, front
  <2>3. Unmet(s)
    BY <2>2 DEF Unmet
  <2> QED
    BY <2>1, <2>3 DEF UnmetIsOpen
<1>3. ASSUME NEW t \in Session, FrontEnd(t) PROVE FALSE
  <2>1. UNCHANGED <<pc, table, newsock>> /\ ~Gone
    BY <1>3
       DEF FrontEnd, Proceed, Connect, SayConnected, Connected, Begin, SendBody,
           Return, Fail, Close, Die, loop, Gone
  <2>2. client[s] = "closed" \/ (s = t /\ Close(t))
    BY <1>t, <1>3, <2>1
       DEF FrontEnd, Proceed, Connect, SayConnected, Connected, Begin, SendBody,
           Return, Fail, Close, Die, Moves
  <2>3. CASE s = t /\ Close(t)
    <3>1. client[s] = "ready" /\ backlog' = backlog
      BY <2>3 DEF Close, Moves
    <3>2. ~Unmet(s)
      BY <1>t, <3>1 DEF Wire, Met
    <3> QED
      BY <2>1, <3>1, <3>2 DEF Unmet
  <2>4. CASE client[s] = "closed"
    <3>1. ~Unmet(s)
      BY <2>1, <2>4 DEF UnmetIsOpen
    <3>2. CASE backlog' = backlog
      BY <2>1, <3>1, <3>2 DEF Unmet
    <3>3. CASE backlog' = Append(backlog, t) /\ client[t] = "off"
      <4>1. backlog \in Seq(Session)
        BY <1>t
      <4>2. /\ Len(backlog) \in Nat /\ DOMAIN backlog = 1 .. Len(backlog)
            /\ DOMAIN backlog' = 1 .. Len(backlog) + 1
            /\ \A b \in DOMAIN backlog : backlog'[b] = backlog[b]
            /\ backlog'[Len(backlog) + 1] = t
        BY ONLY <3>3, <4>1, t \in Session, AppendProperties, LenProperties
      <4>3. \A b \in DOMAIN backlog' : b \in DOMAIN backlog \/ backlog'[b] = t
        BY <4>2
      <4>4. s # t
        BY <2>4, <3>3
      <4> QED
        BY <2>1, <3>1, <4>2, <4>3, <4>4 DEF Unmet
    <3>4. backlog' = backlog \/ (backlog' = Append(backlog, t) /\ client[t] = "off")
      BY <1>3
         DEF FrontEnd, Proceed, Connect, SayConnected, Connected, Begin, SendBody,
             Return, Fail, Close, Die, Moves
    <3> QED
      BY <3>2, <3>3, <3>4
  <2> QED
    BY <2>2, <2>3, <2>4
<1>4. CASE UNCHANGED vars
  BY <1>4 DEF vars, loop, front, UnmetIsOpen, Unmet, Gone
<1> QED
  BY <1>1, <1>2, <1>3, <1>4 DEF Next

(* Each step keeps mFds and the table of descriptors in agreement: a hang- *)
(* up takes an entry out and closes its descriptor, and a descriptor that  *)
(* was accepted is added when it was verified.                             *)
LEMMA MirrorNext ==
  ASSUME ~ClientsMayDie, DaemonInv, Mirror, [Next]_vars
  PROVE  Mirror'
<1>t. table \in [Fd -> Session \cup {Nobody}]
  BY DEF DaemonInv, TypeOK
<1>m. /\ Len(mFds) \in Nat /\ DOMAIN mFds = 1 .. Len(mFds)
      /\ mFds \in Seq([fd : Fd, revents : Revents])
      /\ \A k \in DOMAIN mFds : mFds[k].fd \in Fd
  BY Entry DEF DaemonInv, TypeOK
<1>0. UnmetIsOpen'
  BY UnmetIsOpenNext DEF Mirror
<1>n. NewsockIsNew'
  BY DEF Mirror, NewsockIsNew, Next, Daemon, PollActivity, PollTimeout, Leave,
         HangUp, Skip, Attend, EndScan, ReadType, ReadBody, ReadGarbage, Handle,
         Reply, Accept, Verify, VerifyEof, FrontEnd, Proceed, Connect,
         SayConnected, Connected, Begin, SendBody, Return, Fail, Close, Die,
         Scanning, vars, loop
<1>1. CASE UNCHANGED <<mFds, table, newsock>>
  BY <1>0, <1>n, <1>1 DEF Mirror, FdsOnce, FdsAreOpen
<1>2. CASE PollActivity
  <2>1. /\ DOMAIN mFds' = DOMAIN mFds /\ UNCHANGED <<table, newsock>>
        /\ \A k \in DOMAIN mFds : mFds'[k].fd = mFds[k].fd
    BY <1>2 DEF PollActivity
  <2> QED
    BY <1>0, <1>n, <2>1 DEF Mirror, FdsOnce, FdsAreOpen
<1>3. CASE HangUp
  <2>1. i \in DOMAIN mFds /\ newsock = 0 /\ newsock' = 0
    BY <1>3, HangUpEntries DEF HangUp, Scanning, Mirror, NewsockIsNew
  <2>h. /\ mFds' \in Seq([fd : Fd, revents : Revents])
        /\ Len(mFds') = Len(mFds) - 1
        /\ \A k \in 1 .. Len(mFds) - 1 :
             mFds'[k] = IF k < i THEN mFds[k] ELSE mFds[k + 1]
    BY <1>m, <1>3, <2>1, RemoveAtProperties DEF HangUp
  <2>2. /\ DOMAIN mFds' = 1 .. Len(mFds) - 1
        /\ \A k \in DOMAIN mFds' :
             mFds'[k] = IF k < i THEN mFds[k] ELSE mFds[k + 1]
    BY <2>h, LenProperties
  <2>3. FdsOnce'
    <3> SUFFICES ASSUME NEW k \in DOMAIN mFds', NEW l \in DOMAIN mFds',
                        mFds'[k].fd = mFds'[l].fd
                 PROVE  k = l
      BY DEF FdsOnce
    <3> DEFINE up(x) == IF x < i THEN x ELSE x + 1
    <3>1. up(k) \in DOMAIN mFds /\ up(l) \in DOMAIN mFds
      BY <1>m, <2>1, <2>2
    <3>2. mFds'[k] = mFds[up(k)] /\ mFds'[l] = mFds[up(l)]
      BY <2>2
    <3>3. up(k) = up(l)
      <4> HIDE DEF up
      <4> QED
        BY <3>1, <3>2 DEF Mirror, FdsOnce
    <3> QED
      BY <1>m, <2>1, <2>2, <3>3
  <2>4. /\ \A k \in DOMAIN mFds' : \E l \in DOMAIN mFds : l # i /\ mFds'[k] = mFds[l]
        /\ \A l \in DOMAIN mFds : l # i => \E k \in DOMAIN mFds' : mFds'[k] = mFds[l]
    <3>1. ASSUME NEW k \in DOMAIN mFds'
          PROVE  \E l \in DOMAIN mFds : l # i /\ mFds'[k] = mFds[l]
      <4>1. CASE k < i
        <5>1. k \in DOMAIN mFds /\ k # i /\ mFds'[k] = mFds[k]
          BY <1>m, <2>1, <2>2, <4>1
        <5> QED
          BY <5>1
      <4>2. CASE ~(k < i)
        <5>1. k + 1 \in DOMAIN mFds /\ k + 1 # i /\ mFds'[k] = mFds[k + 1]
          BY <1>m, <2>1, <2>2, <4>2
        <5> QED
          BY <5>1
      <4> QED
        BY <4>1, <4>2
    <3> QED
      BY <1>3, <3>1, HangUpEntries
  <2>5. FdsAreOpen'
    <3> SUFFICES ASSUME NEW f \in Fd
                 PROVE  (\E k \in DOMAIN mFds' : mFds'[k].fd = f)
                        <=> table'[f] # Nobody /\ f # 0
      BY <2>1 DEF FdsAreOpen
    <3>1. table'[f] = IF f = mFds[i].fd THEN Nobody ELSE table[f]
      BY <1>t, <1>3 DEF HangUp, Current
    <3>2. (\E k \in DOMAIN mFds : mFds[k].fd = f) <=> table[f] # Nobody /\ f # 0
      BY <2>1 DEF Mirror, FdsAreOpen
    <3>3. \A l \in DOMAIN mFds : mFds[l].fd = mFds[i].fd => l = i
      BY <2>1 DEF Mirror, FdsOnce
    <3>4. (\E k \in DOMAIN mFds' : mFds'[k].fd = f)
          <=> (\E l \in DOMAIN mFds : l # i /\ mFds[l].fd = f)
      BY <2>4
    <3> QED
      BY <3>1, <3>2, <3>3, <3>4
  <2> QED
    BY <1>0, <1>n, <2>3, <2>5 DEF Mirror
<1>4. CASE Accept
  <2>1. /\ newsock' \in Fd /\ table[newsock'] = Nobody /\ mFds' = mFds
        /\ table' = [table EXCEPT ![newsock'] = backlog[1]]
        /\ backlog[1] \in Session /\ newsock = 0
    BY <1>4, AcceptEntries DEF Accept, Mirror, NewsockIsNew
  <2>2. 0 \notin Fd
    BY DEF Fd
  <2>3. FdsAreOpen'
    BY <1>t, <2>1, <2>2, NobodyAssumption DEF Mirror, FdsAreOpen
  <2> QED
    BY <1>0, <1>n, <2>1, <2>3 DEF Mirror, FdsOnce
<1>5. CASE Verify \/ VerifyEof
  <2>1. /\ newsock \in Fd /\ table[newsock] \in Session /\ pc = "verify"
        /\ Unmet(table[newsock]) /\ ~Gone
    BY <1>t, <1>5 DEF Verify, VerifyEof, DaemonInv, Loop, Unmet, Gone
  <2>2. client[table[newsock]] # "closed"
    BY <2>1 DEF Mirror, UnmetIsOpen
  <2>3. AddFd(newsock) /\ newsock' = 0 /\ table' = table
    BY <1>5, <2>1, <2>2, NobodyAssumption DEF Verify, VerifyEof, AtEof
  <2>4. /\ [fd |-> newsock, revents |-> "none"] \in [fd : Fd, revents : Revents]
        /\ mFds' = Append(mFds, [fd |-> newsock, revents |-> "none"])
    BY <2>1, <2>3 DEF AddFd, Revents
  <2>5. /\ DOMAIN mFds' = 1 .. Len(mFds) + 1
        /\ \A k \in DOMAIN mFds : mFds'[k] = mFds[k]
        /\ mFds'[Len(mFds) + 1].fd = newsock
    BY <1>m, <2>4, AppendProperties, LenProperties
  <2>6. \A k \in DOMAIN mFds' : k \in DOMAIN mFds \/ k = Len(mFds) + 1
    BY <1>m, <2>5
  <2>7. Len(mFds) + 1 \in DOMAIN mFds' /\ DOMAIN mFds \subseteq DOMAIN mFds'
    BY <1>m, <2>5
  <2>8. \A k \in DOMAIN mFds : mFds[k].fd # newsock
    BY <2>1 DEF Mirror, FdsAreOpen
  <2>9. FdsOnce'
    BY <2>5, <2>6, <2>8 DEF Mirror, FdsOnce
  <2>10. FdsAreOpen'
    <3>1. 0 \notin Fd
      BY DEF Fd
    <3> QED
      BY <2>1, <2>3, <2>5, <2>6, <2>7, <3>1, NobodyAssumption
         DEF Mirror, FdsAreOpen
  <2> QED
    BY <1>0, <1>n, <2>9, <2>10 DEF Mirror
<1>6. CASE Daemon /\ ~(PollActivity \/ HangUp \/ Accept \/ Verify \/ VerifyEof)
  <2>1. UNCHANGED <<mFds, table, newsock>>
    BY <1>6
       DEF Daemon, PollTimeout, Leave, Skip, Attend, EndScan, ReadType, ReadBody,
           ReadGarbage, Handle, Reply
  <2> QED
    BY <1>1, <2>1
<1>7. CASE (\E s \in Session : FrontEnd(s)) \/ UNCHANGED vars
  <2>1. UNCHANGED <<mFds, table, newsock>>
    BY <1>7
       DEF FrontEnd, Proceed, Connect, SayConnected, Connected, Begin, SendBody,
           Return, Fail, Close, Die, loop, vars
  <2> QED
    BY <1>1, <2>1
<1> QED
  BY <1>2, <1>3, <1>4, <1>5, <1>6, <1>7 DEF Next

(* As long as no front end is killed, mFds lists every accepted descriptor *)
(* once, none that is closed, and fits into the array with the listening   *)
(* socket (HandleConnection, ReadCommands).                                *)
THEOREM FdsMirrorTableHolds ==
  ASSUME ~ClientsMayDie
  PROVE  Spec => []FdsMirrorTable
<1>1. Init => Mirror
  BY NobodyAssumption
     DEF Init, Mirror, UnmetIsOpen, Unmet, FdsOnce, FdsAreOpen, NewsockIsNew
<1>2. DaemonInv /\ Mirror /\ [Next]_vars => Mirror'
  BY MirrorNext
<1>3. DaemonInv /\ Mirror => FdsMirrorTable
  <2> SUFFICES ASSUME DaemonInv, Mirror PROVE FdsMirrorTable
    OBVIOUS
  <2>1. Len(mFds) + 1 <= mMaxNumFds /\ \A k \in DOMAIN mFds : mFds[k].fd \in Fd
    BY Entry DEF DaemonInv, TypeOK
  <2>2. {mFds[k].fd : k \in DOMAIN mFds}
          = {f \in Fd : table[f] # Nobody} \ {newsock}
    BY <2>1 DEF Mirror, FdsAreOpen
  <2> QED
    BY <2>1, <2>2 DEF Mirror, FdsOnce, FdsMirrorTable
<1> QED
  BY <1>1, <1>2, <1>3, DaemonInvariant, PTL DEF Spec
=============================================================================
