-------------------------- MODULE QuicClientProofs --------------------------
(***************************************************************************)
(* The retransmission client, for any number of streams, numbers and       *)
(* connections and for packets of any length: one request is on its way at *)
(* a time, it gets its own answer, and it leaves nothing behind.           *)
(***************************************************************************)
EXTENDS QuicClient, SequenceTheorems, TLAPS

-----------------------------------------------------------------------------
(* Inductive invariants. *)

\* The places where a stream uses QuicConn, and where it reads on the connection
\* it took from there.
Using == {"ssrc", "ssrc2", "seq", "read"}
Reading == {"accept", "len", "data"}

\* One stream is inside the lock, and it refers to a connection while it reads.
MutexInv ==
    \A s \in Streams :
        /\ pc[s] \notin {"idle", "lock"} => lock = s
        /\ pc[s] \notin Reading \cup {"return"} => c[s] = 0
        /\ pc[s] \in Reading => c[s] \in Conns

\* Whoever is about to use a nil connection had it taken away, or dialled none.
HolderInv ==
    \A s \in Streams :
        pc[s] \in Using /\ quicConn = 0 => "cleared" \in causes \/ "noStream" \in causes

\* Until a dial replaces it, CloseQuic has the connection it began with, and that
\* keeps its data stream.
CloserInv ==
    closer # "idle" /\ "replaced" \notin causes =>
        /\ quicConn # 0
        /\ closer = "closeData" => conns[quicConn].data

NilInv == HolderInv /\ CloserInv /\ NilNeedsCause

\* Nothing is on a connection.
Quiet(k) == k.req = <<>> /\ k.lens = <<>> /\ k.dat = <<>>

\* What is on a connection belongs to the request of stream s: the half of it that
\* was written, all of it, or one of the two answers.
Talk(k, s) ==
    \/ k.req = <<s>> /\ k.lens = <<>> /\ k.dat = <<>>
    \/ k.req = <<s, want[s]>> /\ k.lens = <<>> /\ k.dat = <<>>
    \/ k.req = <<>> /\ k.lens = <<0>> /\ k.dat = <<>>
    \/ k.req = <<>> /\ k.lens = <<PacketLen>> /\ k.dat = Packet(s, want[s])

\* Stream s is at the place where that may be on connection i.  The connection it
\* wrote to may have been taken away from QuicConn.
Talks(s, i) ==
    \/ /\ pc[s] = "seq" /\ quicConn \in {0, i}
       /\ conns[i].req = <<s>> /\ conns[i].lens = <<>> /\ conns[i].dat = <<>>
    \/ pc[s] = "read" /\ quicConn \in {0, i} /\ Talk(conns[i], s)
    \/ pc[s] \in {"accept", "len"} /\ c[s] = i /\ Talk(conns[i], s)
    \/ /\ pc[s] = "data" /\ c[s] = i /\ length[s] = PacketLen
       /\ conns[i].req = <<>> /\ conns[i].lens = <<>>
       /\ conns[i].dat = Packet(s, want[s])

\* A connection is quiet unless a stream inside the lock talks on it; a number is
\* only written behind its SSRC.
TalkInv ==
    /\ \A i \in Conns :
          /\ ~conns[i].alive => Quiet(conns[i])
          /\ Quiet(conns[i]) \/ \E s \in Streams : Talks(s, i)
    /\ \A s \in Streams :
          pc[s] = "seq" /\ quicConn # 0 /\ Quiet(conns[quicConn]) =>
              ~Writable(quicConn)

-----------------------------------------------------------------------------
(* Short sequences: the words of a request and the length of an answer. *)

LEMMA Words ==
    ASSUME NEW S, NEW x \in S, NEW y \in S
    PROVE  /\ <<>> \in Seq(S) /\ <<x>> \in Seq(S) /\ <<x, y>> \in Seq(S)
           /\ Len(<<>>) = 0 /\ Len(<<x>>) = 1 /\ Len(<<x, y>>) = 2
           /\ Append(<<>>, x) = <<x>>
           /\ Append(<<x>>, y) = <<x, y>>
           /\ Tail(<<x>>) = <<>> /\ Head(<<x>>) = x
           /\ SubSeq(<<x, y>>, 3, Len(<<x, y>>)) = <<>>
<1>1. <<>> \in Seq(S) /\ <<x>> \in Seq(S) /\ <<x, y>> \in Seq(S)
  OBVIOUS
<1>2. Len(<<>>) = 0 /\ Len(<<x>>) = 1 /\ Len(<<x, y>>) = 2
  OBVIOUS
<1>3. Append(<<>>, x) = <<x>>
  OBVIOUS
<1>4. Append(<<x>>, y) = <<x, y>>
  <2>1. Append(<<x>>, y) \in Seq(S) /\ Len(Append(<<x>>, y)) = 2
    BY <1>1, <1>2, AppendProperties
  <2>2. Append(<<x>>, y)[1] = x /\ Append(<<x>>, y)[2] = y
    BY <1>1, <1>2, AppendProperties
  <2>3. <<x, y>>[1] = x /\ <<x, y>>[2] = y
    OBVIOUS
  <2>4. \A k \in 1 .. 2 : Append(<<x>>, y)[k] = <<x, y>>[k]
    BY <2>2, <2>3
  <2> QED BY <1>1, <1>2, <2>1, <2>4, SeqEqual
<1>5. Tail(<<x>>) = <<>>
  OBVIOUS
<1>6. Head(<<x>>) = x
  OBVIOUS
<1>7. SubSeq(<<x, y>>, 3, Len(<<x, y>>)) = <<>>
  BY <1>2
<1> QED BY <1>1, <1>2, <1>3, <1>4, <1>5, <1>6, <1>7

\* A packet is PacketLen units; read in one piece, nothing of it is left.
LEMMA PacketType ==
    ASSUME NEW s \in Streams, NEW q \in Seqs
    PROVE  /\ Packet(s, q) \in Seq(Unit)
           /\ Len(Packet(s, q)) = PacketLen
           /\ <<>> \o Packet(s, q) = Packet(s, q)
           /\ SubSeq(Packet(s, q), 1, PacketLen) = Packet(s, q)
           /\ SubSeq(Packet(s, q), PacketLen + 1, PacketLen) = <<>>
           /\ Packet(s, q)[1].part = 1
<1> DEFINE p == Packet(s, q)
<1>1. PacketLen \in Nat \ {0}
  BY QuicAssumption
<1>2. p = [k \in 1 .. PacketLen |-> [ssrc |-> s, seq |-> q, part |-> k]]
  BY DEF Packet
<1>3. \A k \in 1 .. PacketLen : [ssrc |-> s, seq |-> q, part |-> k] \in Unit
  BY DEF Unit
<1>4. p \in Seq(Unit) /\ Len(p) = PacketLen
  BY <1>1, <1>2, <1>3
<1>5. p[1].part = 1
  BY <1>1, <1>2
<1> HIDE DEF p
<1>6. <<>> \o p = p
  BY <1>4
<1>7. SubSeq(p, 1, PacketLen) = p
  BY <1>1, <1>4
<1>8. SubSeq(p, PacketLen + 1, PacketLen) = <<>>
  BY <1>1, <1>4
<1> QED BY <1>4, <1>5, <1>6, <1>7, <1>8 DEF p

-----------------------------------------------------------------------------
(* The connections. *)

\* What VarTypes says of a connection, field by field.
LEMMA ConnType ==
    ASSUME VarTypes, NEW i \in Conns
    PROVE  /\ conns[i] \in ConnState
           /\ conns[i].alive \in BOOLEAN /\ conns[i].info \in BOOLEAN
           /\ conns[i].data \in BOOLEAN /\ conns[i].offered \in BOOLEAN
           /\ conns[i].req \in Seq(Streams \cup Seqs)
           /\ conns[i].lens \in Seq({0, PacketLen})
           /\ conns[i].dat \in Seq(Unit)
<1>1. conns[i] \in ConnState
  BY DEF VarTypes
<1> QED BY <1>1 DEF ConnState

\* A step that changes one connection leaves the others alone.
LEMMA ConnUpdate ==
    ASSUME VarTypes, NEW i \in Conns, NEW r \in ConnState,
           conns' = [conns EXCEPT ![i] = r]
    PROVE  /\ conns' \in [Conns -> ConnState]
           /\ conns'[i] = r
           /\ \A j \in Conns : j # i => conns'[j] = conns[j]
  BY DEF VarTypes

\* A new connection and one that was lost carry nothing.
LEMMA FreshConns ==
    /\ NewConn \in ConnState /\ NewConn.alive /\ Quiet(NewConn)
    /\ Dead \in ConnState /\ ~Dead.alive /\ Quiet(Dead)
<1>1. NewConn \in ConnState /\ NewConn.alive /\ Quiet(NewConn)
  BY DEF NewConn, ConnState, Quiet
<1>2. Dead = [NewConn EXCEPT !.alive = FALSE]
  BY DEF Dead
<1>3. Dead \in ConnState /\ ~Dead.alive /\ Quiet(Dead)
  BY <1>1, <1>2 DEF ConnState, Quiet
<1> QED BY <1>1, <1>3

\* A lost connection carries nothing, and keeps its data stream.
LEMMA LoseEffect ==
    ASSUME VarTypes, NEW i \in Conns, Lose(i)
    PROVE  /\ conns' \in [Conns -> ConnState]
           /\ ~conns'[i].alive /\ Quiet(conns'[i])
           /\ conns'[i].data = conns[i].data
           /\ \A j \in Conns : j # i => conns'[j] = conns[j]
<1> DEFINE r == Lost(conns[i])
<1>1. conns' = [conns EXCEPT ![i] = r]
  BY DEF Lose
<1>2. r = [Dead EXCEPT !.data = conns[i].data]
  BY DEF Lost
<1>3. conns[i].data \in BOOLEAN
  BY ConnType
<1>4. /\ r \in ConnState /\ ~r.alive /\ Quiet(r)
      /\ r.data = conns[i].data
  <2> HIDE DEF r
  <2> QED BY <1>2, <1>3, FreshConns DEF ConnState, Quiet
<1> HIDE DEF r
<1>5. /\ conns' \in [Conns -> ConnState] /\ conns'[i] = r
      /\ \A j \in Conns : j # i => conns'[j] = conns[j]
  BY <1>1, <1>4, ConnUpdate
<1> QED BY <1>4, <1>5

-----------------------------------------------------------------------------
(* The lock. *)

\* While one stream is inside the lock no other one is, and none refers to a
\* connection.
LEMMA Alone ==
    ASSUME VarTypes, MutexInv, NEW s \in Streams, pc[s] \notin {"idle", "lock"}
    PROVE  /\ lock = s /\ s # 0
           /\ \A t \in Streams : t # s => pc[t] \in {"idle", "lock"} /\ c[t] = 0
  BY QuicAssumption DEF MutexInv, VarTypes, Reading

\* Whoever dials refers to no connection yet, so that another one is there.
LEMMA FreeType ==
    ASSUME VarTypes, MutexInv, NEW s \in Streams, pc[s] \in {"dial", "redial"}
    PROVE  Free \in Conns /\ Free # quicConn /\ Free # 0
<1>1. \A t \in Streams : c[t] = 0
  BY Alone DEF MutexInv, Reading
<1>2. {c[t] : t \in Streams} \subseteq {0}
  BY <1>1
<1>3. PICK i \in Conns : i # quicConn
  BY QuicAssumption
<1>4. i \notin {quicConn} \cup {c[t] : t \in Streams}
  BY <1>2, <1>3, QuicAssumption
<1>5. Free \in Conns /\ Free \notin {quicConn} \cup {c[t] : t \in Streams}
  BY <1>4 DEF Free
<1> QED BY <1>5, QuicAssumption

-----------------------------------------------------------------------------
(* Types, and what the lock protects. *)

\* Steps of a stream that leave the connections alone.
LEMMA LocalTypes ==
    ASSUME VarTypes, MutexInv, NEW s \in Streams,
           \/ Call(s) \/ Lock(s) \/ Check(s) \/ DialNoStream(s) \/ DialFails(s)
           \/ NilConn(s) \/ ReadRtp(s) \/ ReadError(s) \/ ReadDataPanics(s)
           \/ Return(s)
    PROVE  VarTypes' /\ MutexInv'
<1>0. s # 0
  BY QuicAssumption
<1>1. CASE Call(s)
  <2>1. VarTypes'
    BY <1>1 DEF Call, VarTypes
  <2>2. MutexInv'
    BY <1>1 DEF Call, VarTypes, MutexInv, Reading
  <2> QED BY <2>1, <2>2
<1>2. CASE Lock(s)
  <2>1. VarTypes'
    BY <1>2 DEF Lock, VarTypes, callVars
  <2>2. MutexInv'
    BY <1>0, <1>2, QuicAssumption DEF Lock, VarTypes, MutexInv, Reading, callVars
  <2> QED BY <2>1, <2>2
<1>3. CASE Check(s)
  BY <1>3 DEF Check, VarTypes, MutexInv, Reading, callVars
<1>4. CASE DialNoStream(s)
  BY <1>4 DEF DialNoStream, Replaced, VarTypes, MutexInv, Reading, callVars
<1>5. CASE DialFails(s)
  BY <1>5 DEF DialFails, VarTypes, MutexInv, callVars
<1>6. CASE NilConn(s)
  BY <1>6 DEF NilConn, VarTypes, MutexInv, callVars
<1>7. CASE ReadRtp(s)
  BY <1>7 DEF ReadRtp, VarTypes, MutexInv, Reading
<1>8. CASE ReadError(s)
  BY <1>8 DEF ReadError, VarTypes, MutexInv, Reading, callVars
<1>9. CASE ReadDataPanics(s)
  BY <1>9 DEF ReadDataPanics, VarTypes, MutexInv, callVars
<1>10. CASE Return(s)
  <2>1. VarTypes'
    BY <1>10 DEF Return, VarTypes
  <2>2. \A t \in Streams : t # s => pc[t] \in {"idle", "lock"} /\ c[t] = 0
    BY <1>10, Alone DEF Return
  <2>3. MutexInv'
    BY <1>10, <2>2 DEF Return, VarTypes, MutexInv, Reading
  <2> QED BY <2>1, <2>3
<1> QED BY <1>1, <1>2, <1>3, <1>4, <1>5, <1>6, <1>7, <1>8, <1>9, <1>10

\* A word, which is a number or an SSRC, goes behind the words that are there, and
\* nothing else on the connections changes.
LEMMA WrittenEffect ==
    ASSUME VarTypes, quicConn # 0, NEW w \in Streams \cup Seqs, Written(w)
    PROVE  /\ quicConn \in Conns
           /\ conns' \in [Conns -> ConnState]
           /\ Writable(quicConn) =>
                /\ conns'[quicConn].req = Append(conns[quicConn].req, w)
                /\ conns'[quicConn].lens = conns[quicConn].lens
                /\ conns'[quicConn].dat = conns[quicConn].dat
                /\ conns'[quicConn].alive
                /\ conns'[quicConn].data = conns[quicConn].data
                /\ \A j \in Conns : j # quicConn => conns'[j] = conns[j]
           /\ ~Writable(quicConn) => conns' = conns
<1>1. quicConn \in Conns
  BY DEF VarTypes
<1>2. CASE Writable(quicConn)
  <2> DEFINE words == Append(conns[quicConn].req, w)
             r == [conns[quicConn] EXCEPT !.req = words]
  <2>1. words \in Seq(Streams \cup Seqs)
    BY <1>1, ConnType, AppendProperties
  <2>2. conns' = [conns EXCEPT ![quicConn] = r]
    BY <1>2 DEF Written
  <2> HIDE DEF words
  <2>3. /\ r \in ConnState /\ r.req = words /\ r.lens = conns[quicConn].lens
        /\ r.dat = conns[quicConn].dat /\ r.alive = conns[quicConn].alive
        /\ r.data = conns[quicConn].data
    BY <1>1, <2>1, ConnType DEF ConnState
  <2> HIDE DEF r
  <2>4. /\ conns' \in [Conns -> ConnState] /\ conns'[quicConn] = r
        /\ \A j \in Conns : j # quicConn => conns'[j] = conns[j]
    BY <1>1, <2>2, <2>3, ConnUpdate
  <2> QED BY <1>1, <1>2, <2>3, <2>4 DEF words, Writable
<1> QED BY <1>1, <1>2 DEF Written, VarTypes

\* AcceptStream, CloseInfo and Offer change flags only.
LEMMA FlagEffect ==
    ASSUME VarTypes, NEW i \in Conns,
           \/ conns' = [conns EXCEPT ![i].data = TRUE]
           \/ conns' = [conns EXCEPT ![i].info = FALSE]
           \/ conns' = [conns EXCEPT ![i].offered = TRUE]
    PROVE  /\ conns' \in [Conns -> ConnState]
           /\ \A j \in Conns :
                /\ conns'[j].req = conns[j].req /\ conns'[j].lens = conns[j].lens
                /\ conns'[j].dat = conns[j].dat /\ conns'[j].alive = conns[j].alive
                /\ conns'[j].info => conns[j].info
                /\ conns[j].data => conns'[j].data
<1> DEFINE Same(r) == /\ r \in ConnState /\ r.req = conns[i].req
                      /\ r.lens = conns[i].lens /\ r.dat = conns[i].dat
                      /\ r.alive = conns[i].alive /\ (r.info => conns[i].info)
                      /\ (conns[i].data => r.data)
<1>1. ASSUME NEW r, Same(r), conns' = [conns EXCEPT ![i] = r]
      PROVE  /\ conns' \in [Conns -> ConnState]
             /\ \A j \in Conns :
                  /\ conns'[j].req = conns[j].req
                  /\ conns'[j].lens = conns[j].lens
                  /\ conns'[j].dat = conns[j].dat
                  /\ conns'[j].alive = conns[j].alive
                  /\ conns'[j].info => conns[j].info
                  /\ conns[j].data => conns'[j].data
  <2>1. /\ conns' \in [Conns -> ConnState] /\ conns'[i] = r
        /\ \A j \in Conns : j # i => conns'[j] = conns[j]
    BY <1>1, ConnUpdate
  <2> QED BY <1>1, <2>1
<1>2. CASE conns' = [conns EXCEPT ![i].data = TRUE]
  <2>1. Same([conns[i] EXCEPT !.data = TRUE])
    BY ConnType DEF ConnState
  <2> HIDE DEF Same
  <2> QED BY <1>1, <1>2, <2>1
<1>3. CASE conns' = [conns EXCEPT ![i].info = FALSE]
  <2>1. Same([conns[i] EXCEPT !.info = FALSE])
    BY ConnType DEF ConnState
  <2> HIDE DEF Same
  <2> QED BY <1>1, <1>3, <2>1
<1>4. CASE conns' = [conns EXCEPT ![i].offered = TRUE]
  <2>1. Same([conns[i] EXCEPT !.offered = TRUE])
    BY ConnType DEF ConnState
  <2> HIDE DEF Same
  <2> QED BY <1>1, <1>4, <2>1
<1> QED BY <1>2, <1>3, <1>4

\* ReadLen takes the first length off the info stream.
LEMMA ReadLenEffect ==
    ASSUME VarTypes, MutexInv, NEW s \in Streams, ReadLen(s)
    PROVE  /\ c[s] \in Conns
           /\ Head(conns[c[s]].lens) \in {0, PacketLen}
           /\ conns' \in [Conns -> ConnState]
           /\ conns'[c[s]].req = conns[c[s]].req
           /\ conns'[c[s]].lens = Tail(conns[c[s]].lens)
           /\ conns'[c[s]].dat = conns[c[s]].dat
           /\ conns'[c[s]].alive
           /\ conns'[c[s]].data = conns[c[s]].data
           /\ \A j \in Conns : j # c[s] => conns'[j] = conns[j]
<1>1. c[s] \in Conns
  BY DEF ReadLen, MutexInv, Reading
<1>2. conns[c[s]].lens \in Seq({0, PacketLen}) /\ conns[c[s]].lens # <<>>
  BY <1>1, ConnType DEF ReadLen
<1> DEFINE rest == Tail(conns[c[s]].lens)
           r == [conns[c[s]] EXCEPT !.lens = rest]
<1>3. Head(conns[c[s]].lens) \in {0, PacketLen} /\ rest \in Seq({0, PacketLen})
  BY <1>2, HeadTailProperties
<1>4. conns' = [conns EXCEPT ![c[s]] = r]
  BY DEF ReadLen
<1> HIDE DEF rest
<1>5. /\ r \in ConnState /\ r.lens = rest /\ r.req = conns[c[s]].req
      /\ r.dat = conns[c[s]].dat /\ r.alive = conns[c[s]].alive
      /\ r.data = conns[c[s]].data
  BY <1>1, <1>3, ConnType DEF ConnState
<1> HIDE DEF r
<1>6. /\ conns' \in [Conns -> ConnState] /\ conns'[c[s]] = r
      /\ \A j \in Conns : j # c[s] => conns'[j] = conns[j]
  BY <1>1, <1>4, <1>5, ConnUpdate
<1> QED BY <1>1, <1>3, <1>5, <1>6 DEF rest, ReadLen

\* ReadData takes n units off the data stream, or the rest of Parse's choice.
LEMMA ReadDataEffect ==
    ASSUME VarTypes, MutexInv, NEW s \in Streams, ReadData(s)
    PROVE  /\ c[s] \in Conns
           /\ conns' \in [Conns -> ConnState]
           /\ \E n \in Reads(length[s], conns[c[s]].dat) :
                /\ conns'[c[s]].dat = SubSeq(conns[c[s]].dat, n + 1,
                                             Len(conns[c[s]].dat))
                /\ \/ result' = [result EXCEPT ![s] = SubSeq(conns[c[s]].dat, 1, n)]
                   \/ conns[c[s]].dat[1].part # 1
           /\ conns'[c[s]].req = conns[c[s]].req
           /\ conns'[c[s]].lens = conns[c[s]].lens
           /\ conns'[c[s]].alive
           /\ conns'[c[s]].data = conns[c[s]].data
           /\ \A j \in Conns : j # c[s] => conns'[j] = conns[j]
<1>1. c[s] \in Conns
  BY DEF ReadData, MutexInv, Reading
<1> DEFINE dat == conns[c[s]].dat
<1>2. PICK n \in Reads(length[s], dat) :
        /\ conns' = [conns EXCEPT ![c[s]].dat = SubSeq(@, n + 1, Len(@))]
        /\ \E r \in {SubSeq(dat, 1, n)} \cup (IF dat[1].part = 1 THEN {} ELSE {Nil}) :
             result' = [result EXCEPT ![s] = r]
  BY DEF ReadData
<1>3. dat \in Seq(Unit) /\ n \in Nat
  BY <1>1, ConnType DEF Reads
<1> DEFINE rest == SubSeq(dat, n + 1, Len(dat))
           r == [conns[c[s]] EXCEPT !.dat = rest]
<1>4. rest \in Seq(Unit)
  BY <1>3
<1>5. conns' = [conns EXCEPT ![c[s]] = r]
  BY <1>2
<1>6. \/ result' = [result EXCEPT ![s] = SubSeq(dat, 1, n)]
      \/ dat[1].part # 1
  BY <1>2
<1> HIDE DEF rest
<1>7. /\ r \in ConnState /\ r.dat = rest /\ r.req = conns[c[s]].req
      /\ r.lens = conns[c[s]].lens /\ r.alive = conns[c[s]].alive
      /\ r.data = conns[c[s]].data
  BY <1>1, <1>4, ConnType DEF ConnState
<1> HIDE DEF r
<1>8. /\ conns' \in [Conns -> ConnState] /\ conns'[c[s]] = r
      /\ \A j \in Conns : j # c[s] => conns'[j] = conns[j]
  BY <1>1, <1>5, <1>7, ConnUpdate
<1> QED BY <1>1, <1>6, <1>7, <1>8 DEF rest, ReadData

\* The cloud takes two words and adds one length and, unless that is 0, a packet.
LEMMA AnswerEffect ==
    ASSUME VarTypes, NEW i \in Conns, Answer(i)
    PROVE  /\ conns' \in [Conns -> ConnState]
           /\ conns'[i].req = SubSeq(conns[i].req, 3, Len(conns[i].req))
           /\ \/ /\ conns'[i].lens = Append(conns[i].lens, 0)
                 /\ conns'[i].dat = conns[i].dat
              \/ /\ conns'[i].lens = Append(conns[i].lens, PacketLen)
                 /\ conns'[i].dat =
                       conns[i].dat \o Packet(conns[i].req[1], conns[i].req[2])
           /\ conns'[i].alive
           /\ conns'[i].data = conns[i].data
           /\ \A j \in Conns : j # i => conns'[j] = conns[j]
<1> DEFINE req == conns[i].req
           found == req[1] \in Streams /\ req[2] \in Seqs
           Dat(n) == IF n = 0 THEN conns[i].dat
                              ELSE conns[i].dat \o Packet(req[1], req[2])
           Lens(n) == Append(conns[i].lens, n)
           rest == SubSeq(req, 3, Len(req))
           R(n) == [conns[i] EXCEPT !.req = rest, !.lens = Lens(n), !.dat = Dat(n)]
<1>1. PICK n \in {0} \cup (IF found THEN {PacketLen} ELSE {}) :
        conns' = [conns EXCEPT ![i] = R(n)]
  <2>1. PICK n \in {0} \cup (IF found THEN {PacketLen} ELSE {}) :
          conns' = [conns EXCEPT
                      ![i].req = SubSeq(@, 3, Len(@)),
                      ![i].lens = Append(@, n),
                      ![i].dat = IF n = 0 THEN @
                                          ELSE @ \o Packet(req[1], req[2])]
    BY DEF Answer
  <2>2. conns' = [conns EXCEPT ![i] = R(n)]
    BY <2>1, ConnType DEF VarTypes, ConnState
  <2> QED BY <2>2
<1>2. rest \in Seq(Streams \cup Seqs)
  BY ConnType
<1>3. Lens(n) \in Seq({0, PacketLen})
  BY ConnType, AppendProperties
<1>4. Dat(n) \in Seq(Unit)
  <2>1. CASE n = 0
    BY <2>1, ConnType
  <2>2. CASE n # 0
    <3>1. found
      BY <2>2
    <3>2. Packet(req[1], req[2]) \in Seq(Unit)
      BY <3>1, PacketType
    <3> QED BY <2>2, <3>2, ConnType, ConcatProperties
  <2> QED BY <2>1, <2>2
<1>5. \/ Lens(n) = Append(conns[i].lens, 0) /\ Dat(n) = conns[i].dat
      \/ /\ Lens(n) = Append(conns[i].lens, PacketLen)
         /\ Dat(n) = conns[i].dat \o Packet(req[1], req[2])
  BY QuicAssumption
<1> HIDE DEF rest, Lens, Dat
<1>6. /\ R(n) \in ConnState /\ R(n).req = rest /\ R(n).lens = Lens(n)
      /\ R(n).dat = Dat(n) /\ R(n).alive = conns[i].alive
      /\ R(n).data = conns[i].data
  BY <1>2, <1>3, <1>4, ConnType DEF ConnState
<1> HIDE DEF R
<1>7. /\ conns' \in [Conns -> ConnState] /\ conns'[i] = R(n)
      /\ \A j \in Conns : j # i => conns'[j] = conns[j]
  BY <1>1, <1>6, ConnUpdate
<1> QED BY <1>5, <1>6, <1>7 DEF rest, Answer

\* Steps of a stream that change the connection it dials, writes to or reads.
LEMMA ConnTypes ==
    ASSUME VarTypes, MutexInv, NEW s \in Streams,
           \/ Dial(s) \/ WriteSsrc(s) \/ WriteSsrcAgain(s) \/ WriteSeq(s)
           \/ AcceptStream(s) \/ ReadLen(s) \/ ReadData(s)
    PROVE  VarTypes' /\ MutexInv'
<1>1. CASE Dial(s)
  <2>1. Free \in Conns
    BY <1>1, FreeType DEF Dial
  <2>2. conns' \in [Conns -> ConnState]
    BY <1>1, <2>1, FreshConns, ConnUpdate DEF Dial
  <2> QED BY <1>1, <2>1, <2>2 DEF Dial, Replaced, VarTypes, MutexInv, Reading, callVars
<1>2. CASE WriteSsrc(s)
  <2>1. conns' \in [Conns -> ConnState]
    BY <1>2, WrittenEffect DEF WriteSsrc
  <2> QED BY <1>2, <2>1 DEF WriteSsrc, VarTypes, MutexInv, Reading, callVars
<1>3. CASE WriteSsrcAgain(s)
  <2>1. conns' \in [Conns -> ConnState]
    BY <1>3, WrittenEffect DEF WriteSsrcAgain
  <2> QED BY <1>3, <2>1 DEF WriteSsrcAgain, VarTypes, MutexInv, Reading, callVars
<1>4. CASE WriteSeq(s)
  <2>1. want[s] \in Streams \cup Seqs
    BY DEF VarTypes
  <2>2. conns' \in [Conns -> ConnState]
    BY <1>4, <2>1, WrittenEffect DEF WriteSeq
  <2> QED BY <1>4, <2>2 DEF WriteSeq, VarTypes, MutexInv, Reading, callVars
<1>5. CASE AcceptStream(s)
  <2>1. c[s] \in Conns
    BY <1>5 DEF AcceptStream, MutexInv, Reading
  <2>2. conns' \in [Conns -> ConnState]
    BY <1>5, <2>1, FlagEffect DEF AcceptStream
  <2> QED BY <1>5, <2>1, <2>2 DEF AcceptStream, VarTypes, MutexInv, Reading, callVars
<1>6. CASE ReadLen(s)
  <2>1. VarTypes'
    BY <1>6, ReadLenEffect DEF ReadLen, VarTypes
  <2>2. MutexInv'
    BY <1>6, ReadLenEffect DEF ReadLen, VarTypes, MutexInv, Reading
  <2> QED BY <2>1, <2>2
<1>7. CASE ReadData(s)
  <2>1. /\ conns' \in [Conns -> ConnState]
        /\ pc[s] = "data" /\ pc' = [pc EXCEPT ![s] = "return"]
        /\ UNCHANGED <<lock, quicConn, want, c, length, closer, causes, crashed>>
    BY <1>7, ReadDataEffect DEF ReadData
  <2>2. VarTypes'
    BY <2>1 DEF VarTypes
  <2>3. MutexInv'
    BY <2>1 DEF VarTypes, MutexInv, Reading
  <2> QED BY <2>2, <2>3
<1> QED BY <1>1, <1>2, <1>3, <1>4, <1>5, <1>6, <1>7

\* CloseQuic, which holds no lock.
LEMMA CloseTypes ==
    ASSUME VarTypes, MutexInv, Close
    PROVE  VarTypes' /\ MutexInv'
<1>1. CASE CloseQuic
  BY <1>1 DEF CloseQuic, VarTypes, MutexInv, callVars
<1>2. CASE CloseTestData \/ CloseData \/ CloseTestInfo
  BY <1>2 DEF CloseTestData, CloseData, CloseTestInfo, VarTypes, MutexInv, callVars
<1>3. CASE CloseInfo
  <2>1. quicConn \in Conns
    BY <1>3 DEF CloseInfo, VarTypes
  <2>2. conns' \in [Conns -> ConnState]
    BY <1>3, <2>1, FlagEffect DEF CloseInfo
  <2> QED BY <1>3, <2>2 DEF CloseInfo, VarTypes, MutexInv, callVars
<1>4. CASE CloseNil
  BY <1>4 DEF CloseNil, VarTypes, MutexInv, callVars
<1>5. CASE CloseClear
  <2>1. causes' \subseteq {"cleared", "noStream", "replaced"}
    BY <1>5 DEF CloseClear, VarTypes
  <2> QED BY <1>5, <2>1 DEF CloseClear, VarTypes, MutexInv, callVars
<1> QED BY <1>1, <1>2, <1>3, <1>4, <1>5 DEF Close

\* The cloud and the network.
LEMMA CloudTypes ==
    ASSUME VarTypes, MutexInv, NEW i \in Conns, Offer(i) \/ Answer(i) \/ Lose(i)
    PROVE  VarTypes' /\ MutexInv'
<1>1. conns' \in [Conns -> ConnState]
  <2>1. CASE Offer(i)
    BY <2>1, FlagEffect DEF Offer
  <2>2. CASE Answer(i)
    BY <2>2, AnswerEffect
  <2>3. CASE Lose(i)
    BY <2>3, LoseEffect
  <2> QED BY <2>1, <2>2, <2>3
<1>2. UNCHANGED <<lock, quicConn, pc, callVars, closer, causes, crashed>>
  BY DEF Offer, Answer, Lose
<1> QED BY <1>1, <1>2 DEF VarTypes, MutexInv, callVars

LEMMA InitTypes ==
    Init => VarTypes /\ MutexInv
<1> SUFFICES ASSUME Init PROVE VarTypes /\ MutexInv
  OBVIOUS
<1>1. conns \in [Conns -> ConnState]
  BY FreshConns DEF Init
<1> QED BY <1>1 DEF Init, VarTypes, MutexInv, Reading

LEMMA NextTypes ==
    ASSUME VarTypes, MutexInv, [Next]_vars
    PROVE  VarTypes' /\ MutexInv'
<1>1. CASE \E s \in Streams : Call(s) \/ Lock(s) \/ Retransmit(s)
  BY <1>1, LocalTypes, ConnTypes DEF Retransmit
<1>2. CASE Close
  BY <1>2, CloseTypes
<1>3. CASE \E i \in Conns : Offer(i) \/ Answer(i) \/ Lose(i)
  BY <1>3, CloudTypes
<1>4. CASE UNCHANGED vars
  BY <1>4 DEF vars, callVars, VarTypes, MutexInv
<1> QED BY <1>1, <1>2, <1>3, <1>4 DEF Next

-----------------------------------------------------------------------------
(* A nil connection. *)

\* What CloseQuic is about to close keeps its data stream, unless a dial replaces
\* the connection.
LEMMA DataKept ==
    ASSUME VarTypes, MutexInv, NEW j \in Conns, conns[j].data,
           \/ \E s \in Streams :
                 \/ WriteSsrc(s) \/ WriteSsrcAgain(s) \/ WriteSeq(s)
                 \/ AcceptStream(s) \/ ReadLen(s) \/ ReadData(s)
           \/ \E i \in Conns : Offer(i) \/ Answer(i) \/ Lose(i)
    PROVE  conns'[j].data
<1>1. ASSUME NEW s \in Streams, WriteSsrc(s) \/ WriteSsrcAgain(s) \/ WriteSeq(s)
      PROVE  conns'[j].data
  <2>1. PICK w \in Streams \cup Seqs : quicConn # 0 /\ Written(w)
    BY <1>1 DEF WriteSsrc, WriteSsrcAgain, WriteSeq, VarTypes
  <2> QED BY <2>1, WrittenEffect
<1>2. ASSUME NEW s \in Streams, AcceptStream(s)
      PROVE  conns'[j].data
  <2>1. c[s] \in Conns
    BY <1>2 DEF AcceptStream, MutexInv, Reading
  <2> QED BY <1>2, <2>1, FlagEffect DEF AcceptStream
<1>3. ASSUME NEW s \in Streams, ReadLen(s) \/ ReadData(s)
      PROVE  conns'[j].data
  BY <1>3, ReadLenEffect, ReadDataEffect
<1>4. ASSUME NEW i \in Conns, Offer(i)
      PROVE  conns'[j].data
  BY <1>4, FlagEffect DEF Offer
<1>5. ASSUME NEW i \in Conns, Answer(i) \/ Lose(i)
      PROVE  conns'[j].data
  BY <1>5, AnswerEffect, LoseEffect
<1> QED BY <1>1, <1>2, <1>3, <1>4, <1>5

\* CloseQuic may take the connection away from the holder of the lock, and a dial
\* may leave it nil: only the next holder forgets either.
LEMMA NextHolder ==
    ASSUME VarTypes, MutexInv, HolderInv, [Next]_vars
    PROVE  HolderInv'
<1>0. 0 \notin Streams /\ 0 \notin Conns
  BY QuicAssumption
<1>1. ASSUME NEW s \in Streams, Call(s)
      PROVE  HolderInv'
  BY <1>1 DEF Call, VarTypes, HolderInv, Using
<1>2. ASSUME NEW s \in Streams, Lock(s)
      PROVE  HolderInv'
  <2>1. \A t \in Streams : pc[t] \in {"idle", "lock"}
    BY <1>0, <1>2 DEF Lock, MutexInv
  <2> QED BY <1>2, <2>1 DEF Lock, VarTypes, HolderInv, Using, callVars
<1>3. ASSUME NEW s \in Streams, Check(s)
      PROVE  HolderInv'
  <2>1. \A t \in Streams : t # s => pc[t] \in {"idle", "lock"}
    BY <1>3, Alone DEF Check
  <2> QED BY <1>3, <2>1 DEF Check, VarTypes, HolderInv, Using
<1>4. ASSUME NEW s \in Streams, Dial(s)
      PROVE  HolderInv'
  BY <1>4, FreeType DEF Dial, HolderInv
<1>5. ASSUME NEW s \in Streams, DialNoStream(s)
      PROVE  HolderInv'
  BY <1>5 DEF DialNoStream, HolderInv
<1>6. ASSUME NEW s \in Streams, DialFails(s) \/ NilConn(s) \/ ReadDataPanics(s)
      PROVE  HolderInv'
  BY <1>6 DEF DialFails, NilConn, ReadDataPanics, HolderInv
<1>7. ASSUME NEW s \in Streams,
             WriteSsrc(s) \/ WriteSsrcAgain(s) \/ WriteSeq(s) \/ ReadRtp(s)
      PROVE  HolderInv'
  BY <1>7 DEF WriteSsrc, WriteSsrcAgain, WriteSeq, ReadRtp, HolderInv
<1>8. ASSUME NEW s \in Streams,
             \/ AcceptStream(s) \/ ReadLen(s) \/ ReadError(s) \/ ReadData(s)
             \/ Return(s)
      PROVE  HolderInv'
  <2>1. /\ pc[s] \in {"accept", "len", "data", "return"}
        /\ UNCHANGED <<quicConn, causes>>
        /\ \E p \in {"len", "data", "return", "idle"} : pc' = [pc EXCEPT ![s] = p]
    BY <1>8 DEF AcceptStream, ReadLen, ReadError, ReadData, Return
  <2>2. \A t \in Streams : pc[t] \in Using <=> pc'[t] \in Using
    BY <2>1 DEF VarTypes, Using
  <2> QED BY <2>1, <2>2 DEF HolderInv
<1>9. CASE \/ CloseQuic \/ CloseTestData \/ CloseData \/ CloseTestInfo
           \/ CloseInfo \/ CloseNil
  BY <1>9 DEF CloseQuic, CloseTestData, CloseData, CloseTestInfo, CloseInfo, CloseNil,
              HolderInv
<1>10. CASE CloseClear
  <2>1. (\E s \in Streams : pc[s] \in Using) => "cleared" \in causes'
    BY <1>0, <1>10 DEF CloseClear, MutexInv, Using
  <2> QED BY <1>10, <2>1 DEF CloseClear, HolderInv
<1>11. ASSUME NEW i \in Conns, Offer(i) \/ Answer(i) \/ Lose(i)
       PROVE  HolderInv'
  BY <1>11 DEF Offer, Answer, Lose, HolderInv
<1>12. CASE UNCHANGED vars
  BY <1>12 DEF vars, HolderInv
<1> QED BY <1>1, <1>2, <1>3, <1>4, <1>5, <1>6, <1>7, <1>8, <1>9, <1>10, <1>11,
           <1>12 DEF Next, Retransmit, Close

\* Only a dial gives QuicConn another value while CloseQuic is at work.
LEMMA NextCloser ==
    ASSUME VarTypes, MutexInv, CloserInv, [Next]_vars
    PROVE  CloserInv'
<1>0. quicConn # 0 => quicConn \in Conns
  BY DEF VarTypes
<1>1. ASSUME NEW s \in Streams, Dial(s) \/ DialNoStream(s)
      PROVE  CloserInv'
  BY <1>1 DEF Dial, DialNoStream, Replaced, CloserInv
<1>2. ASSUME NEW s \in Streams, Lock(s)
      PROVE  CloserInv'
  BY <1>2 DEF Lock, CloserInv
<1>3. ASSUME NEW s \in Streams,
             \/ Call(s) \/ Check(s) \/ DialFails(s) \/ NilConn(s) \/ ReadRtp(s)
             \/ ReadError(s) \/ ReadDataPanics(s) \/ Return(s)
      PROVE  CloserInv'
  BY <1>3 DEF Call, Check, DialFails, NilConn, ReadRtp, ReadError, ReadDataPanics,
              Return, CloserInv
<1>4. ASSUME \/ \E s \in Streams :
                   \/ WriteSsrc(s) \/ WriteSsrcAgain(s) \/ WriteSeq(s)
                   \/ AcceptStream(s) \/ ReadLen(s) \/ ReadData(s)
             \/ \E i \in Conns : Offer(i) \/ Answer(i) \/ Lose(i)
      PROVE  CloserInv'
  <2>1. UNCHANGED <<quicConn, closer, causes>>
    BY <1>4 DEF WriteSsrc, WriteSsrcAgain, WriteSeq, AcceptStream, ReadLen, ReadData,
                Offer, Answer, Lose
  <2>2. \A j \in Conns : conns[j].data => conns'[j].data
    BY <1>4, DataKept
  <2> QED BY <1>0, <2>1, <2>2 DEF CloserInv
<1>5. CASE CloseQuic
  BY <1>5 DEF CloseQuic, CloserInv
<1>6. CASE CloseTestData
  BY <1>6 DEF CloseTestData, CloserInv
<1>7. CASE CloseData \/ CloseTestInfo \/ CloseInfo \/ CloseNil
  BY <1>7 DEF CloseData, CloseTestInfo, CloseInfo, CloseNil, CloserInv
<1>8. CASE CloseClear
  BY <1>8 DEF CloseClear, CloserInv
<1>9. CASE UNCHANGED vars
  BY <1>9 DEF vars, CloserInv
<1> QED BY <1>1, <1>2, <1>3, <1>4, <1>5, <1>6, <1>7, <1>8, <1>9
        DEF Next, Retransmit, Close

\* The panic itself: the two invariants say what was there before it.  The causes
\* are only taken back while the process runs.
LEMMA NextCause ==
    ASSUME HolderInv, CloserInv, NilNeedsCause, [Next]_vars
    PROVE  NilNeedsCause'
<1>1. ASSUME NEW s \in Streams, NilConn(s)
      PROVE  NilNeedsCause'
  BY <1>1 DEF NilConn, HolderInv, Using, NilNeedsCause
<1>2. CASE CloseNil
  BY <1>2 DEF CloseNil, CloserInv, NilNeedsCause
<1>3. ASSUME NEW s \in Streams, DialFails(s) \/ ReadDataPanics(s)
      PROVE  NilNeedsCause'
  BY <1>3 DEF DialFails, ReadDataPanics, NilNeedsCause
<1>4. ASSUME crashed = "no", UNCHANGED crashed
      PROVE  NilNeedsCause'
  BY <1>4 DEF NilNeedsCause
<1>5. ASSUME NEW s \in Streams,
             \/ Call(s) \/ Lock(s) \/ Check(s) \/ Dial(s) \/ DialNoStream(s)
             \/ WriteSsrc(s) \/ WriteSsrcAgain(s) \/ WriteSeq(s) \/ ReadRtp(s)
             \/ AcceptStream(s) \/ ReadLen(s) \/ ReadError(s) \/ ReadData(s)
             \/ Return(s)
      PROVE  UNCHANGED crashed
  BY <1>5 DEF Call, Lock, Check, Dial, DialNoStream, WriteSsrc, WriteSsrcAgain,
              WriteSeq, ReadRtp, AcceptStream, ReadLen, ReadError, ReadData, Return
<1>6. ASSUME \/ CloseQuic \/ CloseTestData \/ CloseData \/ CloseTestInfo
             \/ CloseInfo \/ CloseClear
      PROVE  UNCHANGED crashed
  BY <1>6 DEF CloseQuic, CloseTestData, CloseData, CloseTestInfo, CloseInfo, CloseClear
<1>7. ASSUME NEW i \in Conns, Offer(i) \/ Answer(i) \/ Lose(i)
      PROVE  UNCHANGED crashed
  BY <1>7 DEF Offer, Answer, Lose
<1>8. CASE UNCHANGED vars
  BY <1>8 DEF vars, NilNeedsCause
<1> QED BY <1>1, <1>2, <1>3, <1>4, <1>5, <1>6, <1>7, <1>8
        DEF Next, Retransmit, Close

\* However streams, CloseQuic, dials and failing connections interleave, a method
\* is called on a nil QuicConn by the holder of the lock only after CloseQuic has
\* cleared it or its own dial has brought none, and CloseQuic closes a nil
\* connection or a nil data stream only after a dial has replaced the connection.
\* Two streams never do that to each other.
THEOREM NilPanicsHaveACause ==
    Spec => []NilNeedsCause
<1> DEFINE Inv == VarTypes /\ MutexInv /\ NilInv
<1>1. Init => Inv
  <2>1. Init => NilInv
    BY DEF Init, NilInv, HolderInv, CloserInv, Using, NilNeedsCause
  <2> QED BY <2>1, InitTypes
<1>2. Inv /\ [Next]_vars => Inv'
  BY NextTypes, NextHolder, NextCloser, NextCause DEF NilInv
<1>3. Inv => NilNeedsCause
  BY DEF NilInv
<1> QED BY <1>1, <1>2, <1>3, PTL DEF Spec

-----------------------------------------------------------------------------
(* What is on the connections. *)

\* A stream that talks is inside the lock, so that it is the only one.
LEMMA OneTalks ==
    ASSUME VarTypes, MutexInv, NEW s \in Streams, pc[s] \notin {"idle", "lock"},
           NEW t \in Streams, NEW i \in Conns, Talks(t, i)
    PROVE  t = s
  BY Alone DEF Talks

\* Before its request is written and after its answer is read, and while the lock
\* is free, nothing is on any connection.
LEMMA QuietOutside ==
    ASSUME VarTypes, MutexInv, TalkInv,
           \/ lock = 0
           \/ \E s \in Streams : pc[s] \in {"check", "dial", "redial", "ssrc",
                                           "ssrc2", "return"}
    PROVE  /\ \A i \in Conns : Quiet(conns[i])
           /\ \A s \in Streams : pc[s] # "seq"
<1>1. ASSUME NEW t \in Streams, NEW i \in Conns, Talks(t, i)
      PROVE  FALSE
  <2>1. lock # 0
    BY <1>1, Alone DEF Talks
  <2>2. PICK s \in Streams :
          pc[s] \in {"check", "dial", "redial", "ssrc", "ssrc2", "return"}
    BY <2>1
  <2>3. t = s
    BY <1>1, <2>2, OneTalks
  <2> QED BY <1>1, <2>2, <2>3 DEF Talks
<1>2. \A s \in Streams : pc[s] # "seq"
  BY Alone
<1> QED BY <1>1, <1>2 DEF TalkInv

\* A step after which nothing is on any connection.
LEMMA QuietKept ==
    ASSUME \A i \in Conns : Quiet(conns[i])', \A s \in Streams : pc'[s] # "seq"
    PROVE  TalkInv'
  BY DEF TalkInv

\* The steps of a stream before its request and after its answer.
LEMMA QuietSteps ==
    ASSUME VarTypes, MutexInv, TalkInv, NEW s \in Streams,
           Lock(s) \/ Check(s) \/ Dial(s) \/ DialNoStream(s) \/ Return(s)
    PROVE  TalkInv'
<1>1. /\ \A i \in Conns : Quiet(conns[i])
      /\ \A t \in Streams : pc[t] # "seq"
  BY QuietOutside DEF Lock, Check, Dial, DialNoStream, Return
<1>2. \A i \in Conns : Quiet(conns[i])'
  <2>1. CASE Dial(s)
    <3>1. Free \in Conns
      BY <2>1, FreeType DEF Dial
    <3>2. /\ conns'[Free] = NewConn
          /\ \A j \in Conns : j # Free => conns'[j] = conns[j]
      BY <2>1, <3>1, FreshConns, ConnUpdate DEF Dial
    <3> QED BY <1>1, <3>2, FreshConns DEF Quiet
  <2>2. CASE Lock(s) \/ Check(s) \/ DialNoStream(s) \/ Return(s)
    BY <1>1, <2>2 DEF Lock, Check, DialNoStream, Return, Quiet
  <2> QED BY <2>1, <2>2
<1>3. \A t \in Streams : pc'[t] # "seq"
  BY <1>1 DEF Lock, Check, Dial, DialNoStream, Return, VarTypes
<1> QED BY <1>2, <1>3, QuietKept

\* A stream that joins the queue for the lock does not talk.
LEMMA CallTalk ==
    ASSUME VarTypes, TalkInv, NEW s \in Streams, Call(s)
    PROVE  TalkInv'
<1>1. UNCHANGED <<quicConn, conns, c, length>> /\ pc[s] = "idle" /\ pc'[s] = "lock"
  BY DEF Call, VarTypes
<1>2. \A t \in Streams : t # s => pc'[t] = pc[t] /\ want'[t] = want[t]
  BY DEF Call, VarTypes
<1>3. ASSUME NEW t \in Streams, NEW i \in Conns, Talks(t, i)
      PROVE  Talks(t, i)'
  <2>1. t # s
    BY <1>1, <1>3 DEF Talks
  <2> QED BY <1>1, <1>2, <1>3, <2>1 DEF Talks, Talk
<1> QED BY <1>1, <1>2, <1>3 DEF TalkInv, Quiet, Writable

\* The SSRC opens the request; where it is lost, so will the number be.
LEMMA WriteSsrcTalk ==
    ASSUME VarTypes, MutexInv, TalkInv, NEW s \in Streams,
           WriteSsrc(s) \/ WriteSsrcAgain(s)
    PROVE  TalkInv'
<1>1. /\ pc[s] \in {"ssrc", "ssrc2"} /\ quicConn # 0 /\ Written(s)
      /\ quicConn' = quicConn
      /\ Writable(quicConn) => pc' = [pc EXCEPT ![s] = "seq"]
      /\ \E p \in {"seq", "redial"} : pc' = [pc EXCEPT ![s] = p]
  BY DEF WriteSsrc, WriteSsrcAgain
<1>2. /\ \A i \in Conns : Quiet(conns[i])
      /\ \A t \in Streams : pc[t] # "seq"
  BY <1>1, QuietOutside
<1>3. CASE Writable(quicConn)
  <2>1. /\ quicConn \in Conns
        /\ conns'[quicConn].req = Append(<<>>, s)
        /\ conns'[quicConn].lens = <<>>
        /\ conns'[quicConn].dat = <<>>
        /\ conns'[quicConn].alive
        /\ \A j \in Conns : j # quicConn => conns'[j] = conns[j]
    BY <1>1, <1>2, <1>3, WrittenEffect DEF Quiet
  <2>2. conns'[quicConn].req = <<s>> /\ <<s>> # <<>>
    BY <2>1, Words
  <2>3. pc'[s] = "seq" /\ \A t \in Streams : t # s => pc'[t] # "seq"
    BY <1>1, <1>2, <1>3 DEF VarTypes
  <2>4. Talks(s, quicConn)'
    BY <1>1, <2>1, <2>2, <2>3 DEF Talks
  <2>5. \A i \in Conns : i # quicConn => Quiet(conns[i])'
    BY <1>2, <2>1 DEF Quiet
  <2>6. ~Quiet(conns[quicConn])'
    BY <1>1, <2>2 DEF Quiet
  <2> QED BY <1>1, <2>1, <2>3, <2>4, <2>5, <2>6 DEF TalkInv
<1>4. CASE ~Writable(quicConn)
  <2>1. conns' = conns
    BY <1>1, <1>4, WrittenEffect
  <2> QED BY <1>1, <1>2, <1>4, <2>1 DEF TalkInv, Quiet, Writable
<1> QED BY <1>3, <1>4

\* The number goes behind the SSRC of the same stream, or nowhere.
LEMMA WriteSeqTalk ==
    ASSUME VarTypes, MutexInv, TalkInv, NEW s \in Streams, WriteSeq(s)
    PROVE  TalkInv'
<1>1. /\ pc[s] = "seq" /\ quicConn # 0 /\ Written(want[s])
      /\ UNCHANGED <<quicConn, c, length, want>>
      /\ pc' = [pc EXCEPT ![s] = "read"]
  BY DEF WriteSeq, callVars
<1>2. /\ pc'[s] = "read" /\ want'[s] = want[s]
      /\ \A t \in Streams : pc'[t] # "seq"
  BY <1>1, Alone DEF VarTypes
<1>3. \A i \in Conns : Quiet(conns[i]) \/ Talks(s, i)
  BY <1>1, OneTalks DEF TalkInv
<1>4. want[s] \in Streams \cup Seqs
  BY DEF VarTypes
<1>5. CASE Writable(quicConn)
  <2>1. /\ quicConn \in Conns
        /\ conns'[quicConn].req = Append(conns[quicConn].req, want[s])
        /\ conns'[quicConn].lens = conns[quicConn].lens
        /\ conns'[quicConn].dat = conns[quicConn].dat
        /\ conns'[quicConn].alive
        /\ \A j \in Conns : j # quicConn => conns'[j] = conns[j]
    BY <1>1, <1>4, <1>5, WrittenEffect
  <2>2. Talks(s, quicConn)
    BY <1>1, <1>3, <1>5, <2>1 DEF TalkInv
  <2>3. /\ conns[quicConn].req = <<s>> /\ conns[quicConn].lens = <<>>
        /\ conns[quicConn].dat = <<>>
    BY <1>1, <2>2 DEF Talks
  <2>4. conns'[quicConn].req = <<s, want[s]>>
    <3>1. Append(<<s>>, want[s]) = <<s, want[s]>>
      <4>1. s \in Streams \cup Seqs
        OBVIOUS
      <4> QED BY <1>4, <4>1, Words
    <3> QED BY <2>1, <2>3, <3>1
  <2>5. Talks(s, quicConn)'
    BY <1>1, <1>2, <2>1, <2>3, <2>4 DEF Talks, Talk
  <2>6. \A i \in Conns : i # quicConn => Quiet(conns[i])
    BY <1>1, <1>3 DEF Talks
  <2>7. \A i \in Conns : i # quicConn => Quiet(conns[i])'
    BY <2>1, <2>6 DEF Quiet
  <2>8. quicConn' = quicConn /\ quicConn \in Conns /\ conns'[quicConn].alive
    BY <1>1, <2>1
  <2> QED BY <1>2, <2>5, <2>7, <2>8 DEF TalkInv
<1>6. CASE ~Writable(quicConn)
  <2>1. conns' = conns
    BY <1>1, <1>4, <1>6, WrittenEffect
  <2>2. \A i \in Conns : Talks(s, i) => Talks(s, i)'
    BY <1>1, <1>2, <2>1 DEF Talks, Talk
  <2> QED BY <1>2, <1>3, <2>1, <2>2 DEF TalkInv, Quiet
<1> QED BY <1>5, <1>6

\* Reading starts on the connection the request was written to.
LEMMA ReadRtpTalk ==
    ASSUME VarTypes, MutexInv, TalkInv, NEW s \in Streams, ReadRtp(s)
    PROVE  TalkInv'
<1>1. /\ pc[s] = "read" /\ quicConn # 0 /\ UNCHANGED <<quicConn, conns, length, want>>
      /\ \E p \in {"len", "accept"} : pc' = [pc EXCEPT ![s] = p]
      /\ c' = [c EXCEPT ![s] = quicConn]
  BY DEF ReadRtp
<1>2. /\ pc'[s] \in {"len", "accept"} /\ c'[s] = quicConn /\ want'[s] = want[s]
      /\ \A t \in Streams : pc'[t] # "seq"
  BY <1>1, Alone DEF VarTypes
<1>3. \A i \in Conns : Quiet(conns[i]) \/ Talks(s, i)
  BY <1>1, OneTalks DEF TalkInv
<1>4. \A i \in Conns : Talks(s, i) => Talks(s, i)'
  BY <1>1, <1>2 DEF Talks, Talk
<1> QED BY <1>1, <1>2, <1>3, <1>4 DEF TalkInv, Quiet

\* A data stream is accepted; what is on the connection stays.
LEMMA AcceptTalk ==
    ASSUME VarTypes, MutexInv, TalkInv, NEW s \in Streams, AcceptStream(s)
    PROVE  TalkInv'
<1>1. /\ pc[s] = "accept" /\ UNCHANGED <<quicConn, c, length, want>>
      /\ pc' = [pc EXCEPT ![s] = "len"]
      /\ conns' = [conns EXCEPT ![c[s]].data = TRUE]
  BY DEF AcceptStream, callVars
<1>2. pc'[s] = "len" /\ \A t \in Streams : pc'[t] # "seq"
  BY <1>1, Alone DEF VarTypes
<1>3. \A i \in Conns : Quiet(conns[i]) \/ Talks(s, i)
  BY <1>1, OneTalks DEF TalkInv
<1>4. c[s] \in Conns
  BY <1>1 DEF MutexInv, Reading
<1>5. \A j \in Conns :
        /\ conns'[j].req = conns[j].req /\ conns'[j].lens = conns[j].lens
        /\ conns'[j].dat = conns[j].dat /\ conns'[j].alive = conns[j].alive
  BY <1>1, <1>4, FlagEffect
<1>6. \A i \in Conns : Talks(s, i) => Talks(s, i)'
  BY <1>1, <1>2, <1>5 DEF Talks, Talk
<1> QED BY <1>2, <1>3, <1>5, <1>6 DEF TalkInv, Quiet

\* The length read is the answer to this stream's request.
LEMMA ReadLenTalk ==
    ASSUME VarTypes, MutexInv, TalkInv, NEW s \in Streams, ReadLen(s)
    PROVE  TalkInv'
<1>1. /\ pc[s] = "len" /\ UNCHANGED <<quicConn, c, want>>
      /\ conns[c[s]].lens # <<>>
      /\ length' = [length EXCEPT ![s] = Head(conns[c[s]].lens)]
      /\ pc' = [pc EXCEPT ![s] =
                  IF Head(conns[c[s]].lens) = 0 THEN "return" ELSE "data"]
  BY DEF ReadLen
<1>2. /\ c[s] \in Conns
      /\ conns'[c[s]].req = conns[c[s]].req
      /\ conns'[c[s]].lens = Tail(conns[c[s]].lens)
      /\ conns'[c[s]].dat = conns[c[s]].dat
      /\ conns'[c[s]].alive
      /\ \A j \in Conns : j # c[s] => conns'[j] = conns[j]
  BY ReadLenEffect
<1>3. \A t \in Streams : pc'[t] # "seq"
  BY <1>1, Alone DEF VarTypes
<1>4. \A i \in Conns : Quiet(conns[i]) \/ Talks(s, i)
  BY <1>1, OneTalks DEF TalkInv
<1>5. \A i \in Conns : i # c[s] => Quiet(conns[i])
  BY <1>1, <1>4 DEF Talks
<1>6. Talk(conns[c[s]], s)
  BY <1>1, <1>2, <1>4 DEF Talks, Quiet
<1>7. CASE conns[c[s]].req = <<>> /\ conns[c[s]].lens = <<0>> /\ conns[c[s]].dat = <<>>
  <2>1. Tail(conns[c[s]].lens) = <<>>
    BY <1>7, Words
  <2>2. \A i \in Conns : Quiet(conns[i])'
    BY <1>2, <1>5, <1>7, <2>1 DEF Quiet
  <2> QED BY <1>3, <2>2, QuietKept
<1>8. CASE /\ conns[c[s]].req = <<>> /\ conns[c[s]].lens = <<PacketLen>>
           /\ conns[c[s]].dat = Packet(s, want[s])
  <2>1. Tail(conns[c[s]].lens) = <<>> /\ Head(conns[c[s]].lens) = PacketLen
    BY <1>8, Words
  <2>2. pc'[s] = "data" /\ length'[s] = PacketLen
    BY <1>1, <2>1, QuicAssumption DEF VarTypes
  <2>3. Talks(s, c[s])'
    BY <1>1, <1>2, <1>8, <2>1, <2>2 DEF Talks, Packet
  <2> QED BY <1>1, <1>2, <1>3, <1>5, <2>3 DEF TalkInv, Quiet
<1> QED BY <1>1, <1>6, <1>7, <1>8 DEF Talk

\* The connection was lost and what was on it with it.
LEMMA ReadErrorTalk ==
    ASSUME VarTypes, MutexInv, TalkInv, NEW s \in Streams, ReadError(s)
    PROVE  TalkInv'
<1>1. /\ pc[s] \in {"accept", "len"} /\ ~conns[c[s]].alive /\ conns' = conns
      /\ pc' = [pc EXCEPT ![s] = "return"]
  BY DEF ReadError
<1>2. c[s] \in Conns
  BY <1>1 DEF MutexInv, Reading
<1>3. \A i \in Conns : Quiet(conns[i]) \/ Talks(s, i)
  BY <1>1, OneTalks DEF TalkInv
<1>4. \A i \in Conns : Quiet(conns[i])'
  BY <1>1, <1>2, <1>3 DEF Talks, TalkInv, Quiet
<1>5. \A t \in Streams : pc'[t] # "seq"
  BY <1>1, Alone DEF VarTypes
<1> QED BY <1>4, <1>5, QuietKept

\* A read that returns what it was asked for takes the packet of this stream's
\* request off the connection, whole.
LEMMA ReadDataTalk ==
    ASSUME ShortReads = FALSE,
           VarTypes, MutexInv, TalkInv, NEW s \in Streams, ReadData(s)
    PROVE  /\ TalkInv'
           /\ result' = [result EXCEPT ![s] = Packet(s, want[s])]
<1>1. /\ pc[s] = "data" /\ UNCHANGED <<quicConn, c, want, length>>
      /\ pc' = [pc EXCEPT ![s] = "return"]
  BY DEF ReadData
<1>2. /\ c[s] \in Conns
      /\ conns'[c[s]].req = conns[c[s]].req
      /\ conns'[c[s]].lens = conns[c[s]].lens
      /\ \A j \in Conns : j # c[s] => conns'[j] = conns[j]
  BY ReadDataEffect
<1>3. PICK n \in Reads(length[s], conns[c[s]].dat) :
        /\ conns'[c[s]].dat = SubSeq(conns[c[s]].dat, n + 1, Len(conns[c[s]].dat))
        /\ \/ result' = [result EXCEPT ![s] = SubSeq(conns[c[s]].dat, 1, n)]
           \/ conns[c[s]].dat[1].part # 1
  BY ReadDataEffect
<1>4. n \in 1 .. Len(conns[c[s]].dat) /\ n = length[s]
  BY <1>3 DEF Reads
<1>5. \A i \in Conns : Quiet(conns[i]) \/ Talks(s, i)
  BY <1>1, OneTalks DEF TalkInv
<1>6. ~Quiet(conns[c[s]])
  BY <1>4 DEF Quiet
<1>7. /\ conns[c[s]].req = <<>> /\ conns[c[s]].lens = <<>>
      /\ conns[c[s]].dat = Packet(s, want[s]) /\ n = PacketLen
  BY <1>1, <1>2, <1>4, <1>5, <1>6 DEF Talks
<1>8. want[s] \in Seqs
  BY DEF VarTypes
<1>9. /\ SubSeq(conns[c[s]].dat, n + 1, Len(conns[c[s]].dat)) = <<>>
      /\ SubSeq(conns[c[s]].dat, 1, n) = Packet(s, want[s])
      /\ conns[c[s]].dat[1].part = 1
  BY <1>7, <1>8, PacketType
<1>10. \A i \in Conns : Quiet(conns[i])'
  BY <1>1, <1>2, <1>3, <1>5, <1>7, <1>9 DEF Quiet, Talks
<1>11. \A t \in Streams : pc'[t] # "seq"
  BY <1>1, Alone DEF VarTypes
<1> QED BY <1>3, <1>9, <1>10, <1>11, QuietKept

\* A panic, and CloseQuic before it clears QuicConn, change no request.
LEMMA IdleTalk ==
    ASSUME TalkInv, UNCHANGED <<quicConn, conns, pc, want, c, length>>
    PROVE  TalkInv'
  BY DEF TalkInv, Quiet, Talks, Talk, Writable

\* Closing the info stream, or opening a data stream, changes no request.
LEMMA FlagTalk ==
    ASSUME VarTypes, TalkInv, NEW i \in Conns,
           \/ conns' = [conns EXCEPT ![i].info = FALSE]
           \/ conns' = [conns EXCEPT ![i].offered = TRUE],
           UNCHANGED <<quicConn, pc, want, c, length>>
    PROVE  TalkInv'
<1>1. \A j \in Conns :
        /\ conns'[j].req = conns[j].req /\ conns'[j].lens = conns[j].lens
        /\ conns'[j].dat = conns[j].dat /\ conns'[j].alive = conns[j].alive
        /\ conns'[j].info => conns[j].info
  BY FlagEffect
<1>2. ASSUME NEW t \in Streams, NEW j \in Conns, Talks(t, j)
      PROVE  Talks(t, j)'
  BY <1>1, <1>2 DEF Talks, Talk
<1>3. quicConn # 0 => quicConn \in Conns
  BY DEF VarTypes
<1> QED BY <1>1, <1>2, <1>3 DEF TalkInv, Quiet, Writable

\* The stream that wrote to a connection may lose it out of QuicConn.
LEMMA ClearTalk ==
    ASSUME TalkInv, CloseClear
    PROVE  TalkInv'
<1>1. quicConn' = 0 /\ UNCHANGED <<conns, pc, want, c, length>>
  BY DEF CloseClear, callVars
<1>2. ASSUME NEW t \in Streams, NEW j \in Conns, Talks(t, j)
      PROVE  Talks(t, j)'
  BY <1>1, <1>2 DEF Talks, Talk
<1> QED BY <1>1, <1>2 DEF TalkInv, Quiet

\* The cloud answers the whole request of the stream that waits for it.
LEMMA AnswerTalk ==
    ASSUME VarTypes, TalkInv, NEW i \in Conns, Answer(i)
    PROVE  TalkInv'
<1>1. Len(conns[i].req) >= 2 /\ UNCHANGED <<quicConn, pc, want, c, length>>
  BY DEF Answer, callVars
<1>2. PICK s \in Streams : Talks(s, i)
  BY <1>1 DEF TalkInv, Quiet
<1>3. want[s] \in Seqs
  BY DEF VarTypes
<1>4. /\ conns[i].req = <<s, want[s]>> /\ conns[i].lens = <<>> /\ conns[i].dat = <<>>
      /\ \/ pc[s] = "read" /\ quicConn \in {0, i}
         \/ pc[s] \in {"accept", "len"} /\ c[s] = i
  <2>1. Len(<<>>) = 0 /\ Len(<<s>>) = 1
    OBVIOUS
  <2> DEFINE n == Len(conns[i].req)
  <2>2. n >= 2
    BY <1>1
  <2>3. (conns[i].req = <<>> => n = 0) /\ (conns[i].req = <<s>> => n = 1)
    BY <2>1
  <2> HIDE DEF n
  <2>4. conns[i].req # <<>> /\ conns[i].req # <<s>>
    BY <2>2, <2>3
  <2> QED BY <1>2, <2>4 DEF Talks, Talk
<1>5. /\ conns'[i].req = SubSeq(conns[i].req, 3, Len(conns[i].req))
      /\ \/ /\ conns'[i].lens = Append(conns[i].lens, 0)
            /\ conns'[i].dat = conns[i].dat
         \/ /\ conns'[i].lens = Append(conns[i].lens, PacketLen)
            /\ conns'[i].dat =
                  conns[i].dat \o Packet(conns[i].req[1], conns[i].req[2])
      /\ conns'[i].alive
      /\ \A j \in Conns : j # i => conns'[j] = conns[j]
  BY AnswerEffect
<1>6. conns'[i].req = <<>>
  <2>1. s \in Streams \cup Seqs /\ want[s] \in Streams \cup Seqs
    BY <1>3
  <2> QED BY <1>4, <1>5, <2>1, Words
<1>7. Append(<<>>, 0) = <<0>> /\ Append(<<>>, PacketLen) = <<PacketLen>>
  BY Words
<1>8. <<s, want[s]>>[1] = s /\ <<s, want[s]>>[2] = want[s]
  OBVIOUS
<1>9. <<>> \o Packet(s, want[s]) = Packet(s, want[s])
  BY <1>3, PacketType
<1>10. \/ conns'[i].lens = <<0>> /\ conns'[i].dat = <<>>
       \/ conns'[i].lens = <<PacketLen>> /\ conns'[i].dat = Packet(s, want[s])
  BY <1>4, <1>5, <1>7, <1>8, <1>9
<1>11. Talks(s, i)'
  BY <1>1, <1>4, <1>6, <1>10 DEF Talks, Talk, Packet
<1>12. ASSUME NEW t \in Streams, NEW j \in Conns, j # i, Talks(t, j)
       PROVE  Talks(t, j)'
  BY <1>1, <1>5, <1>12 DEF Talks, Talk, Packet
<1>13. ~Quiet(conns[i])'
  <2>1. <<0>> # <<>> /\ <<PacketLen>> # <<>>
    OBVIOUS
  <2> QED BY <1>10, <2>1 DEF Quiet
<1>14. quicConn # 0 => quicConn \in Conns
  BY DEF VarTypes
<1> QED BY <1>1, <1>5, <1>11, <1>12, <1>13, <1>14 DEF TalkInv, Quiet, Writable

\* A lost connection is quiet and takes no more words.
LEMMA LoseTalk ==
    ASSUME VarTypes, TalkInv, NEW i \in Conns, Lose(i)
    PROVE  TalkInv'
<1>1. UNCHANGED <<quicConn, pc, want, c, length>>
  BY DEF Lose, callVars
<1>2. \A j \in Conns : j # i => conns'[j] = conns[j]
  BY LoseEffect
<1>3. ASSUME NEW t \in Streams, NEW j \in Conns, j # i, Talks(t, j)
      PROVE  Talks(t, j)'
  BY <1>1, <1>2, <1>3 DEF Talks, Talk
<1>4. Quiet(conns[i])' /\ ~conns'[i].alive
  BY LoseEffect DEF Quiet
<1>5. quicConn # 0 => quicConn \in Conns
  BY DEF VarTypes
<1> QED BY <1>1, <1>2, <1>3, <1>4, <1>5 DEF TalkInv, Quiet, Writable

LEMMA NextTalk ==
    ASSUME ShortReads = FALSE, VarTypes, MutexInv, TalkInv, [Next]_vars
    PROVE  TalkInv'
<1>1. ASSUME NEW s \in Streams, Call(s) \/ Lock(s) \/ Retransmit(s)
      PROVE  TalkInv'
  <2>1. CASE DialFails(s) \/ NilConn(s) \/ ReadDataPanics(s)
    BY <2>1, IdleTalk DEF DialFails, NilConn, ReadDataPanics, callVars
  <2> QED BY <1>1, <2>1, CallTalk, QuietSteps, WriteSsrcTalk, WriteSeqTalk,
             ReadRtpTalk, AcceptTalk, ReadLenTalk, ReadErrorTalk, ReadDataTalk
          DEF Retransmit
<1>2. CASE Close
  <2>1. CASE CloseQuic \/ CloseTestData \/ CloseData \/ CloseTestInfo \/ CloseNil
    BY <2>1, IdleTalk DEF CloseQuic, CloseTestData, CloseData, CloseTestInfo, CloseNil,
                          callVars
  <2>2. CASE CloseInfo
    <3>1. quicConn \in Conns
      BY <2>2 DEF CloseInfo, VarTypes
    <3> QED BY <2>2, <3>1, FlagTalk DEF CloseInfo, callVars
  <2> QED BY <1>2, <2>1, <2>2, ClearTalk DEF Close
<1>3. ASSUME NEW i \in Conns, Offer(i) \/ Answer(i) \/ Lose(i)
      PROVE  TalkInv'
  <2>1. CASE Offer(i)
    BY <2>1, FlagTalk DEF Offer, callVars
  <2> QED BY <1>3, <2>1, AnswerTalk, LoseTalk
<1>4. CASE UNCHANGED vars
  BY <1>4, IdleTalk DEF vars, callVars
<1> QED BY <1>1, <1>2, <1>3, <1>4 DEF Next

-----------------------------------------------------------------------------
(* The results. *)

LEMMA InitTalk ==
    Init => TalkInv
<1> SUFFICES ASSUME Init PROVE TalkInv
  OBVIOUS
<1>1. \A i \in Conns : conns[i] = Dead
  BY DEF Init
<1>2. \A s \in Streams : pc[s] = "idle"
  BY DEF Init
<1> QED BY <1>1, <1>2, FreshConns DEF TalkInv

\* The invariant all results rest on: who is inside the lock, and that only this
\* stream's request or answer is on a connection.
LEMMA TalkCorrect ==
    ASSUME ShortReads = FALSE
    PROVE  Spec => [](VarTypes /\ MutexInv /\ TalkInv)
<1> DEFINE Inv == VarTypes /\ MutexInv /\ TalkInv
<1>1. Init => Inv
  BY InitTypes, InitTalk
<1>2. Inv /\ [Next]_vars => Inv'
  BY NextTypes, NextTalk
<1> QED BY <1>1, <1>2, PTL DEF Spec

\* Where a read returns what it was asked for, every variable keeps its type and a
\* connection never carries more than one request or answer.
THEOREM TypeCorrect ==
    ASSUME ShortReads = FALSE
    PROVE  Spec => []TypeOK
<1>1. ASSUME VarTypes, TalkInv
      PROVE  OneAtATime
  <2> SUFFICES ASSUME NEW i \in Conns
               PROVE  Len(conns[i].req) + 2 * Len(conns[i].lens) <= 2
    BY DEF OneAtATime
  <2>1. CASE Quiet(conns[i])
    BY <2>1 DEF Quiet
  <2>2. ASSUME NEW s \in Streams, Talks(s, i)
        PROVE  Len(conns[i].req) + 2 * Len(conns[i].lens) <= 2
    <3>1. /\ Len(<<>>) = 0 /\ Len(<<s>>) = 1 /\ Len(<<s, want[s]>>) = 2
          /\ Len(<<0>>) = 1 /\ Len(<<PacketLen>>) = 1
      OBVIOUS
    <3>2. \/ conns[i].req = <<>> /\ conns[i].lens = <<>>
          \/ conns[i].req = <<s>> /\ conns[i].lens = <<>>
          \/ conns[i].req = <<s, want[s]>> /\ conns[i].lens = <<>>
          \/ conns[i].req = <<>> /\ conns[i].lens = <<0>>
          \/ conns[i].req = <<>> /\ conns[i].lens = <<PacketLen>>
      BY <2>2 DEF Talks, Talk
    <3> DEFINE m == Len(conns[i].req)
               n == Len(conns[i].lens)
    <3>3. \/ m = 0 /\ n = 0
          \/ m = 1 /\ n = 0
          \/ m = 2 /\ n = 0
          \/ m = 0 /\ n = 1
      BY <3>1, <3>2, Zenon
    <3> HIDE DEF m, n
    <3>4. m + 2 * n <= 2
      BY <3>3
    <3> QED BY <3>4 DEF m, n
  <2> QED BY <1>1, <2>1, <2>2 DEF TalkInv
<1>2. VarTypes /\ MutexInv /\ TalkInv => TypeOK
  BY <1>1 DEF TypeOK
<1> QED BY <1>2, TalkCorrect, PTL

\* Whatever failed before, while the lock is free the connection the next request
\* will use carries no half request and no unread answer.
THEOREM NothingIsLeftOver ==
    ASSUME ShortReads = FALSE
    PROVE  Spec => []NothingLeftOver
<1>1. VarTypes /\ MutexInv /\ TalkInv => NothingLeftOver
  <2> SUFFICES ASSUME VarTypes, MutexInv, TalkInv, lock = 0, quicConn # 0
               PROVE  Quiet(conns[quicConn])
    BY DEF NothingLeftOver, Quiet
  <2>1. quicConn \in Conns
    BY DEF VarTypes
  <2> QED BY <2>1, QuietOutside
<1> QED BY <1>1, TalkCorrect, PTL

\* GetByQuic returns nothing or the packet this stream asked for in this call, for
\* any number of streams and requests and whatever connections are lost, closed
\* and dialled again in between.
THEOREM AnswersAreOwn ==
    ASSUME ShortReads = FALSE
    PROVE  Spec => []AnswersMatch
<1> DEFINE Inv == VarTypes /\ MutexInv /\ TalkInv
           Res == result = [s \in Streams |-> result[s]] /\ AnswersMatch
<1>1. Init => Res
  BY DEF Init, AnswersMatch
<1>2. Inv /\ Res /\ [Next]_vars => Res'
  <2> SUFFICES ASSUME VarTypes, MutexInv, TalkInv, Res, [Next]_vars
               PROVE  Res'
    OBVIOUS
  <2>1. CASE UNCHANGED <<want, result>>
    BY <2>1 DEF AnswersMatch, Packet
  <2>2. ASSUME NEW s \in Streams, Call(s)
        PROVE  Res'
    <3>1. /\ result' = [result EXCEPT ![s] = Nil]
          /\ \A t \in Streams : t # s => want'[t] = want[t]
      BY <2>2 DEF Call, VarTypes
    <3>2. /\ result' = [t \in Streams |-> result'[t]] /\ result'[s] = Nil
          /\ \A t \in Streams : t # s => result'[t] = result[t]
      BY <3>1
    <3>3. \A t \in Streams : t # s => Packet(t, want[t])' = Packet(t, want[t])
      BY <3>1 DEF Packet
    <3> QED BY <3>2, <3>3 DEF AnswersMatch
  <2>3. ASSUME NEW s \in Streams, ReadData(s)
        PROVE  Res'
    <3> DEFINE p == Packet(s, want[s])
    <3>1. result' = [result EXCEPT ![s] = p] /\ want' = want
      BY <2>3, ReadDataTalk DEF ReadData
    <3>2. /\ result' = [t \in Streams |-> result'[t]] /\ result'[s] = p
          /\ \A t \in Streams : t # s => result'[t] = result[t]
      <4> HIDE DEF p
      <4> QED BY <3>1
    <3>3. \A t \in Streams : Packet(t, want[t])' = Packet(t, want[t])
      BY <3>1 DEF Packet
    <3> QED BY <3>2, <3>3 DEF AnswersMatch
  <2> QED BY <2>1, <2>2, <2>3
          DEF Next, Retransmit, Close, Lock, Check, Dial, DialNoStream, DialFails,
              NilConn, WriteSsrc, WriteSsrcAgain, WriteSeq, ReadRtp, AcceptStream,
              ReadLen, ReadError, ReadDataPanics, Return, CloseQuic, CloseTestData,
              CloseData, CloseTestInfo, CloseInfo, CloseNil, CloseClear, Offer, Answer, Lose, vars, callVars
<1>3. Res => AnswersMatch
  OBVIOUS
<1> QED BY <1>1, <1>2, <1>3, TalkCorrect, PTL DEF Spec

=============================================================================
