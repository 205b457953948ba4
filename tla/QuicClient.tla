----------------------------- MODULE QuicClient -----------------------------
(***************************************************************************)
(* The retransmission client of protocol/quic: every stream's goroutine    *)
(* asks for missing packets through one global connection, under a lock,   *)
(* while CheckAlive closes that connection, without the lock, when any     *)
(* stream has ended.                                                       *)
(*                                                                         *)
(* A request is an SSRC and a sequence number written to the info stream.  *)
(* The answer is a length on the info stream (0: the cloud does not have   *)
(* the packet) and the packet on a data stream, which the cloud opens.     *)
(* A packet is PacketLen units, because a read may return a part of it; a  *)
(* length is read in one piece.  QUIC itself and the cloud are external: a *)
(* connection is lost as a whole, and the end or reset of one stream of a  *)
(* connection that lives on is left out.                                   *)
(***************************************************************************)
EXTENDS Integers, Sequences

CONSTANTS
    Streams,      \* SSRCs of the streams that share the connection
    Seqs,         \* sequence numbers they ask for
    Conns,        \* bound: connections somebody still refers to
    PacketLen,    \* units of a packet
    ShortReads,   \* a read may return less than it was asked for
    DisableQuic,  \* conf disable_quic
    Nil

ASSUME QuicAssumption ==
    /\ 0 \notin Streams
    /\ Conns \subseteq Nat \ {0}
    /\ \E i, j \in Conns : i # j
    /\ PacketLen \in Nat \ {0}
    /\ ShortReads \in BOOLEAN
    /\ DisableQuic \in BOOLEAN

VARIABLES
    lock,      \* the stream that holds the mutex, or 0
    quicConn,  \* QuicConn, or 0 for nil
    conns,     \* the connections
    pc,        \* where each stream's GetByQuic is
    want,      \* the number it was called with
    c,         \* the receiver of its ReadRtp, or 0
    length,    \* local length of ReadRtp
    result,    \* what it returned last
    closer,    \* where CheckAlive's CloseQuic is
    causes,    \* what has disturbed the holder of the lock, or CloseQuic
    crashed    \* the panic that ended the process, or "no"

callVars == <<want, c, length, result>>
vars == <<lock, quicConn, conns, pc, callVars, closer, causes, crashed>>

Unit == [ssrc : Streams, seq : Seqs, part : 1 .. PacketLen]

\* The packet of stream s with number q.
Packet(s, q) == [k \in 1 .. PacketLen |-> [ssrc |-> s, seq |-> q, part |-> k]]

\* newConn: an info stream and no data stream yet.
NewConn == [alive |-> TRUE, info |-> TRUE, data |-> FALSE, offered |-> FALSE,
            req |-> <<>>, lens |-> <<>>, dat |-> <<>>]

Dead == [NewConn EXCEPT !.alive = FALSE]

\* A connection nobody refers to.
Free == CHOOSE i \in Conns : i \notin {quicConn} \cup {c[s] : s \in Streams}

Writable(i) == conns[i].alive /\ conns[i].info

\* A dial replaces the connection that CloseQuic is about to close.
Replaced == IF closer = "idle" THEN {} ELSE {"replaced"}

\* A connection that is lost; the client keeps its dataStream.
Lost(k) == [Dead EXCEPT !.data = k.data]

-----------------------------------------------------------------------------
(* GetByQuic of stream s. *)

Call(s) ==
    /\ pc[s] = "idle"
    /\ \E q \in Seqs : want' = [want EXCEPT ![s] = q]
    /\ result' = [result EXCEPT ![s] = Nil]
    /\ pc' = [pc EXCEPT ![s] = "lock"]
    /\ UNCHANGED <<lock, quicConn, conns, c, length, closer, causes, crashed>>

\* Mutant of Lock: there is no mutex.
LockNever(s) ==
    /\ pc[s] = "lock"
    /\ lock' = s
    /\ pc' = [pc EXCEPT ![s] = IF DisableQuic THEN "return" ELSE "check"]
    /\ causes' = causes \ {"cleared", "noStream"}
    /\ UNCHANGED <<quicConn, conns, callVars, closer, crashed>>

Lock(s) ==
    /\ pc[s] = "lock"
    /\ lock = 0
    /\ lock' = s
    /\ pc' = [pc EXCEPT ![s] = IF DisableQuic THEN "return" ELSE "check"]
    /\ causes' = causes \ {"cleared", "noStream"}
    /\ UNCHANGED <<quicConn, conns, callVars, closer, crashed>>

\* Mutant of Check: QuicConn is taken to be there.
CheckNever(s) ==
    /\ pc[s] = "check"
    /\ pc' = [pc EXCEPT ![s] = "ssrc"]
    /\ UNCHANGED <<lock, quicConn, conns, callVars, closer, causes, crashed>>

Check(s) ==
    /\ pc[s] = "check"
    /\ pc' = [pc EXCEPT ![s] = IF quicConn = 0 THEN "dial" ELSE "ssrc"]
    /\ UNCHANGED <<lock, quicConn, conns, callVars, closer, causes, crashed>>

\* initQuic, for the first time or after WriteSsrc failed.
Dial(s) ==
    /\ pc[s] \in {"dial", "redial"}
    /\ quicConn' = Free
    /\ conns' = [conns EXCEPT ![Free] = NewConn]
    /\ causes' = causes \cup Replaced
    /\ pc' = [pc EXCEPT ![s] = IF @ = "dial" THEN "ssrc" ELSE "ssrc2"]
    /\ UNCHANGED <<lock, callVars, closer, crashed>>

\* newConn's error is ignored and its nil stored.
DialNoStream(s) ==
    /\ pc[s] \in {"dial", "redial"}
    /\ quicConn' = 0
    /\ causes' = causes \cup {"noStream"} \cup Replaced
    /\ pc' = [pc EXCEPT ![s] = IF @ = "dial" THEN "ssrc" ELSE "ssrc2"]
    /\ UNCHANGED <<lock, conns, callVars, closer, crashed>>

DialFails(s) ==
    /\ pc[s] \in {"dial", "redial"}
    /\ crashed' = "dial"
    /\ UNCHANGED <<lock, quicConn, conns, pc, callVars, closer, causes>>

\* A method is called on a nil QuicConn.
NilConn(s) ==
    /\ pc[s] \in {"ssrc", "ssrc2", "seq", "read"}
    /\ quicConn = 0
    /\ crashed' = "nil"
    /\ UNCHANGED <<lock, quicConn, conns, pc, callVars, closer, causes>>

Written(word) ==
    conns' = IF Writable(quicConn)
             THEN [conns EXCEPT ![quicConn].req = Append(@, word)]
             ELSE conns

\* The first WriteSsrc; when it fails a new connection is dialled.
WriteSsrc(s) ==
    /\ pc[s] = "ssrc"
    /\ quicConn # 0
    /\ Written(s)
    /\ pc' = [pc EXCEPT ![s] = IF Writable(quicConn) THEN "seq" ELSE "redial"]
    /\ UNCHANGED <<lock, quicConn, callVars, closer, causes, crashed>>

\* The second one; its error is overwritten.
WriteSsrcAgain(s) ==
    /\ pc[s] = "ssrc2"
    /\ quicConn # 0
    /\ Written(s)
    /\ pc' = [pc EXCEPT ![s] = "seq"]
    /\ UNCHANGED <<lock, quicConn, callVars, closer, causes, crashed>>

\* WriteSeq; its error is overwritten too.
WriteSeq(s) ==
    /\ pc[s] = "seq"
    /\ quicConn # 0
    /\ Written(want[s])
    /\ pc' = [pc EXCEPT ![s] = "read"]
    /\ UNCHANGED <<lock, quicConn, callVars, closer, causes, crashed>>

\* ReadRtp stays with the connection it was called on.
ReadRtp(s) ==
    /\ pc[s] = "read"
    /\ quicConn # 0
    /\ c' = [c EXCEPT ![s] = quicConn]
    /\ pc' = [pc EXCEPT ![s] = IF conns[quicConn].data THEN "len" ELSE "accept"]
    /\ UNCHANGED <<lock, quicConn, conns, want, length, result, closer, causes,
                   crashed>>

\* Mutant of AcceptStream: it does not wait for the cloud.
AcceptStreamNoWait(s) ==
    /\ pc[s] = "accept"
    /\ conns[c[s]].alive
    /\ conns' = [conns EXCEPT ![c[s]].data = conns[c[s]].offered]
    /\ pc' = [pc EXCEPT ![s] = IF conns[c[s]].offered THEN "len" ELSE "return"]
    /\ UNCHANGED <<lock, quicConn, callVars, closer, causes, crashed>>

AcceptStream(s) ==
    /\ pc[s] = "accept"
    /\ conns[c[s]].alive
    /\ conns[c[s]].offered
    /\ conns' = [conns EXCEPT ![c[s]].data = TRUE]
    /\ pc' = [pc EXCEPT ![s] = "len"]
    /\ UNCHANGED <<lock, quicConn, callVars, closer, causes, crashed>>

\* ReadLen; 0 is the error RtpCacheNotFound.
ReadLen(s) ==
    /\ pc[s] = "len"
    /\ conns[c[s]].alive
    /\ conns[c[s]].lens # <<>>
    /\ length' = [length EXCEPT ![s] = Head(conns[c[s]].lens)]
    /\ conns' = [conns EXCEPT ![c[s]].lens = Tail(@)]
    /\ pc' = [pc EXCEPT ![s] =
                IF Head(conns[c[s]].lens) = 0 THEN "return" ELSE "data"]
    /\ UNCHANGED <<lock, quicConn, want, c, result, closer, causes, crashed>>

\* The connection is gone: AcceptStream or ReadLen returns an error.
ReadError(s) ==
    /\ pc[s] \in {"accept", "len"}
    /\ ~conns[c[s]].alive
    /\ pc' = [pc EXCEPT ![s] = "return"]
    /\ UNCHANGED <<lock, quicConn, conns, callVars, closer, causes, crashed>>

\* How much of a packet of n units one Read of the data stream returns.
Reads(n, dat) ==
    {m \in 1 .. Len(dat) : IF ShortReads THEN m <= n ELSE m = n}

\* The packet's bytes.  If they do not start with a header, Parse may return
\* nil or a packet made of whatever is there.
ReadData(s) ==
    /\ pc[s] = "data"
    /\ conns[c[s]].alive
    /\ LET dat == conns[c[s]].dat
       IN  \E n \in Reads(length[s], dat) :
             /\ conns' = [conns EXCEPT ![c[s]].dat = SubSeq(@, n + 1, Len(@))]
             /\ \E r \in {SubSeq(dat, 1, n)} \cup
                         (IF dat[1].part = 1 THEN {} ELSE {Nil}) :
                    result' = [result EXCEPT ![s] = r]
    /\ pc' = [pc EXCEPT ![s] = "return"]
    /\ UNCHANGED <<lock, quicConn, want, c, length, closer, causes, crashed>>

\* An error in the middle of an answer is a panic.
ReadDataPanics(s) ==
    /\ pc[s] = "data"
    /\ ~conns[c[s]].alive
    /\ crashed' = "answer"
    /\ UNCHANGED <<lock, quicConn, conns, pc, callVars, closer, causes>>

\* Mutant of Return: the mutex is unlocked by hand, after the error returns.
ReturnLocked(s) ==
    /\ pc[s] = "return"
    /\ lock' = IF result[s] = Nil THEN lock ELSE 0
    /\ pc' = [pc EXCEPT ![s] = "idle"]
    /\ c' = [c EXCEPT ![s] = 0]
    /\ length' = [length EXCEPT ![s] = 0]
    /\ UNCHANGED <<quicConn, conns, want, result, closer, causes, crashed>>

\* The deferred Unlock.
Return(s) ==
    /\ pc[s] = "return"
    /\ lock' = 0
    /\ pc' = [pc EXCEPT ![s] = "idle"]
    /\ c' = [c EXCEPT ![s] = 0]
    /\ length' = [length EXCEPT ![s] = 0]
    /\ UNCHANGED <<quicConn, conns, want, result, closer, causes, crashed>>

-----------------------------------------------------------------------------
(* CloseQuic, called by CheckAlive.  It reads QuicConn again at each line.  *)

CloseQuic ==
    /\ closer = "idle"
    /\ quicConn # 0
    /\ closer' = "data"
    /\ UNCHANGED <<lock, quicConn, conns, pc, callVars, causes, crashed>>

\* Has it a data stream?
CloseTestData ==
    /\ closer = "data"
    /\ quicConn # 0
    /\ closer' = IF conns[quicConn].data THEN "closeData" ELSE "info"
    /\ UNCHANGED <<lock, quicConn, conns, pc, callVars, causes, crashed>>

\* The client's direction of the data stream, on which it never writes.
CloseData ==
    /\ closer = "closeData"
    /\ quicConn # 0
    /\ conns[quicConn].data
    /\ closer' = "info"
    /\ UNCHANGED <<lock, quicConn, conns, pc, callVars, causes, crashed>>

\* A connection always has an info stream.
CloseTestInfo ==
    /\ closer = "info"
    /\ quicConn # 0
    /\ closer' = "closeInfo"
    /\ UNCHANGED <<lock, quicConn, conns, pc, callVars, causes, crashed>>

CloseInfo ==
    /\ closer = "closeInfo"
    /\ quicConn # 0
    /\ conns' = [conns EXCEPT ![quicConn].info = FALSE]
    /\ closer' = "clear"
    /\ UNCHANGED <<lock, quicConn, pc, callVars, causes, crashed>>

\* QuicConn is nil by now, or a new one without the data stream tested for.
CloseNil ==
    /\ closer \in {"data", "closeData", "info", "closeInfo"}
    /\ quicConn # 0 => (closer = "closeData" /\ ~conns[quicConn].data)
    /\ crashed' = "closeNil"
    /\ UNCHANGED <<lock, quicConn, conns, pc, callVars, closer, causes>>

CloseClear ==
    /\ closer = "clear"
    /\ quicConn' = 0
    /\ causes' = (causes \ {"replaced"}) \cup
                 (IF lock = 0 THEN {} ELSE {"cleared"})
    /\ closer' = "idle"
    /\ UNCHANGED <<lock, conns, pc, callVars, crashed>>

-----------------------------------------------------------------------------
(* The cloud and the network. *)

\* The cloud opens its data stream.
Offer(i) ==
    /\ conns[i].alive
    /\ ~conns[i].offered
    /\ conns' = [conns EXCEPT ![i].offered = TRUE]
    /\ UNCHANGED <<lock, quicConn, pc, callVars, closer, causes, crashed>>

\* It takes the next two words for an SSRC and a number and answers.
Answer(i) ==
    /\ conns[i].alive
    /\ Len(conns[i].req) >= 2
    /\ LET req == conns[i].req
           found == /\ req[1] \in Streams
                    /\ req[2] \in Seqs
       IN  \E n \in {0} \cup (IF found THEN {PacketLen} ELSE {}) :
             conns' = [conns EXCEPT
                ![i].req = SubSeq(@, 3, Len(@)),
                ![i].lens = Append(@, n),
                ![i].dat = IF n = 0 THEN @
                                    ELSE @ \o Packet(req[1], req[2])]
    /\ UNCHANGED <<lock, quicConn, pc, callVars, closer, causes, crashed>>

\* The idle timeout, the cloud or the network ends a connection.
Lose(i) ==
    /\ conns[i].alive
    /\ conns' = [conns EXCEPT ![i] = Lost(@)]
    /\ UNCHANGED <<lock, quicConn, pc, callVars, closer, causes, crashed>>

-----------------------------------------------------------------------------
Init ==
    /\ lock = 0
    /\ quicConn = 0
    /\ conns = [i \in Conns |-> Dead]
    /\ pc = [s \in Streams |-> "idle"]
    /\ want \in [Streams -> Seqs]
    /\ c = [s \in Streams |-> 0]
    /\ length = [s \in Streams |-> 0]
    /\ result = [s \in Streams |-> Nil]
    /\ closer = "idle"
    /\ causes = {}
    /\ crashed = "no"

\* What a stream's goroutine does once it holds the lock.
Retransmit(s) ==
    \/ Check(s)
    \/ Dial(s)
    \/ DialNoStream(s)
    \/ DialFails(s)
    \/ NilConn(s)
    \/ WriteSsrc(s)
    \/ WriteSsrcAgain(s)
    \/ WriteSeq(s)
    \/ ReadRtp(s)
    \/ AcceptStream(s)
    \/ ReadLen(s)
    \/ ReadError(s)
    \/ ReadData(s)
    \/ ReadDataPanics(s)
    \/ Return(s)

Close ==
    \/ CloseQuic
    \/ CloseTestData
    \/ CloseData
    \/ CloseTestInfo
    \/ CloseInfo
    \/ CloseNil
    \/ CloseClear

Next ==
    /\ crashed = "no"
    /\ \/ \E s \in Streams : Call(s) \/ Lock(s) \/ Retransmit(s)
       \/ Close
       \/ \E i \in Conns : Offer(i) \/ Answer(i) \/ Lose(i)

Spec == Init /\ [][Next]_vars

\* Somebody waits on connection i.
Waiting(i) == \E s \in Streams : c[s] = i /\ pc[s] \in {"accept", "len", "data"}

\* A goroutine keeps running, a Go mutex does not starve a waiter, and an idle
\* connection times out.  The cloud owes no answer.
FairSpec ==
    /\ Spec
    /\ \A s \in Streams : WF_vars(crashed = "no" /\ Retransmit(s))
    /\ \A s \in Streams : SF_vars(crashed = "no" /\ Lock(s))
    /\ \A i \in Conns : WF_vars(crashed = "no" /\ Waiting(i) /\ Lose(i))

-----------------------------------------------------------------------------
(* Properties. *)

ConnState == [alive : BOOLEAN, info : BOOLEAN, data : BOOLEAN,
              offered : BOOLEAN, req : Seq(Streams \cup Seqs),
              lens : Seq({0, PacketLen}), dat : Seq(Unit)]

VarTypes ==
    /\ lock \in Streams \cup {0}
    /\ quicConn \in Conns \cup {0}
    /\ conns \in [Conns -> ConnState]
    /\ pc \in [Streams -> {"idle", "lock", "check", "dial", "redial", "ssrc",
                          "ssrc2", "seq", "read", "accept", "len", "data",
                          "return"}]
    /\ want \in [Streams -> Seqs]
    /\ c \in [Streams -> Conns \cup {0}]
    /\ length \in [Streams -> {0, PacketLen}]
    /\ closer \in {"idle", "data", "closeData", "info", "closeInfo", "clear"}
    /\ causes \subseteq {"cleared", "noStream", "replaced"}
    /\ crashed \in {"no", "dial", "answer", "nil", "closeNil"}

OneAtATime ==
    \A i \in Conns : Len(conns[i].req) + 2 * Len(conns[i].lens) <= 2

\* Every variable has the type of the Go variable it models, and a connection
\* carries one request or answer at a time.
TypeOK == VarTypes /\ OneAtATime

\* What GetByQuic returns is nil or, whole, the packet it was asked for: no
\* answer to another stream, to an earlier request or on an old connection.
AnswersMatch ==
    \A s \in Streams : result[s] # Nil => result[s] = Packet(s, want[s])

\* The connection the next request will use has nothing left over on it: no
\* half request and no unread answer, whatever failed before.  A connection on
\* which a write fails is replaced and does not count.
NothingLeftOver ==
    lock = 0 /\ quicConn # 0 =>
        (Writable(quicConn) =>
            /\ conns[quicConn].req = <<>>
            /\ conns[quicConn].lens = <<>>
            /\ conns[quicConn].dat = <<>>)

\* The comment at the lock: streams that ask at the same time cause no error.
\* A holder of the lock meets a nil connection only when CloseQuic has cleared
\* it in the meantime or its own dial brought none; CloseQuic closes a nil
\* connection or a nil stream only when a dial has replaced the connection in
\* the meantime.
NilNeedsCause ==
    /\ crashed = "nil" => causes \cap {"cleared", "noStream"} # {}
    /\ crashed = "closeNil" => "replaced" \in causes

\* GetByQuic returns, however many streams ask, connections fail and answers
\* stay away, unless the process ends.
GetByQuicReturns ==
    \A s \in Streams : pc[s] # "idle" ~> (pc[s] = "idle" \/ crashed # "no")

=============================================================================
