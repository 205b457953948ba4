--------------------------- MODULE FlvFanoutProofs --------------------------
(***************************************************************************)
(* Proofs about FlvFanout for every stream, any number of clients and any  *)
(* capacity of their channels.                                             *)
(***************************************************************************)
EXTENDS FlvFanout, FiniteSetTheorems, SequenceTheorems, TLAPS

-----------------------------------------------------------------------------
(* Inductive invariants. *)

\* The clients whose Add is through.
InClients == {c \in Clients : conn[c] = "in"}

\* What the loop and the handlers rely on: whoever writes the length, it is not more
\* than the number of clients added, and what the loop has in hand is there.
LoopInv ==
    /\ size <= Cardinality(InClients)
    /\ removeSize <= Cardinality(InClients)
    /\ \A c \in Clients : addSize[c] <= Cardinality(InClients)
    /\ Early \subseteq InClients
    /\ pc \in {"visit", "write", "send", "remove", "shrink"} => tag >= 1
    /\ pc \in {"write", "send", "remove", "shrink"} => idx >= 1
    /\ pc \in {"write", "send"} => writer \in Clients
    /\ pc = "send" => Item # Nil
    /\ pc = "shrink" => size >= 1 /\ removeSize >= 1

\* The tags sent so far were complete.
TagsKnown ==
    \A c \in Clients : \A i \in DOMAIN Stream(c) :
        IsTag(c, i) => Number(c, i) <= tag

\* The cache holds the newest header of its kind, but for headers that came when
\* both kinds were there.
Newest(kind, h) ==
    IF h = Nil THEN \A g \in 1 .. tag : kinds[g] # kind
    ELSE /\ h \in 1 .. tag
         /\ kinds[h] = kind
         /\ \A g \in h + 1 .. tag : kinds[g] = kind => Both(g - 1)

CacheInv == Newest("videoSeq", videoSeq) /\ Newest("audioSeq", audioSeq)

\* Every header sent is one.
HeadersCached ==
    \A c \in Clients : \A i \in DOMAIN Stream(c) :
        ~IsTag(c, i) => kinds[Number(c, i)] \in {"videoSeq", "audioSeq"}

\* Header h was as good as any when tag t was sent.
Good(h, t) == \A g \in h + 1 .. t : kinds[g] = kinds[h] => Both(g - 1)

\* The loop is at client c.
Serving(c) == pc \in {"write", "send"} /\ writer = c

\* A header sent to a client is followed by a tag it was good for, or the client is
\* being served.
HeaderInv ==
    \A c \in Clients : \A i \in DOMAIN Stream(c) :
        ~IsTag(c, i) /\ ~closed[c] =>
            \/ Serving(c) /\ Good(Number(c, i), tag)
            \/ \E j \in DOMAIN Stream(c) :
                  IsTag(c, j) /\ Good(Number(c, i), Number(c, j))

\* While the list is the loop's alone: where the loop is in it, and the slot that
\* is being removed is no open writer's.
Orderly ==
    /\ pc \in {"write", "send"} => idx <= size /\ writer = elements[idx]
    /\ pc = "remove" =>
          /\ idx <= size
          /\ elements[idx] # Nil => closed[elements[idx]]
    /\ pc = "shrink" =>
          /\ removeSize = size
          /\ \A c \in Early :
                ~closed[c] => \E i \in 1 .. size - 1 : elements[i] = c
    /\ OpenListed

RemoveInv == Alone => Orderly

\* In calm the list holds the clients added, each once, in front of the one that is
\* being added, and the loop is inside it.
ListInv ==
    /\ {elements[i] : i \in 1 .. size} = InClients
    /\ \A i, j \in 1 .. size : elements[i] = elements[j] => i = j
    /\ \A c, d \in Clients : conn[c] = "adding" /\ conn[d] = "adding" => c = d
    /\ \A c \in Clients :
          conn[c] = "adding" => addSize[c] = size /\ elements[size + 1] = c
    /\ idx <= size
    /\ pc \in {"idle", "panicked"} => idx = 0
    /\ pc \in {"write", "send"} => writer = elements[idx]
    /\ pc \notin {"remove", "shrink"}
    /\ \A c \in Clients : ~closed[c]

\* The loop has passed client c.
Passed(c) == \E i \in idx + 1 .. size : elements[i] = c

HeaderItem(h) == IF h = Nil THEN <<>> ELSE << <<"header", h>> >>

\* Client c has tags, and the last thing it was sent is tag t.
EndsWith(c, t) == Stream(c) # <<>> /\ Stream(c)[Len(Stream(c))] = <<"tag", t>>

\* What client c was sent so far: nothing, or its headers, or up to the last tag.
ClientInv(c) ==
    /\ Serving(c) /\ stage = "video" => ~init[c] /\ Stream(c) = <<>>
    /\ Serving(c) /\ stage = "audio" => ~init[c] /\ Stream(c) = HeaderItem(videoSeq)
    /\ Serving(c) /\ stage = "tag" =>
          /\ init[c]
          /\ \/ Stream(c) = HeaderItem(videoSeq) \o HeaderItem(audioSeq)
             \/ EndsWith(c, tag - 1)
    /\ ~Serving(c) /\ ~init[c] => Stream(c) = <<>>
    /\ ~Serving(c) /\ init[c] /\ Passed(c) => EndsWith(c, tag)
    /\ ~Serving(c) /\ init[c] /\ ~Passed(c) => EndsWith(c, tag - 1)
    /\ init[c] => c \in InClients
    /\ c \in audience /\ Passed(c) => init[c]

\* From its first tag on a client is sent tags only, one after the other, and each
\* after the headers that came before it.
OrderInv(c) ==
    \A i \in DOMAIN Stream(c) : IsTag(c, i) =>
        /\ \A j \in DOMAIN Stream(c) :
              i < j => IsTag(c, j) /\ Number(c, j) - Number(c, i) = j - i
        /\ \A kind \in {"videoSeq", "audioSeq"} :
              (\E h \in 1 .. Number(c, i) - 1 : kinds[h] = kind) =>
                  \E j \in 1 .. i - 1 : kinds[Number(c, j)] = kind

\* What a calm fan-out keeps to.
CalmInv ==
    Calm => /\ ListInv
            /\ audience \subseteq InClients
            /\ \A c \in Clients : ClientInv(c) /\ OrderInv(c)
            /\ pc = "idle" => recorded = tag

Kinds == {"videoSeq", "audioSeq", "media", "short"}

\* There are finitely many clients.
LEMMA CountType == IsFiniteSet(Clients) /\ Cardinality(Clients) \in Nat
<1>1. IsFiniteSet(Clients)
  BY FanoutAssumption DEF Clients
<1> QED BY <1>1, FS_CardinalityType

\* Nil is none of the things it stands in for.
LEMMA NilType ==
  Nil \notin Clients /\ Nil \notin Nat /\ Nil \notin {"header", "tag"} \X Nat
BY FanoutAssumption DEF Clients

\* The clients added are some of the clients, and fewer as long as one is not.
LEMMA AddedType ==
  ASSUME TypeOK
  PROVE  /\ IsFiniteSet(InClients)
         /\ Cardinality(InClients) \in Nat
         /\ Cardinality(InClients) <= Cardinality(Clients)
         /\ \A c \in Clients : conn[c] # "in" =>
               Cardinality(InClients) < Cardinality(Clients)
<1>1. InClients \in SUBSET Clients
  BY DEF InClients
<1>2. IsFiniteSet(InClients) /\ Cardinality(InClients) <= Cardinality(Clients)
      /\ (Cardinality(Clients) = Cardinality(InClients) => Clients = InClients)
  BY <1>1, CountType, FS_Subset
<1>3. Cardinality(InClients) \in Nat
  BY <1>2, FS_CardinalityType
<1>4. ASSUME NEW c \in Clients, conn[c] # "in"
      PROVE  Cardinality(InClients) < Cardinality(Clients)
  <2>1. Clients # InClients
    BY <1>4 DEF InClients
  <2> QED BY <1>2, <1>3, <2>1, CountType
<1> QED BY <1>2, <1>3, <1>4

\* An Add that is through counts one client more.
LEMMA AddedCount ==
  ASSUME TypeOK, NEW c \in Clients, conn[c] = "adding",
         conn' = [conn EXCEPT ![c] = "in"]
  PROVE  /\ InClients' = InClients \cup {c}
         /\ Cardinality(InClients') = Cardinality(InClients) + 1
<1>1. c \notin InClients
  BY DEF InClients
<1>2. InClients' = InClients \cup {c}
  BY DEF InClients, TypeOK
<1> QED BY <1>1, <1>2, AddedType, FS_AddElement

LEMMA KindType == \A b : CacheKind(b) \in Kinds
BY DEF CacheKind, Kinds

\* What is put into a channel is a header in the cache or the tag at hand.
LEMMA ItemType ==
  ASSUME TypeOK
  PROVE  /\ Item \in Items \cup {Nil} \/ tag = 0
         /\ stage = "video" => Item = IF videoSeq = Nil THEN Nil
                                      ELSE <<"header", videoSeq>>
         /\ stage = "audio" => Item = IF audioSeq = Nil THEN Nil
                                      ELSE <<"header", audioSeq>>
         /\ stage = "tag" => Item = <<"tag", tag>> /\ Item # Nil
<1>0. tag \in Nat /\ Len(kinds) \in Nat /\ tag <= Len(kinds)
  BY DEF TypeOK
<1>1. CASE stage = "video"
  BY <1>1 DEF Item, Items, TypeOK
<1>2. CASE stage = "audio"
  BY <1>2 DEF Item, Items, TypeOK
<1>3. CASE stage = "tag"
  <2>1. Item = <<"tag", tag>>
    BY <1>3 DEF Item
  <2>2. <<"tag", tag>> \in {"header", "tag"} \X Nat
    BY <1>0
  <2>3. Item # Nil
    BY <2>1, <2>2, NilType
  <2>4. tag # 0 => Item \in Items
    BY <2>1, <1>0 DEF Items
  <2> QED BY <1>3, <2>1, <2>3, <2>4
<1> QED BY <1>1, <1>2, <1>3 DEF TypeOK
-----------------------------------------------------------------------------
(* Types. *)

LEMMA InitType == Init => TypeOK /\ LoopInv
<1> SUFFICES ASSUME Init PROVE TypeOK /\ LoopInv
  OBVIOUS
<1>1. kinds \in Seq(Kinds)
  <2>1. PICK s \in Streams : kinds = [i \in DOMAIN s |-> CacheKind(s[i])]
    BY DEF Init
  <2>2. s \in Seq(TagBytes)
    BY FanoutAssumption
  <2>3. DOMAIN s = 1 .. Len(s) /\ Len(s) \in Nat
    BY <2>2
  <2>4. kinds = [i \in 1 .. Len(s) |-> CacheKind(s[i])]
    BY <2>1, <2>3
  <2> QED BY <2>3, <2>4, KindType, IsASeq
<1>2. Len(kinds) \in Nat
  BY <1>1
<1>3. Early \in SUBSET Clients /\ Cardinality(Early) \in Nat
      /\ Cardinality(Early) <= Cardinality(Clients)
  <2>1. Early \in SUBSET Clients
    BY DEF Clients
  <2>2. IsFiniteSet(Early) /\ Cardinality(Early) <= Cardinality(Clients)
    BY <2>1, CountType, FS_Subset
  <2> QED BY <2>1, <2>2, FS_CardinalityType
<1>4. InClients = Early
  BY <1>3 DEF Init, InClients
<1>5. \A c \in Clients : <<>> \in Seq(Items)
  OBVIOUS
<1>6. TypeOK
  <2>1. /\ tag \in 0 .. Len(kinds)
        /\ {videoSeq, audioSeq} \subseteq 1 .. Len(kinds) \cup {Nil}
        /\ {idx, size, removeSize} \subseteq 0 .. Cardinality(Clients)
        /\ addSize \in [Clients -> 0 .. Cardinality(Clients)]
    BY <1>2, <1>3, CountType DEF Init
  <2>2. /\ packetQueue \in [Clients -> Seq(Items)]
        /\ received \in [Clients -> Seq(Items)]
        /\ \A c \in Clients : Len(packetQueue[c]) <= QueueSize
    BY <1>5, FanoutAssumption DEF Init
  <2>3. /\ elements \in [Slots -> Clients \cup {Nil}]
        /\ writer \in Clients \cup {Nil}
        /\ stage \in {"video", "audio", "tag"}
        /\ recorded \in 0 .. tag
        /\ audience \subseteq Clients
        /\ pc = "idle"
    BY DEF Init
  <2>7. raced \in BOOLEAN
    BY DEF Init
  <2>4. conn \in [Clients -> {"out", "adding", "in"}]
    BY DEF Init
  <2>5. {init, closed, gone} \subseteq [Clients -> BOOLEAN]
    BY DEF Init
  <2>6. sending \in [Clients -> Items \cup {Nil}]
    BY DEF Init
  <2> QED BY <1>1, <2>1, <2>2, <2>3, <2>4, <2>5, <2>6, <2>7 DEF TypeOK, Kinds
<1>7. LoopInv
  BY <1>3, <1>4, <1>6 DEF Init, LoopInv
<1> QED BY <1>6, <1>7

\* The stream itself does not change.
LEMMA KindsStay == [Next]_vars => kinds' = kinds
BY DEF Next, vars, streamVars, ExtractFlv, SendPacket, TagComplete, TagPanics,
       VisitWriter, DropWriter, TagDone, NothingCached, WriteOpen, WriteSend,
       WriteClosed, InitialClosed, RemoveShift, RemoveCount, Connect, Added,
       SendPacketTake, SendPacketOk, SendPacketFails, Disconnect

\* The loop's own steps leave the handlers and the clients' side alone.
LEMMA LoopFrame ==
  ASSUME ExtractFlv
  PROVE  /\ UNCHANGED <<tag, videoSeq, audioSeq, kinds, conn, addSize, closed,
                        sending, gone, received, audience, raced>>
BY DEF ExtractFlv, streamVars, handlerVars, clientVars,
       VisitWriter, DropWriter, TagDone, NothingCached, WriteOpen, WriteSend,
       WriteClosed, InitialClosed, RemoveShift, RemoveCount

\* A step of the loop keeps the types.
LEMMA ExtractType == TypeOK /\ LoopInv /\ ExtractFlv => TypeOK' /\ LoopInv'
<1> SUFFICES ASSUME TypeOK, LoopInv, ExtractFlv PROVE TypeOK' /\ LoopInv'
  OBVIOUS
<1>1. Items' = Items /\ InClients' = InClients
  BY LoopFrame DEF Items, InClients
<1>2. Cardinality(Clients) \in Nat /\ Cardinality(InClients) \in Nat
      /\ Cardinality(InClients) <= Cardinality(Clients)
  BY CountType, AddedType
<1>3. ASSUME pc' \in {"idle", "visit", "write", "send", "remove", "shrink"},
             idx' \in 0 .. Cardinality(Clients),
             size' \in 0 .. Cardinality(InClients),
             removeSize' \in 0 .. Cardinality(InClients),
             writer' \in Clients \cup {Nil},
             stage' \in {"video", "audio", "tag"},
             elements' \in [Slots -> Clients \cup {Nil}],
             init' \in [Clients -> BOOLEAN],
             packetQueue' \in [Clients -> Seq(Items)],
             \A c \in Clients : Len(packetQueue'[c]) <= QueueSize,
             recorded' \in 0 .. tag,
             pc # "idle",
             pc' \in {"write", "send", "remove", "shrink"} => idx' >= 1,
             pc' \in {"write", "send"} => writer' \in Clients,
             pc' = "send" => Item' # Nil,
             pc' = "shrink" => size' >= 1 /\ removeSize' >= 1
      PROVE  TypeOK' /\ LoopInv'
  <2>1. /\ size' \in 0 .. Cardinality(Clients)
        /\ removeSize' \in 0 .. Cardinality(Clients)
    BY <1>2, <1>3
  <2>2. TypeOK'
    BY <1>1, <1>3, <2>1, LoopFrame DEF TypeOK
  <2>3. tag >= 1 /\ tag' = tag
    BY <1>3, LoopFrame DEF LoopInv, ExtractFlv, VisitWriter, DropWriter, TagDone,
       NothingCached, WriteOpen, WriteSend, WriteClosed, InitialClosed,
       RemoveShift, RemoveCount
  <2>4. /\ size' <= Cardinality(InClients) /\ removeSize' <= Cardinality(InClients)
        /\ \A c \in Clients : addSize'[c] <= Cardinality(InClients)
        /\ Early \subseteq InClients
    BY <1>2, <1>3, LoopFrame DEF LoopInv
  <2> QED BY <1>1, <1>3, <2>2, <2>3, <2>4 DEF LoopInv
<1> DEFINE Rest == /\ removeSize \in 0 .. Cardinality(InClients)
                   /\ size \in 0 .. Cardinality(InClients)
                   /\ idx \in 0 .. Cardinality(Clients)
                   /\ writer \in Clients \cup {Nil}
                   /\ stage \in {"video", "audio", "tag"}
                   /\ elements \in [Slots -> Clients \cup {Nil}]
                   /\ init \in [Clients -> BOOLEAN]
                   /\ packetQueue \in [Clients -> Seq(Items)]
                   /\ \A c \in Clients : Len(packetQueue[c]) <= QueueSize
                   /\ recorded \in 0 .. tag /\ tag \in Nat
<1>4. Rest
  BY <1>2 DEF TypeOK, LoopInv
<1>5. CASE VisitWriter
  <2>1. idx \in 1 .. size /\ idx \in Slots /\ elements[idx] \in Clients
    BY <1>2, <1>4, <1>5 DEF VisitWriter, Open, Slots
  <2> QED BY <1>3, <1>4, <1>5, <2>1 DEF VisitWriter, listVars
<1>6. CASE DropWriter
  BY <1>2, <1>3, <1>4, <1>6 DEF DropWriter, listVars
<1>7. CASE TagDone
  BY <1>3, <1>4, <1>7 DEF TagDone, listVars, loopVars
<1>8. CASE NothingCached
  <2>1. stage # "tag"
    BY <1>8, ItemType DEF NothingCached
  <2>2. idx' = idx /\ pc' = "write" /\ stage' \in {"video", "audio", "tag"}
        /\ init' = [init EXCEPT ![writer] = stage # "video"] /\ pc = "write"
    BY <1>8, <2>1, <1>4 DEF NothingCached, StageDone
  <2>3. idx >= 1 /\ writer \in Clients
    BY <2>2 DEF LoopInv
  <2>4. init' \in [Clients -> BOOLEAN]
    BY <1>4, <2>2, <2>3
  <2> QED BY <1>3, <1>4, <1>8, <2>2, <2>3, <2>4 DEF NothingCached, listVars
<1>9. CASE WriteOpen
  <2>1. Item' = Item
    BY <1>9 DEF WriteOpen, Item, loopVars, streamVars
  <2> QED BY <1>3, <1>4, <1>9, <2>1 DEF WriteOpen, listVars, loopVars, LoopInv
<1>10. CASE WriteSend
  <2>1. /\ pc = "send" /\ writer \in Clients /\ idx >= 1 /\ tag >= 1 /\ Item # Nil
    BY <1>10 DEF WriteSend, LoopInv
  <2>2. Item \in Items
    BY <2>1, <1>4, ItemType
  <2>3. /\ packetQueue' = [packetQueue EXCEPT ![writer] = Append(@, Item)]
        /\ Len(packetQueue[writer]) < QueueSize
    BY <1>10 DEF WriteSend
  <2>4. packetQueue' \in [Clients -> Seq(Items)]
    BY <2>1, <2>2, <2>3, <1>4
  <2>5. \A c \in Clients : Len(packetQueue'[c]) <= QueueSize
    <3>1. Len(Append(packetQueue[writer], Item)) = Len(packetQueue[writer]) + 1
          /\ Len(packetQueue[writer]) \in Nat
      BY <2>1, <2>2, <1>4
    <3>2. Len(Append(packetQueue[writer], Item)) <= QueueSize
      BY <3>1, <2>3, FanoutAssumption
    <3> QED BY <3>2, <2>1, <2>3, <1>4
  <2>6. /\ stage' \in {"video", "audio", "tag"}
        /\ init' = [init EXCEPT ![writer] = stage # "video"]
        /\ pc' \in {"visit", "write"} /\ idx' \in 0 .. Cardinality(Clients)
        /\ pc' = "write" => idx' = idx
    BY <1>4, <1>10, <1>2, <2>1 DEF WriteSend, StageDone
  <2>7. init' \in [Clients -> BOOLEAN]
    BY <1>4, <2>6, <2>1
  <2> QED BY <1>3, <1>4, <1>10, <2>1, <2>4, <2>5, <2>6, <2>7
          DEF WriteSend, listVars
<1>11. CASE WriteClosed
  BY <1>3, <1>4, <1>11 DEF WriteClosed, listVars, loopVars, LoopInv
<1>12. CASE InitialClosed
  BY <1>3, <1>4, <1>12 DEF InitialClosed, listVars, loopVars
<1>13. CASE RemoveShift
  <2>1. elements' \in [Slots -> Clients \cup {Nil}]
    <3>1. \A i \in idx .. size - 1 : i + 1 \in Slots \/ idx = 0
      BY <1>2, <1>4 DEF Slots
    <3>2. idx >= 1
      BY <1>13 DEF RemoveShift, LoopInv
    <3>3. \A i \in idx .. size - 1 : elements[i + 1] \in Clients \cup {Nil}
      BY <3>1, <3>2, <1>4
    <3> QED BY <3>3, <1>4, <1>13 DEF RemoveShift
  <2>2. idx >= 1 /\ pc = "remove" /\ size' = size /\ removeSize' = size
        /\ pc' \in {"shrink", "visit"} /\ idx' \in 0 .. Cardinality(Clients)
        /\ (pc' = "shrink" => idx' = idx /\ size >= 1)
    BY <1>2, <1>4, <1>13 DEF RemoveShift, LoopInv
  <2> QED BY <1>3, <1>4, <1>13, <2>1, <2>2 DEF RemoveShift
<1>14. CASE RemoveCount
  <2>1. idx >= 1 /\ size >= 1 /\ removeSize >= 1 /\ pc = "shrink"
    BY <1>14 DEF RemoveCount, LoopInv
  <2>2. size' \in 0 .. Cardinality(InClients) /\ idx' \in 0 .. Cardinality(Clients)
    BY <1>2, <1>4, <1>14, <2>1 DEF RemoveCount
  <2> QED BY <1>3, <1>4, <1>14, <2>1, <2>2 DEF RemoveCount
<1> QED BY <1>5, <1>6, <1>7, <1>8, <1>9, <1>10, <1>11, <1>12, <1>13, <1>14
        DEF ExtractFlv

\* A step of a handler, or of a client, keeps the types.
LEMMA HandlerType ==
  ASSUME TypeOK, LoopInv, NEW c \in Clients, Connect(c) \/ Added(c)
  PROVE  TypeOK' /\ LoopInv'
<1>1. Items' = Items /\ Item' = Item
  BY DEF Items, Item, Connect, Added, streamVars, loopVars
<1>2. /\ Cardinality(Clients) \in Nat /\ Cardinality(InClients) \in Nat
      /\ Cardinality(InClients) <= Cardinality(Clients)
      /\ conn[c] # "in" => Cardinality(InClients) < Cardinality(Clients)
  BY CountType, AddedType
<1>3. /\ size \in Nat /\ size <= Cardinality(InClients)
      /\ addSize \in [Clients -> 0 .. Cardinality(Clients)]
      /\ \A d \in Clients : addSize[d] <= Cardinality(InClients)
      /\ removeSize \in Nat /\ removeSize <= Cardinality(InClients)
  BY DEF TypeOK, LoopInv
<1>4. CASE Connect(c)
  <2>1. InClients' = InClients
    BY <1>4 DEF Connect, InClients, TypeOK
  <2>2. elements' \in [Slots -> Clients \cup {Nil}]
    BY <1>4 DEF Connect, TypeOK
  <2>3. /\ addSize' \in [Clients -> 0 .. Cardinality(Clients)]
        /\ \A d \in Clients : addSize'[d] <= Cardinality(InClients)
    BY <1>2, <1>3, <1>4 DEF Connect
  <2>4. conn' \in [Clients -> {"out", "adding", "in"}]
    BY <1>4 DEF Connect, TypeOK
  <2>5. raced' \in BOOLEAN
    BY <1>4 DEF Connect
  <2>6. TypeOK'
    BY <1>1, <1>4, <2>2, <2>3, <2>4, <2>5
       DEF Connect, TypeOK, streamVars, loopVars, clientVars
  <2>7. LoopInv'
    BY <1>1, <1>4, <2>1, <2>3 DEF Connect, LoopInv, streamVars, loopVars
  <2> QED BY <2>6, <2>7
<1>5. CASE Added(c)
  <2>1. InClients' = InClients \cup {c}
        /\ Cardinality(InClients') = Cardinality(InClients) + 1
    BY <1>5, AddedCount DEF Added
  <2>2. conn' \in [Clients -> {"out", "adding", "in"}]
    BY <1>5 DEF Added, TypeOK
  <2>3. size' \in 1 .. Cardinality(InClients) + 1
    BY <1>2, <1>3, <1>5 DEF Added
  <2>4. size' \in 0 .. Cardinality(Clients)
    BY <1>2, <1>5, <2>3 DEF Added
  <2>5. TypeOK'
    BY <1>1, <1>5, <2>2, <2>4
       DEF Added, TypeOK, streamVars, loopVars, clientVars
  <2>6. /\ size' <= Cardinality(InClients') /\ removeSize' <= Cardinality(InClients')
        /\ \A d \in Clients : addSize'[d] <= Cardinality(InClients')
        /\ Early \subseteq InClients'
        /\ size' >= 1
    <3>1. addSize' = addSize /\ removeSize' = removeSize
      BY <1>5 DEF Added, loopVars
    <3>2. Early \subseteq InClients'
      BY <2>1 DEF LoopInv
    <3>3. \A d \in Clients : addSize'[d] \in Nat /\ addSize'[d] <= Cardinality(InClients)
      BY <1>2, <1>3, <3>1
    <3>4. Cardinality(InClients) \in Nat /\ Cardinality(InClients') \in Nat
      BY <1>2, <1>3, <2>1, <2>3
    <3>5. Cardinality(InClients) <= Cardinality(InClients')
      BY <1>2, <1>3, <2>1, <2>3
    <3>6. \A d \in Clients : addSize'[d] <= Cardinality(InClients')
      BY <3>3, <3>4, <3>5
    <3> QED BY <1>2, <1>3, <2>1, <2>3, <3>1, <3>2, <3>4, <3>5, <3>6
  <2> QED BY <1>1, <1>5, <2>5, <2>6 DEF Added, LoopInv, streamVars, loopVars
<1> QED BY <1>4, <1>5

LEMMA ClientType ==
  ASSUME TypeOK, LoopInv, NEW c \in Clients, SendPacket(c) \/ Disconnect(c)
  PROVE  TypeOK' /\ LoopInv'
<1>1. /\ UNCHANGED <<streamVars, pc, loopVars, listVars, handlerVars, init,
                     recorded, audience, raced>>
  BY DEF SendPacket, SendPacketTake, SendPacketOk, SendPacketFails, Disconnect
<1>2. Items' = Items /\ Item' = Item /\ InClients' = InClients
  BY <1>1 DEF Items, Item, InClients, streamVars, loopVars, handlerVars
<1>3. LoopInv'
  BY <1>1, <1>2 DEF LoopInv, streamVars, loopVars, handlerVars, listVars
<1>4. /\ closed \in [Clients -> BOOLEAN] /\ gone \in [Clients -> BOOLEAN]
      /\ packetQueue \in [Clients -> Seq(Items)]
      /\ \A d \in Clients : Len(packetQueue[d]) <= QueueSize
      /\ sending \in [Clients -> Items \cup {Nil}]
      /\ received \in [Clients -> Seq(Items)]
  BY DEF TypeOK
<1>5. ASSUME closed' \in [Clients -> BOOLEAN], gone' \in [Clients -> BOOLEAN],
             packetQueue' \in [Clients -> Seq(Items)],
             \A d \in Clients : Len(packetQueue'[d]) <= QueueSize,
             sending' \in [Clients -> Items \cup {Nil}],
             received' \in [Clients -> Seq(Items)]
      PROVE  TypeOK'
  BY <1>1, <1>2, <1>5 DEF TypeOK, streamVars, loopVars, handlerVars, listVars
<1>6. CASE SendPacketTake(c)
  <2>1. /\ Head(packetQueue[c]) \in Items /\ Tail(packetQueue[c]) \in Seq(Items)
        /\ Len(Tail(packetQueue[c])) <= Len(packetQueue[c])
        /\ Len(Tail(packetQueue[c])) \in Nat /\ Len(packetQueue[c]) \in Nat
    <3>1. packetQueue[c] \in Seq(Items) /\ packetQueue[c] # <<>>
      BY <1>4, <1>6 DEF SendPacketTake
    <3> QED BY <3>1, HeadTailProperties, LenProperties
  <2>2. Len(Tail(packetQueue[c])) <= QueueSize
    BY <2>1, <1>4, FanoutAssumption
  <2>3. sending' \in [Clients -> Items \cup {Nil}]
    BY <1>4, <1>6, <2>1 DEF SendPacketTake
  <2>4. packetQueue' \in [Clients -> Seq(Items)]
    BY <1>4, <1>6, <2>1 DEF SendPacketTake
  <2>5. \A d \in Clients : Len(packetQueue'[d]) <= QueueSize
    BY <1>4, <1>6, <2>2 DEF SendPacketTake
  <2> QED BY <1>3, <1>4, <1>5, <1>6, <2>3, <2>4, <2>5 DEF SendPacketTake
<1>7. CASE SendPacketOk(c)
  <2>1. sending[c] \in Items
    BY <1>4, <1>7 DEF SendPacketOk
  <2>2. received' \in [Clients -> Seq(Items)]
    BY <1>4, <1>7, <2>1 DEF SendPacketOk
  <2>3. sending' \in [Clients -> Items \cup {Nil}]
    BY <1>4, <1>7 DEF SendPacketOk
  <2> QED BY <1>3, <1>4, <1>5, <1>7, <2>2, <2>3 DEF SendPacketOk
<1>8. CASE SendPacketFails(c)
  <2>1. closed' \in [Clients -> BOOLEAN]
    BY <1>4, <1>8 DEF SendPacketFails
  <2> QED BY <1>3, <1>4, <1>5, <1>8, <2>1 DEF SendPacketFails, clientVars
<1>9. CASE Disconnect(c)
  <2>1. gone' \in [Clients -> BOOLEAN]
    BY <1>4, <1>9 DEF Disconnect
  <2> QED BY <1>3, <1>4, <1>5, <1>9, <2>1 DEF Disconnect
<1> QED BY <1>6, <1>7, <1>8, <1>9 DEF SendPacket

\* A step of extractFlv that starts with a tag keeps the types.
LEMMA TagType ==
  ASSUME TypeOK, LoopInv, TagComplete \/ TagPanics
  PROVE  TypeOK' /\ LoopInv'
<1>1. Items' = Items /\ InClients' = InClients
  BY DEF Items, InClients, TagComplete, TagPanics, streamVars, handlerVars
<1>2. CASE TagComplete
  <2>1. /\ tag' = tag + 1 /\ tag' \in 1 .. Len(kinds) /\ tag \in Nat
        /\ tag + 1 \in 1 .. Len(kinds) /\ recorded \in 0 .. tag /\ Len(kinds) \in Nat
    BY <1>2 DEF TagComplete, TypeOK
  <2>2. {videoSeq', audioSeq'} \subseteq 1 .. Len(kinds) \cup {Nil}
    BY <1>2, <2>1 DEF TagComplete, CacheWrite, TypeOK
  <2>3. recorded \in 0 .. tag'
    BY <2>1
  <2>4. audience' \subseteq Clients /\ pc' = "visit" /\ idx' = size /\ kinds' = kinds
        /\ recorded' = recorded
    BY <1>2 DEF TagComplete
  <2>5. TypeOK'
    BY <1>1, <1>2, <2>1, <2>2, <2>3, <2>4
       DEF TagComplete, TypeOK, listVars, handlerVars, clientVars
  <2>6. LoopInv'
    BY <1>1, <1>2, <2>1, <2>4 DEF TagComplete, LoopInv, listVars, handlerVars
  <2> QED BY <2>5, <2>6
<1>3. CASE TagPanics
  <2>1. TypeOK'
    BY <1>1, <1>3 DEF TagPanics, TypeOK, streamVars, loopVars, listVars,
                      handlerVars, clientVars
  <2>2. LoopInv'
    BY <1>1, <1>3 DEF TagPanics, LoopInv, streamVars, loopVars, listVars, handlerVars
  <2> QED BY <2>1, <2>2
<1> QED BY <1>2, <1>3

LEMMA NextType == TypeOK /\ LoopInv /\ [Next]_vars => TypeOK' /\ LoopInv'
<1> SUFFICES ASSUME TypeOK, LoopInv, [Next]_vars PROVE TypeOK' /\ LoopInv'
  OBVIOUS
<1>1. CASE UNCHANGED vars
  <2>1. Items' = Items /\ InClients' = InClients /\ Item' = Item
    BY <1>1 DEF vars, Items, InClients, Item, streamVars, handlerVars, loopVars
  <2>2. TypeOK'
    BY <1>1, <2>1 DEF TypeOK, vars, streamVars, loopVars, listVars, handlerVars,
                      clientVars
  <2>3. LoopInv'
    BY <1>1, <2>1 DEF LoopInv, vars, streamVars, loopVars, listVars, handlerVars
  <2> QED BY <2>2, <2>3
<1>2. CASE Next
  <2>1. Leaving \subseteq Clients
    BY FanoutAssumption DEF Clients
  <2> QED BY <1>2, <2>1, TagType, ExtractType, HandlerType, ClientType DEF Next
<1> QED BY <1>1, <1>2

LEMMA TypeInvariant == Spec => [](TypeOK /\ LoopInv)
BY InitType, NextType, PTL DEF Spec

\* Whatever the handlers and the loop read and write in the list between each
\* other's steps, its length stays that of at most all clients, the loop's index
\* inside it, and no channel takes more than its capacity.
THEOREM TypeCorrect == Spec => []TypeOK
BY TypeInvariant, PTL

-----------------------------------------------------------------------------
(* What a client is sent. *)

Middle(c) == IF sending[c] = Nil THEN <<>> ELSE <<sending[c]>>

LEMMA StreamType ==
  ASSUME TypeOK, NEW c \in Clients
  PROVE  /\ received[c] \in Seq(Items) /\ Middle(c) \in Seq(Items)
         /\ packetQueue[c] \in Seq(Items)
         /\ Stream(c) = received[c] \o Middle(c) \o packetQueue[c]
         /\ Stream(c) \in Seq(Items)
         /\ DOMAIN Stream(c) = 1 .. Len(Stream(c)) /\ Len(Stream(c)) \in Nat
         /\ \A i \in DOMAIN Stream(c) :
               /\ Stream(c)[i] = <<Stream(c)[i][1], Number(c, i)>>
               /\ Stream(c)[i][1] \in {"header", "tag"}
               /\ Number(c, i) \in 1 .. Len(kinds)
               /\ Number(c, i) \in Nat
<1>1. /\ received[c] \in Seq(Items) /\ packetQueue[c] \in Seq(Items)
      /\ sending[c] \in Items \cup {Nil}
  BY DEF TypeOK
<1>2. Middle(c) \in Seq(Items)
  BY <1>1 DEF Middle
<1>3. Stream(c) = received[c] \o Middle(c) \o packetQueue[c]
  BY DEF Stream, Middle
<1>4. Stream(c) \in Seq(Items)
  BY <1>1, <1>2, <1>3, ConcatProperties
<1>5. \A i \in DOMAIN Stream(c) : Stream(c)[i] \in Items
  BY <1>4, ElementOfSeq
<1>6. Len(kinds) \in Nat
  BY DEF TypeOK
<1>7. \A i \in DOMAIN Stream(c) :
               /\ Stream(c)[i] = <<Stream(c)[i][1], Number(c, i)>>
               /\ Stream(c)[i][1] \in {"header", "tag"}
               /\ Number(c, i) \in 1 .. Len(kinds)
               /\ Number(c, i) \in Nat
  BY <1>5, <1>6 DEF Items, Number
<1>8. DOMAIN Stream(c) = 1 .. Len(Stream(c)) /\ Len(Stream(c)) \in Nat
  BY <1>4, LenProperties
<1> QED BY <1>1, <1>2, <1>3, <1>4, <1>7, <1>8

\* Only the loop's send adds to what is sent to a client, one item at a time.
Sent(c) ==
    /\ WriteSend
    /\ writer = c
    /\ Item \in Items
    /\ Stream(c)' = Append(Stream(c), Item)

LEMMA StreamStep ==
  ASSUME TypeOK, LoopInv, [Next]_vars, NEW c \in Clients
  PROVE  Sent(c) \/ (Stream(c)' = Stream(c) /\ ~(WriteSend /\ writer = c))
<1>0. Leaving \subseteq Clients
  BY FanoutAssumption DEF Clients
<1>a. \A a, b, d \in Seq(Items) : (a \o b) \o d = a \o (b \o d)
  <2> TAKE a, b, d \in Seq(Items)
  <2> QED BY ConcatAssociative
<1> DEFINE s == received[c]
           q == packetQueue[c]
           x == sending[c]
<1>1. s \in Seq(Items) /\ q \in Seq(Items) /\ Middle(c) \in Seq(Items)
      /\ Stream(c) = s \o Middle(c) \o q
  BY StreamType
<1>2. CASE WriteSend
  <2>1. /\ pc = "send" /\ writer \in Clients /\ tag >= 1 /\ Item # Nil /\ tag # 0
    BY <1>2 DEF WriteSend, LoopInv, TypeOK
  <2>2. Item \in Items
    BY <2>1, ItemType
  <2>3. packetQueue' = [packetQueue EXCEPT ![writer] = Append(@, Item)]
        /\ received' = received /\ sending' = sending
    BY <1>2 DEF WriteSend, clientVars
  <2>4. CASE writer = c
    <3>1. q' = Append(q, Item)
      BY <2>1, <2>3, <2>4 DEF TypeOK
    <3>2. Stream(c)' = s \o Middle(c) \o Append(q, Item)
      BY <2>3, <3>1 DEF Stream, Middle
    <3>3. \A a \in Seq(Items) : a \o Append(q, Item) = Append(a \o q, Item)
      <4> TAKE a \in Seq(Items)
      <4>1. <<Item>> \in Seq(Items) /\ a \o q \in Seq(Items)
        BY <1>1, <2>2, ConcatProperties
      <4>2. Append(q, Item) = q \o <<Item>>
        BY <1>1, <2>2, AppendIsConcat
      <4>3. a \o (q \o <<Item>>) = (a \o q) \o <<Item>>
        BY <1>1, <4>1, <1>a
      <4>4. Append(a \o q, Item) = (a \o q) \o <<Item>>
        BY <2>2, <4>1, AppendIsConcat
      <4> QED BY <4>2, <4>3, <4>4
    <3>4. s \o Middle(c) \in Seq(Items)
      BY <1>1, ConcatProperties
    <3>5. Stream(c)' = Append(Stream(c), Item)
      BY <1>1, <3>2, <3>3, <3>4
    <3> QED BY <1>2, <2>2, <2>4, <3>5 DEF Sent
  <2>5. CASE writer # c
    <3>1. q' = q
      BY <2>1, <2>3, <2>5 DEF TypeOK
    <3> QED BY <2>3, <2>5, <3>1 DEF Stream
  <2> QED BY <2>4, <2>5
<1>3. ASSUME ~WriteSend, Stream(c)' = Stream(c)
      PROVE  Sent(c) \/ (Stream(c)' = Stream(c) /\ ~(WriteSend /\ writer = c))
  BY <1>3
<1>4. ASSUME UNCHANGED <<received, sending, packetQueue>>
      PROVE  Stream(c)' = Stream(c)
  BY <1>4 DEF Stream
<1>5. ASSUME NEW d \in Clients, SendPacketTake(d)
      PROVE  Stream(c)' = Stream(c)
  <2>1. CASE c = d
    <3>1. x = Nil /\ q # <<>> /\ x' = Head(q) /\ q' = Tail(q) /\ s' = s
      BY <1>5, <2>1 DEF SendPacketTake, TypeOK
    <3>2. Head(q) \in Items /\ Tail(q) \in Seq(Items) /\ <<Head(q)>> \o Tail(q) = q
      <4>1. Head(q) \in Items /\ Tail(q) \in Seq(Items)
        BY <1>1, <3>1, HeadTailProperties
      <4> QED BY <1>1, <3>1, <4>1
    <3>3. Head(q) # Nil
      BY <3>2, NilType DEF Items, TypeOK
    <3>4. Stream(c)' = s \o <<Head(q)>> \o Tail(q)
      BY <3>1, <3>3 DEF Stream
    <3>5. Stream(c) = s \o <<>> \o q
      BY <3>1 DEF Stream
    <3>6. s \o <<Head(q)>> \o Tail(q) = s \o (<<Head(q)>> \o Tail(q))
      <4>1. <<Head(q)>> \in Seq(Items)
        BY <3>2
      <4>2. s \in Seq(Items) /\ Tail(q) \in Seq(Items)
        BY <1>1, <3>2
      <4> QED BY <4>1, <4>2, <1>a, Zenon
    <3>7. s \o <<>> = s
      BY <1>1, ConcatEmptySeq
    <3> QED BY <3>2, <3>4, <3>5, <3>6, <3>7
  <2>2. CASE c # d
    <3>1. x' = x /\ q' = q /\ s' = s
      BY <1>5, <2>2 DEF SendPacketTake, TypeOK
    <3> QED BY <3>1 DEF Stream
  <2> QED BY <2>1, <2>2
<1>6. ASSUME NEW d \in Clients, SendPacketOk(d)
      PROVE  Stream(c)' = Stream(c)
  <2>1. CASE c = d
    <3>1. x # Nil /\ x \in Items /\ s' = Append(s, x) /\ x' = Nil /\ q' = q
      BY <1>6, <2>1 DEF SendPacketOk, TypeOK
    <3>2. Stream(c)' = Append(s, x) \o <<>> \o q
      BY <3>1 DEF Stream
    <3>3. Stream(c) = s \o <<x>> \o q
      BY <3>1 DEF Stream
    <3>4. Append(s, x) = s \o <<x>> /\ Append(s, x) \in Seq(Items)
      <4>1. s \in Seq(Items) /\ x \in Items
        BY <1>1, <3>1
      <4>2. Append(s, x) = s \o <<x>>
        BY <4>1, AppendIsConcat
      <4>3. Append(s, x) \in Seq(Items)
        BY <4>1
      <4> QED BY <4>2, <4>3
    <3>5. Append(s, x) \o <<>> = Append(s, x)
      BY <3>4, ConcatEmptySeq
    <3> QED BY <3>2, <3>3, <3>4, <3>5
  <2>2. CASE c # d
    <3>1. x' = x /\ q' = q /\ s' = s
      BY <1>6, <2>2 DEF SendPacketOk, TypeOK
    <3> QED BY <3>1 DEF Stream
  <2> QED BY <2>1, <2>2
<1>7. CASE ~WriteSend
  <2>1. CASE UNCHANGED vars
    BY <1>3, <1>4, <1>7, <2>1 DEF vars, clientVars
  <2>2. CASE TagComplete \/ TagPanics
    BY <1>3, <1>4, <1>7, <2>2 DEF TagComplete, TagPanics, clientVars
  <2>3. CASE ExtractFlv
    BY <1>3, <1>4, <1>7, <2>3 DEF ExtractFlv, clientVars, VisitWriter, DropWriter,
       TagDone, NothingCached, WriteOpen, WriteClosed, InitialClosed, RemoveShift,
       RemoveCount
  <2>4. ASSUME NEW d \in Clients, Connect(d) \/ Added(d) \/ SendPacketFails(d)
                                  \/ Disconnect(d)
        PROVE  Stream(c)' = Stream(c)
    BY <1>4, <2>4 DEF Connect, Added, SendPacketFails, Disconnect, clientVars
  <2> QED BY <1>0, <1>3, <1>5, <1>6, <1>7, <2>1, <2>2, <2>3, <2>4
          DEF Next, SendPacket
<1> QED BY <1>2, <1>7

\* What there is to send is a header or the tag.
LEMMA ItemParts ==
  ASSUME TypeOK, Item # Nil
  PROVE  /\ stage = "tag" /\ Item[1] = "tag" => Item[2] = tag
         /\ Item[1] = "tag" <=> stage = "tag"
         /\ stage = "video" => Item[1] = "header" /\ videoSeq # Nil /\ Item[2] = videoSeq
         /\ stage = "audio" => Item[1] = "header" /\ audioSeq # Nil /\ Item[2] = audioSeq
<1>1. CASE stage = "tag"
  <2>1. Item = <<"tag", tag>>
    BY <1>1, ItemType
  <2> QED BY <1>1, <2>1
<1>2. CASE stage = "video"
  <2>1. Item = <<"header", videoSeq>> /\ videoSeq # Nil
    BY <1>2, ItemType
  <2> QED BY <1>2, <2>1
<1>3. CASE stage = "audio"
  <2>1. Item = <<"header", audioSeq>> /\ audioSeq # Nil
    BY <1>3, ItemType
  <2> QED BY <1>3, <2>1
<1> QED BY <1>1, <1>2, <1>3 DEF TypeOK

\* What a send, and what any other step, does to the items of a stream.
LEMMA SentItems ==
  ASSUME TypeOK, NEW c \in Clients, Sent(c)
  PROVE  /\ DOMAIN Stream(c) = 1 .. Len(Stream(c)) /\ Len(Stream(c)) \in Nat
         /\ Len(Stream(c)') = Len(Stream(c)) + 1
         /\ DOMAIN Stream(c)' = 1 .. Len(Stream(c)) + 1
         /\ Item \in Items /\ Item # Nil
         /\ \A i \in DOMAIN Stream(c)' :
               IF i \in DOMAIN Stream(c)
               THEN /\ Stream(c)'[i] = Stream(c)[i]
                    /\ IsTag(c, i)' <=> IsTag(c, i)
                    /\ Number(c, i)' = Number(c, i)
               ELSE /\ i = Len(Stream(c)) + 1
                    /\ Stream(c)'[i] = Item
                    /\ IsTag(c, i)' <=> Item[1] = "tag"
                    /\ Number(c, i)' = Item[2]
<1>1. Stream(c) \in Seq(Items) /\ Item \in Items /\ Stream(c)' = Append(Stream(c), Item)
  BY StreamType DEF Sent
<1>2. /\ Len(Append(Stream(c), Item)) = Len(Stream(c)) + 1
      /\ \A i \in 1 .. Len(Stream(c)) : Append(Stream(c), Item)[i] = Stream(c)[i]
      /\ Append(Stream(c), Item)[Len(Stream(c)) + 1] = Item
      /\ Append(Stream(c), Item) \in Seq(Items)
  BY <1>1, AppendProperties
<1>3. DOMAIN Append(Stream(c), Item) = 1 .. Len(Append(Stream(c), Item))
  BY <1>2, LenProperties
<1>4. DOMAIN Stream(c) = 1 .. Len(Stream(c)) /\ Len(Stream(c)) \in Nat
  BY StreamType
<1>5. Item # Nil
  BY <1>1, NilType DEF Items, TypeOK
<1>6. ASSUME NEW i \in DOMAIN Stream(c)'
      PROVE  IF i \in DOMAIN Stream(c) THEN Stream(c)'[i] = Stream(c)[i]
             ELSE i = Len(Stream(c)) + 1 /\ Stream(c)'[i] = Item
  BY <1>1, <1>2, <1>3, <1>4, <1>6
<1> QED BY <1>1, <1>2, <1>3, <1>4, <1>5, <1>6 DEF IsTag, Number

LEMMA SameItems ==
  ASSUME NEW c, Stream(c)' = Stream(c)
  PROVE  \A i : IsTag(c, i)' = IsTag(c, i) /\ Number(c, i)' = Number(c, i)
BY DEF IsTag, Number

\* The number of tags only grows, and not while the loop runs.
LEMMA TagGrows ==
  ASSUME TypeOK, [Next]_vars
  PROVE  /\ tag \in Nat /\ tag' \in Nat /\ tag <= tag'
         /\ tag' = tag \/ (TagComplete /\ tag' = tag + 1)
<1>1. tag \in Nat
  BY DEF TypeOK
<1>2. tag' = tag \/ (TagComplete /\ tag' = tag + 1)
  BY DEF Next, vars, streamVars, ExtractFlv, SendPacket, TagComplete, TagPanics,
       VisitWriter, DropWriter, TagDone, NothingCached, WriteOpen, WriteSend,
       WriteClosed, InitialClosed, RemoveShift, RemoveCount, Connect, Added,
       SendPacketTake, SendPacketOk, SendPacketFails, Disconnect
<1> QED BY <1>1, <1>2

LEMMA InitStream == ASSUME Init, NEW c \in Clients PROVE Stream(c) = <<>>
<1>1. received[c] = <<>> /\ packetQueue[c] = <<>> /\ sending[c] = Nil
  BY DEF Init
<1> QED BY <1>1 DEF Stream

LEMMA InitReordering == Init => TagsKnown /\ NoReordering
BY InitStream DEF TagsKnown, NoReordering

LEMMA NextReordering ==
  TypeOK /\ LoopInv /\ TagsKnown /\ NoReordering /\ [Next]_vars
      => TagsKnown' /\ NoReordering'
<1> SUFFICES ASSUME TypeOK, LoopInv, TagsKnown, NoReordering, [Next]_vars
             PROVE  TagsKnown' /\ NoReordering'
  OBVIOUS
<1>1. SUFFICES ASSUME NEW c \in Clients
               PROVE  /\ \A i \in DOMAIN Stream(c)' :
                            IsTag(c, i)' => Number(c, i)' <= tag'
                      /\ \A i, j \in DOMAIN Stream(c)' :
                            i < j /\ IsTag(c, i)' /\ IsTag(c, j)'
                                => Number(c, i)' <= Number(c, j)'
  BY DEF TagsKnown, NoReordering
<1>2. \A i \in DOMAIN Stream(c) : Number(c, i) \in Nat
  BY StreamType
<1>3. /\ \A i \in DOMAIN Stream(c) : IsTag(c, i) => Number(c, i) <= tag
      /\ \A i, j \in DOMAIN Stream(c) :
            i < j /\ IsTag(c, i) /\ IsTag(c, j) => Number(c, i) <= Number(c, j)
  BY DEF TagsKnown, NoReordering
<1>4. tag \in Nat /\ tag' \in Nat /\ tag <= tag'
  BY TagGrows
<1>5. CASE Stream(c)' = Stream(c)
  BY <1>2, <1>3, <1>4, <1>5, SameItems
<1>6. CASE Sent(c)
  <2>1. Item[1] = "tag" => Item[2] = tag
    BY <1>6, SentItems, ItemParts
  <2>2. tag' = tag
    BY <1>6 DEF Sent, WriteSend, streamVars
  <2> HIDE DEF IsTag, Number
  <2> QED BY <1>2, <1>3, <1>4, <1>6, <2>1, <2>2, SentItems
<1> QED BY <1>5, <1>6, StreamStep

LEMMA ReorderingInvariant == Spec => [](TagsKnown /\ NoReordering)
<1>1. Init => TagsKnown /\ NoReordering
  BY InitReordering
<1>2. TypeOK /\ LoopInv /\ TagsKnown /\ NoReordering /\ [Next]_vars
        => TagsKnown' /\ NoReordering'
  BY NextReordering
<1> QED BY <1>1, <1>2, TypeInvariant, PTL DEF Spec

\* Whatever the handlers and the loop do to the unlocked list, no client is sent a
\* tag after a later one.
THEOREM TagsKeepOrder == Spec => []NoReordering
BY ReorderingInvariant, PTL

-----------------------------------------------------------------------------
(* The headers a client is sent. *)

LEMMA CacheFrame ==
  ASSUME [Next]_vars
  PROVE  TagComplete \/ UNCHANGED <<tag, kinds, videoSeq, audioSeq>>
BY DEF Next, vars, streamVars, ExtractFlv, SendPacket, TagPanics,
       VisitWriter, DropWriter, TagDone, NothingCached, WriteOpen, WriteSend,
       WriteClosed, InitialClosed, RemoveShift, RemoveCount, Connect, Added,
       SendPacketTake, SendPacketOk, SendPacketFails, Disconnect

LEMMA InitCache == Init => CacheInv
BY DEF Init, CacheInv, Newest

LEMMA NextCache == TypeOK /\ CacheInv /\ [Next]_vars => CacheInv'
<1> SUFFICES ASSUME TypeOK, CacheInv, [Next]_vars PROVE CacheInv'
  OBVIOUS
<1>1. kinds' = kinds
  BY KindsStay
<1>2. CASE TagComplete
  <2>1. /\ tag' = tag + 1 /\ tag \in Nat /\ Nil # tag + 1
        /\ videoSeq' = IF ~CacheFull /\ kinds[tag + 1] = "videoSeq"
                       THEN tag + 1 ELSE videoSeq
        /\ audioSeq' = IF ~CacheFull /\ kinds[tag + 1] = "audioSeq"
                       THEN tag + 1 ELSE audioSeq
    BY <1>2, NilType DEF TagComplete, CacheWrite, TypeOK
  <2>2. CacheFull => Both(tag)
    BY DEF CacheInv, Newest, CacheFull, Both
  <2>3. \A t : Both(t)' <=> Both(t)
    BY <1>1 DEF Both
  <2>4. ASSUME NEW kind, NEW h, NEW n,
               Newest(kind, h),
               CacheFull => h # Nil,
               n = IF ~CacheFull /\ kinds[tag + 1] = kind THEN tag + 1 ELSE h
        PROVE  IF n = Nil THEN \A g \in 1 .. tag + 1 : kinds[g] # kind
               ELSE /\ n \in 1 .. tag + 1
                    /\ kinds[n] = kind
                    /\ \A g \in n + 1 .. tag + 1 : kinds[g] = kind => Both(g - 1)
    <3>1. CASE ~CacheFull /\ kinds[tag + 1] = kind
      BY <2>1, <2>4, <3>1
    <3>2. CASE ~CacheFull /\ kinds[tag + 1] # kind
      BY <2>1, <2>4, <3>2 DEF Newest
    <3>3. CASE CacheFull
      <4>1. n = h /\ h # Nil /\ h \in 1 .. tag /\ kinds[h] = kind
            /\ \A g \in h + 1 .. tag : kinds[g] = kind => Both(g - 1)
        BY <2>4, <3>3 DEF Newest
      <4>2. ASSUME NEW g \in h + 1 .. tag + 1, kinds[g] = kind
            PROVE  Both(g - 1)
        <5>1. CASE g = tag + 1
          BY <2>1, <2>2, <3>3, <5>1
        <5>2. CASE g # tag + 1
          BY <2>1, <4>1, <4>2, <5>2
        <5> QED BY <5>1, <5>2
      <4> QED BY <2>1, <4>1, <4>2
    <3> QED BY <3>1, <3>2, <3>3
  <2>5. Newest("videoSeq", videoSeq) /\ Newest("audioSeq", audioSeq)
        /\ (CacheFull => videoSeq # Nil /\ audioSeq # Nil)
    BY DEF CacheInv, CacheFull
  <2>6. Newest("videoSeq", videoSeq)'
    <3>1. IF videoSeq' = Nil THEN \A g \in 1 .. tag + 1 : kinds[g] # "videoSeq"
          ELSE /\ videoSeq' \in 1 .. tag + 1
               /\ kinds[videoSeq'] = "videoSeq"
               /\ \A g \in videoSeq' + 1 .. tag + 1 :
                     kinds[g] = "videoSeq" => Both(g - 1)
      BY <2>1, <2>4, <2>5
    <3> QED BY <1>1, <2>1, <2>3, <3>1 DEF Newest
  <2>7. Newest("audioSeq", audioSeq)'
    <3>1. IF audioSeq' = Nil THEN \A g \in 1 .. tag + 1 : kinds[g] # "audioSeq"
          ELSE /\ audioSeq' \in 1 .. tag + 1
               /\ kinds[audioSeq'] = "audioSeq"
               /\ \A g \in audioSeq' + 1 .. tag + 1 :
                     kinds[g] = "audioSeq" => Both(g - 1)
      BY <2>1, <2>4, <2>5
    <3> QED BY <1>1, <2>1, <2>3, <3>1 DEF Newest
  <2> QED BY <2>6, <2>7 DEF CacheInv
<1>3. CASE UNCHANGED <<tag, kinds, videoSeq, audioSeq>>
  BY <1>3 DEF CacheInv, Newest, Both
<1> QED BY <1>2, <1>3, CacheFrame

\* A closed writer stays closed.
LEMMA ClosedStays ==
  ASSUME TypeOK, [Next]_vars, NEW c \in Clients, closed[c]
  PROVE  closed'[c]
<1>1. closed' = closed \/ \E d \in Clients : closed' = [closed EXCEPT ![d] = TRUE]
  BY DEF Next, vars, ExtractFlv, SendPacket, TagComplete, TagPanics,
       VisitWriter, DropWriter, TagDone, NothingCached, WriteOpen, WriteSend,
       WriteClosed, InitialClosed, RemoveShift, RemoveCount, Connect, Added,
       SendPacketTake, SendPacketOk, SendPacketFails, Disconnect
<1> QED BY <1>1 DEF TypeOK

\* The loop stays at an open client until it has sent it the tag.
LEMMA ServingStays ==
  ASSUME TypeOK, LoopInv, [Next]_vars, NEW c \in Clients, Serving(c), ~closed[c],
         ~(WriteSend /\ stage = "tag")
  PROVE  Serving(c)' /\ tag' = tag
<1>1. pc \in {"write", "send"} /\ writer = c
  BY DEF Serving
<1>2. CASE ExtractFlv
  <2>1. CASE NothingCached
    <3>1. stage # "tag" /\ stage \in {"video", "audio", "tag"}
      BY <2>1, ItemType DEF NothingCached, TypeOK
    <3> QED BY <1>1, <2>1, <3>1 DEF NothingCached, StageDone, Serving, streamVars
  <2>2. CASE WriteSend
    <3>1. stage # "tag"
      BY <2>2
    <3> QED BY <1>1, <2>2, <3>1 DEF WriteSend, StageDone, Serving, streamVars
  <2>3. CASE WriteOpen
    BY <1>1, <2>3 DEF WriteOpen, Serving, streamVars, loopVars
  <2>4. CASE ~NothingCached /\ ~WriteSend /\ ~WriteOpen
    BY <1>1, <1>2, <2>4 DEF ExtractFlv, VisitWriter, DropWriter, TagDone, WriteClosed,
       InitialClosed, RemoveShift, RemoveCount
  <2> QED BY <2>1, <2>2, <2>3, <2>4
<1>3. CASE ~ExtractFlv
  <2>1. pc' = pc /\ writer' = writer /\ tag' = tag
    BY <1>1, <1>3 DEF Next, vars, streamVars, loopVars, SendPacket, TagComplete,
       TagPanics, Connect, Added, SendPacketTake, SendPacketOk, SendPacketFails,
       Disconnect
  <2> QED BY <1>1, <2>1 DEF Serving
<1> QED BY <1>2, <1>3

LEMMA InitHeader == Init => HeaderInv
BY InitStream DEF HeaderInv

LEMMA NextHeader ==
  TypeOK /\ LoopInv /\ CacheInv /\ HeaderInv /\ [Next]_vars => HeaderInv'
<1> SUFFICES ASSUME TypeOK, LoopInv, CacheInv, HeaderInv, [Next]_vars
             PROVE  HeaderInv'
  OBVIOUS
<1>1. SUFFICES ASSUME NEW c \in Clients, NEW i \in DOMAIN Stream(c)',
                      ~IsTag(c, i)', ~closed'[c]
               PROVE  \/ Serving(c)' /\ Good(Number(c, i), tag)'
                      \/ \E j \in DOMAIN Stream(c)' :
                            IsTag(c, j)' /\ Good(Number(c, i), Number(c, j))'
  BY DEF HeaderInv
<1>2. /\ Good(Number(c, i), tag)' <=> Good(Number(c, i)', tag')
      /\ \A j : Good(Number(c, i), Number(c, j))' <=> Good(Number(c, i)', Number(c, j)')
  BY KindsStay DEF Good, Both
<1>3. ~closed[c]
  BY <1>1, ClosedStays
<1>4. \A k \in DOMAIN Stream(c) : ~IsTag(c, k) =>
            \/ Serving(c) /\ Good(Number(c, k), tag)
            \/ \E j \in DOMAIN Stream(c) :
                  IsTag(c, j) /\ Good(Number(c, k), Number(c, j))
  BY <1>3 DEF HeaderInv
<1>5. CASE Sent(c)
  <2>1. Serving(c) /\ tag' = tag
    BY <1>5 DEF Sent, WriteSend, Serving, streamVars
  <2>2. /\ DOMAIN Stream(c) \subseteq DOMAIN Stream(c)'
        /\ Len(Stream(c)) + 1 \in DOMAIN Stream(c)'
        /\ Len(Stream(c)) + 1 \notin DOMAIN Stream(c)
        /\ Item # Nil
    BY <1>5, SentItems
  <2>3. CASE stage = "tag"
    <3>1. Item[1] = "tag" /\ Item[2] = tag
      BY <2>2, <2>3, ItemParts
    <3>2. i \in DOMAIN Stream(c) /\ ~IsTag(c, i) /\ Number(c, i)' = Number(c, i)
      BY <1>1, <1>5, <3>1, SentItems
    <3>3. CASE Good(Number(c, i), tag)
      <4>1. \A j : j = Len(Stream(c)) + 1 =>
                IsTag(c, j)' /\ Good(Number(c, i)', Number(c, j)')
        BY <1>5, <2>2, <3>1, <3>2, <3>3, SentItems
      <4> QED BY <1>2, <2>2, <4>1
    <3>4. CASE \E j \in DOMAIN Stream(c) :
                  IsTag(c, j) /\ Good(Number(c, i), Number(c, j))
      <4>1. PICK j \in DOMAIN Stream(c) :
                  IsTag(c, j) /\ Good(Number(c, i), Number(c, j))
        BY <3>4
      <4>2. IsTag(c, j)' /\ Good(Number(c, i)', Number(c, j)')
        BY <1>5, <2>2, <3>2, <4>1, SentItems
      <4> QED BY <1>2, <2>2, <4>2
    <3> QED BY <1>4, <3>2, <3>3, <3>4
  <2>4. CASE stage # "tag"
    <3>1. Serving(c)'
      BY <1>3, <2>1, <2>4, ServingStays
    <3>2. CASE i \in DOMAIN Stream(c)
      <4>1. ~IsTag(c, i) /\ Number(c, i)' = Number(c, i)
        BY <1>1, <1>5, <3>2, SentItems
      <4>2. CASE Good(Number(c, i), tag)
        BY <1>2, <2>1, <3>1, <4>1, <4>2
      <4>3. CASE \E j \in DOMAIN Stream(c) :
                  IsTag(c, j) /\ Good(Number(c, i), Number(c, j))
        <5>1. PICK j \in DOMAIN Stream(c) :
                  IsTag(c, j) /\ Good(Number(c, i), Number(c, j))
          BY <4>3
        <5>2. IsTag(c, j)' /\ Good(Number(c, i)', Number(c, j)')
          BY <1>5, <2>2, <4>1, <5>1, SentItems
        <5> QED BY <1>2, <2>2, <5>2
      <4> QED BY <1>4, <3>2, <4>1, <4>2, <4>3
    <3>3. CASE i \notin DOMAIN Stream(c)
      <4>1. Number(c, i)' = Item[2]
        BY <1>1, <1>5, <3>3, SentItems
      <4>2. Good(Item[2], tag)
        <5>1. CASE stage = "video"
          <6>1. videoSeq # Nil /\ Item[2] = videoSeq
            BY <2>2, <5>1, ItemParts
          <6> QED BY <6>1 DEF Good, CacheInv, Newest
        <5>2. CASE stage = "audio"
          <6>1. audioSeq # Nil /\ Item[2] = audioSeq
            BY <2>2, <5>2, ItemParts
          <6> QED BY <6>1 DEF Good, CacheInv, Newest
        <5> QED BY <2>4, <5>1, <5>2 DEF TypeOK
      <4> QED BY <1>2, <2>1, <3>1, <4>1, <4>2
    <3> QED BY <3>2, <3>3
  <2> QED BY <2>3, <2>4
<1>6. CASE Stream(c)' = Stream(c) /\ ~(WriteSend /\ writer = c)
  <2>1. /\ i \in DOMAIN Stream(c) /\ ~IsTag(c, i)
        /\ \A j : Number(c, j)' = Number(c, j) /\ (IsTag(c, j)' <=> IsTag(c, j))
    BY <1>1, <1>6, SameItems
  <2>2. CASE Serving(c) /\ Good(Number(c, i), tag)
    <3>1. ~(WriteSend /\ stage = "tag")
      BY <1>6, <2>2 DEF Serving
    <3>2. Serving(c)' /\ tag' = tag
      BY <1>3, <2>2, <3>1, ServingStays
    <3> QED BY <1>2, <2>1, <2>2, <3>2
  <2>3. CASE \E j \in DOMAIN Stream(c) :
                IsTag(c, j) /\ Good(Number(c, i), Number(c, j))
    <3>1. PICK j \in DOMAIN Stream(c) :
                IsTag(c, j) /\ Good(Number(c, i), Number(c, j))
      BY <2>3
    <3>2. j \in DOMAIN Stream(c)' /\ IsTag(c, j)' /\ Good(Number(c, i)', Number(c, j)')
      BY <1>6, <2>1, <3>1
    <3> QED BY <1>2, <3>2
  <2> QED BY <1>4, <2>1, <2>2, <2>3
<1> QED BY <1>5, <1>6, StreamStep

LEMMA HeaderNewest == TypeOK /\ HeaderInv => NewestHeaders
<1> SUFFICES ASSUME TypeOK, HeaderInv,
                    NEW c \in Clients, NEW i \in DOMAIN Stream(c),
                    ~IsTag(c, i), ~closed[c],
                    NEW g \in Number(c, i) + 1 .. tag, kinds[g] = kinds[Number(c, i)]
             PROVE  \/ Both(g - 1)
                    \/ \E j \in DOMAIN Stream(c) : IsTag(c, j) /\ Number(c, j) < g
  BY DEF NewestHeaders
<1>1. tag \in Nat /\ Number(c, i) \in Nat /\ \A j \in DOMAIN Stream(c) : Number(c, j) \in Nat
  BY StreamType DEF TypeOK
<1>2. CASE Good(Number(c, i), tag)
  BY <1>1, <1>2 DEF Good
<1>3. CASE \E j \in DOMAIN Stream(c) : IsTag(c, j) /\ Good(Number(c, i), Number(c, j))
  <2>1. PICK j \in DOMAIN Stream(c) : IsTag(c, j) /\ Good(Number(c, i), Number(c, j))
    BY <1>3
  <2>2. CASE g <= Number(c, j)
    BY <1>1, <2>1, <2>2 DEF Good
  <2>3. CASE ~(g <= Number(c, j))
    BY <1>1, <2>1, <2>3
  <2> QED BY <2>2, <2>3
<1> QED BY <1>2, <1>3 DEF HeaderInv

LEMMA HeaderInvariant == Spec => [](CacheInv /\ HeaderInv)
<1>1. Init => CacheInv /\ HeaderInv
  BY InitCache, InitHeader
<1>2. TypeOK /\ LoopInv /\ CacheInv /\ HeaderInv /\ [Next]_vars
        => CacheInv' /\ HeaderInv'
  BY NextCache, NextHeader
<1> QED BY <1>1, <1>2, TypeInvariant, PTL DEF Spec

\* A client that is up is sent the newest headers the cache still took when its
\* first tag came, whenever it connects and whatever the list goes through.
THEOREM HeadersAreNewest == Spec => []NewestHeaders
<1>1. TypeOK /\ LoopInv /\ CacheInv /\ HeaderInv => NewestHeaders
  BY HeaderNewest
<1> QED BY <1>1, TypeInvariant, HeaderInvariant, PTL

-----------------------------------------------------------------------------
(* The list while no handler writes it. *)

\* A handler's steps end it for good; every other step leaves the handlers alone.
LEMMA AloneBefore ==
  ASSUME TypeOK, LoopInv, [Next]_vars, Alone'
  PROVE  Alone /\ conn' = conn /\ \A c \in Clients : ~Connect(c) /\ ~Added(c)
<1>1. ASSUME NEW c \in Clients, Connect(c) \/ Added(c) PROVE FALSE
  <2>1. conn[c] # "in" /\ conn'[c] \in {"adding", "in"}
    BY <1>1 DEF Connect, Added, TypeOK
  <2>2. c \in Late
    BY <2>1 DEF LoopInv, InClients, Clients
  <2> QED BY <2>1, <2>2 DEF Alone
<1>2. conn' = conn
  BY <1>1 DEF Next, vars, handlerVars, ExtractFlv, SendPacket, TagComplete, TagPanics,
       VisitWriter, DropWriter, TagDone, NothingCached, WriteOpen, WriteSend,
       WriteClosed, InitialClosed, RemoveShift, RemoveCount,
       SendPacketTake, SendPacketOk, SendPacketFails, Disconnect
<1> QED BY <1>1, <1>2 DEF Alone

LEMMA InitOrderly == Init => Orderly
<1> SUFFICES ASSUME Init PROVE Orderly
  OBVIOUS
<1>1. {elements[i] : i \in 1 .. size} = Early /\ pc = "idle"
  BY DEF Init
<1> QED BY <1>1 DEF Orderly, OpenListed

LEMMA NextOrderly ==
  ASSUME TypeOK, LoopInv, Orderly, [Next]_vars,
         \A c \in Clients : ~Connect(c) /\ ~Added(c)
  PROVE  Orderly'
<1> USE DEF OpenListed
<1>1. Early \subseteq Clients /\ Nil \notin Clients /\ Leaving \subseteq Clients
  BY NilType, FanoutAssumption DEF Clients
<1>2. /\ size \in Nat /\ idx \in Nat /\ size <= Cardinality(Clients)
      /\ Cardinality(Clients) \in Nat /\ elements \in [Slots -> Clients \cup {Nil}]
  BY CountType DEF TypeOK
<1>3. \A c \in Clients : closed[c] => closed'[c]
  BY ClosedStays
<1>4. ASSUME UNCHANGED <<pc, idx, size, writer, elements, removeSize>>
      PROVE  Orderly'
  <2>1. pc = "remove" => idx \in Slots
    BY <1>2 DEF LoopInv, Orderly, Slots
  <2>2. pc = "remove" => elements[idx] \in Clients \cup {Nil}
    BY <1>2, <2>1
  <2> QED BY <1>1, <1>3, <1>4, <2>2 DEF Orderly
<1>5. CASE UNCHANGED vars
  BY <1>4, <1>5 DEF vars, loopVars, listVars
<1>6. CASE TagComplete
  BY <1>6 DEF TagComplete, listVars, Orderly
<1>7. CASE TagPanics
  BY <1>7 DEF TagPanics, listVars, Orderly
<1>8. CASE VisitWriter
  BY <1>2, <1>8 DEF VisitWriter, Open, listVars, Orderly
<1>9. CASE DropWriter
  <2>1. /\ elements' = elements /\ size' = size /\ closed' = closed
        /\ pc' = IF idx <= size THEN "remove" ELSE "visit"
        /\ idx' = IF idx <= size THEN idx ELSE idx - 1
        /\ idx > 0
    BY <1>9 DEF DropWriter, listVars
  <2>2. idx <= size => elements[idx] = Nil \/ closed[elements[idx]]
    BY <1>2, <1>9, <2>1 DEF DropWriter, Open
  <2> QED BY <2>1, <2>2 DEF Orderly
<1>10. CASE TagDone
  BY <1>10 DEF TagDone, listVars, Orderly
<1>11. CASE NothingCached \/ WriteSend
  <2>1. /\ elements' = elements /\ size' = size /\ closed' = closed /\ writer' = writer
        /\ pc' \in {"visit", "write"} /\ (pc' = "write" => idx' = idx)
        /\ pc \in {"write", "send"}
    BY <1>11 DEF NothingCached, WriteSend, StageDone, listVars
  <2> QED BY <2>1 DEF Orderly
<1>12. CASE WriteOpen
  BY <1>12 DEF WriteOpen, listVars, loopVars, Orderly
<1>13. CASE WriteClosed
  BY <1>13 DEF WriteClosed, listVars, loopVars, Orderly
<1>14. CASE InitialClosed
  BY <1>14 DEF InitialClosed, listVars, loopVars, Orderly
<1>15. CASE RemoveShift
  <2>1. idx \in 1 .. size /\ (elements[idx] # Nil => closed[elements[idx]])
    BY <1>2, <1>15 DEF RemoveShift, LoopInv, Orderly
  <2>2. /\ elements' = [i \in Slots |->
                      IF i \in idx .. size - 1 THEN elements[i + 1]
                      ELSE IF i = idx /\ idx <= size THEN Nil ELSE elements[i]]
        /\ removeSize' = size /\ size' = size /\ closed' = closed /\ pc' = "shrink"
    BY <1>2, <1>15, <2>1 DEF RemoveShift
  <2>3. ASSUME NEW c \in Early, ~closed[c]
        PROVE  \E i \in 1 .. size - 1 : elements'[i] = c
    <3>1. PICK i \in 1 .. size : elements[i] = c
      BY <2>3 DEF Orderly
    <3>2. i # idx
      BY <1>1, <2>1, <2>3, <3>1
    <3>3. CASE i < idx
      <4>1. i \in 1 .. size - 1 /\ i \in Slots /\ i \notin idx .. size - 1
        BY <1>2, <2>1, <3>3 DEF Slots
      <4> QED BY <2>2, <3>1, <3>2, <4>1
    <3>4. CASE i > idx
      <4>1. /\ i - 1 \in 1 .. size - 1 /\ i - 1 \in Slots /\ i - 1 \in idx .. size - 1
            /\ (i - 1) + 1 = i
        BY <1>2, <2>1, <3>4 DEF Slots
      <4>2. elements'[i - 1] = elements[i]
        BY <2>2, <4>1
      <4> QED BY <3>1, <4>1, <4>2
    <3> QED BY <1>2, <2>1, <3>2, <3>3, <3>4
  <2>4. \A i \in 1 .. size - 1 : i \in 1 .. size
    BY <1>2
  <2> QED BY <2>2, <2>3, <2>4 DEF Orderly
<1>16. CASE RemoveCount
  <2>1. pc = "shrink" /\ size' = size - 1 /\ pc' = "visit" /\ elements' = elements
        /\ closed' = closed
    BY <1>16 DEF RemoveCount, Orderly
  <2> QED BY <2>1 DEF Orderly
<1>17. ASSUME NEW c \in Clients, SendPacket(c) \/ Disconnect(c) PROVE Orderly'
  BY <1>4, <1>17 DEF SendPacket, SendPacketTake, SendPacketOk, SendPacketFails,
                     Disconnect, loopVars, listVars
<1> QED BY <1>1, <1>5, <1>6, <1>7, <1>8, <1>9, <1>10, <1>11, <1>12, <1>13, <1>14,
           <1>15, <1>16, <1>17 DEF Next, ExtractFlv

LEMMA OrderlyInvariant == Spec => [](Alone => Orderly)
<1>1. Init => (Alone => Orderly)
  BY InitOrderly
<1>2. TypeOK /\ LoopInv /\ (Alone => Orderly) /\ [Next]_vars => (Alone => Orderly)'
  BY AloneBefore, NextOrderly
<1> QED BY <1>1, <1>2, TypeInvariant, PTL DEF Spec

\* As long as no handler adds a client, the loop removes the writers of failed
\* connections only, whenever a connection fails.
THEOREM OpenWritersAreKept == Spec => []OpenWritersStay
<1>1. (Alone => Orderly) => OpenWritersStay
  BY DEF Orderly, OpenWritersStay
<1> QED BY <1>1, OrderlyInvariant, PTL

-----------------------------------------------------------------------------
(* Calm: nobody leaves, and clients are added one at a time. *)

LEMMA InitCached == Init => HeadersCached
BY InitStream DEF HeadersCached

LEMMA NextCached ==
  TypeOK /\ LoopInv /\ CacheInv /\ HeadersCached /\ [Next]_vars => HeadersCached'
<1> SUFFICES ASSUME TypeOK, LoopInv, CacheInv, HeadersCached, [Next]_vars,
                    NEW c \in Clients, NEW i \in DOMAIN Stream(c)', ~IsTag(c, i)'
             PROVE  kinds'[Number(c, i)'] \in {"videoSeq", "audioSeq"}
  BY DEF HeadersCached
<1>1. kinds' = kinds
  BY KindsStay
<1>2. CASE Stream(c)' = Stream(c)
  BY <1>1, <1>2, SameItems DEF HeadersCached
<1>3. CASE Sent(c)
  <2>1. CASE i \in DOMAIN Stream(c)
    BY <1>1, <1>3, <2>1, SentItems DEF HeadersCached
  <2>2. CASE i \notin DOMAIN Stream(c)
    <3>1. Item[1] # "tag" /\ Number(c, i)' = Item[2] /\ Item # Nil
      BY <1>3, <2>2, SentItems
    <3>2. CASE stage = "video"
      BY <1>1, <3>1, <3>2, ItemParts DEF CacheInv, Newest
    <3>3. CASE stage = "audio"
      BY <1>1, <3>1, <3>3, ItemParts DEF CacheInv, Newest
    <3>4. stage # "tag"
      BY <3>1, ItemParts
    <3> QED BY <3>2, <3>3, <3>4 DEF TypeOK
  <2> QED BY <2>1, <2>2
<1> QED BY <1>2, <1>3, StreamStep

\* A client that left stays away, and a race is remembered.
LEMMA CalmBefore ==
  ASSUME TypeOK, [Next]_vars, Calm'
  PROVE  Calm
<1>1. gone' = gone \/ \E d \in Clients : gone' = [gone EXCEPT ![d] = TRUE]
  BY FanoutAssumption DEF Clients,
       Next, vars, clientVars, ExtractFlv, SendPacket, TagComplete, TagPanics,
       VisitWriter, DropWriter, TagDone, NothingCached, WriteOpen, WriteSend,
       WriteClosed, InitialClosed, RemoveShift, RemoveCount, Connect, Added,
       SendPacketTake, SendPacketOk, SendPacketFails, Disconnect
<1>2. NobodyLeft
  BY <1>1 DEF Calm, NobodyLeft, TypeOK
<1>3. raced => raced'
  BY DEF Next, vars, ExtractFlv, SendPacket, TagComplete, TagPanics,
       VisitWriter, DropWriter, TagDone, NothingCached, WriteOpen, WriteSend,
       WriteClosed, InitialClosed, RemoveShift, RemoveCount, Connect, Added,
       SendPacketTake, SendPacketOk, SendPacketFails, Disconnect
<1> QED BY <1>2, <1>3 DEF Calm

LEMMA InitList == Init => ListInv
<1> SUFFICES ASSUME Init PROVE ListInv
  OBVIOUS
<1>1. TypeOK
  BY InitType
<1>2. Early \subseteq Clients /\ InClients = Early
  BY DEF Init, InClients, Clients
<1>3. {elements[i] : i \in 1 .. size} = Early /\ size = Cardinality(Early)
  BY DEF Init
<1>4. size \in Nat
  BY <1>1 DEF TypeOK
<1>5. \A i, j \in 1 .. size : elements[i] = elements[j] => i = j
  <2> DEFINE f == [i \in 1 .. size |-> elements[i]]
  <2>1. f \in Surjection(1 .. size, Early)
    BY <1>3 DEF Surjection
  <2>2. IsFiniteSet(1 .. size) /\ Cardinality(1 .. size) = size
    BY <1>4, FS_Interval
  <2>3. f \in Injection(1 .. size, Early)
    BY <1>3, <2>1, <2>2, FS_SurjSameCardinalityImpliesInj
  <2>4. \A i, j \in 1 .. size : f[i] = f[j] => i = j
    BY <2>3 DEF Injection, IsInjective
  <2> QED BY <2>4
<1>6. \A c \in Clients : conn[c] # "adding" /\ ~closed[c]
  BY DEF Init
<1>7. idx = 0 /\ pc = "idle"
  BY DEF Init
<1> QED BY <1>2, <1>3, <1>4, <1>5, <1>6, <1>7 DEF ListInv

\* What the loop meets in a calm list.
LEMMA CalmSlots ==
  ASSUME TypeOK, LoopInv, ListInv
  PROVE  /\ size \in Nat /\ idx \in Nat /\ idx <= size
         /\ \A i \in 1 .. size : /\ elements[i] \in InClients
                                 /\ elements[i] \in Clients
                                 /\ elements[i] # Nil
                                 /\ ~closed[elements[i]]
         /\ \A c \in InClients : \E i \in 1 .. size : elements[i] = c
         /\ pc \in {"write", "send"} =>
               /\ idx \in 1 .. size
               /\ writer = elements[idx]
               /\ writer \in InClients /\ writer \in Clients
<1>1. size \in Nat /\ idx \in Nat /\ idx <= size
  BY DEF TypeOK, ListInv
<1>2. InClients \subseteq Clients /\ Nil \notin Clients
  BY NilType DEF InClients
<1>3. \A i \in 1 .. size : elements[i] \in InClients
  BY DEF ListInv
<1>4. \A c \in InClients : \E i \in 1 .. size : elements[i] = c
  BY DEF ListInv
<1>5. \A c \in Clients : ~closed[c]
  BY DEF ListInv
<1>6. pc \in {"write", "send"} => idx \in 1 .. size /\ writer = elements[idx]
  BY <1>1 DEF ListInv, LoopInv
<1> QED BY <1>1, <1>2, <1>3, <1>4, <1>5, <1>6

\* In calm the loop never meets a writer it has to remove.
LEMMA CalmLoop ==
  ASSUME TypeOK, LoopInv, ListInv
  PROVE  /\ ~DropWriter /\ ~WriteClosed /\ ~InitialClosed
         /\ ~RemoveShift /\ ~RemoveCount
<1>1. ~DropWriter
  BY CalmSlots DEF DropWriter, Open
<1>2. ~WriteClosed /\ ~InitialClosed
  BY CalmSlots DEF WriteClosed, InitialClosed
<1>3. ~RemoveShift /\ ~RemoveCount
  BY DEF RemoveShift, RemoveCount, ListInv
<1> QED BY <1>1, <1>2, <1>3

LEMMA NextList ==
  ASSUME TypeOK, LoopInv, ListInv, Calm, [Next]_vars, Calm'
  PROVE  ListInv'
<1>1. size \in Nat /\ idx \in Nat /\ idx <= size
  BY CalmSlots
<1>2. ASSUME UNCHANGED <<elements, size, conn, addSize, closed>>,
             idx' \in Nat, idx' <= size,
             pc' \in {"idle", "panicked"} => idx' = 0,
             pc' \in {"write", "send"} => writer' = elements[idx'],
             pc' \notin {"remove", "shrink"}
      PROVE  ListInv'
  <2>1. InClients' = InClients
    BY <1>2 DEF InClients
  <2> QED BY <1>2, <2>1 DEF ListInv
<1>3. CASE UNCHANGED vars
  BY <1>1, <1>2, <1>3 DEF vars, listVars, handlerVars, loopVars, ListInv
<1>4. CASE TagComplete
  BY <1>1, <1>2, <1>4 DEF TagComplete, listVars, handlerVars
<1>5. CASE TagPanics
  BY <1>1, <1>2, <1>5 DEF TagPanics, listVars, handlerVars, loopVars, ListInv
<1>6. CASE VisitWriter
  BY <1>1, <1>2, <1>6 DEF VisitWriter, listVars, handlerVars
<1>7. CASE TagDone
  BY <1>1, <1>2, <1>7 DEF TagDone, listVars, handlerVars, loopVars
<1>8. CASE NothingCached \/ WriteSend
  <2>1. /\ pc \in {"write", "send"} /\ writer' = writer
        /\ pc' \in {"visit", "write"} /\ (pc' = "write" => idx' = idx)
        /\ idx' \in {idx, idx - 1}
        /\ UNCHANGED <<elements, size, conn, addSize, closed>>
    BY <1>8 DEF NothingCached, WriteSend, StageDone, listVars, handlerVars
  <2>2. idx >= 1 /\ writer = elements[idx]
    BY <2>1, CalmSlots
  <2>3. idx' \in Nat /\ idx' <= size
    BY <1>1, <2>1, <2>2
  <2> QED BY <1>2, <2>1, <2>2, <2>3
<1>9. CASE WriteOpen
  BY <1>1, <1>2, <1>9 DEF WriteOpen, listVars, handlerVars, loopVars, ListInv
<1>10. ASSUME NEW c \in Clients, Connect(c) PROVE ListInv'
  <2>1. /\ conn[c] = "out" /\ conn' = [conn EXCEPT ![c] = "adding"]
        /\ elements' = [elements EXCEPT ![size + 1] = c]
        /\ addSize' = [addSize EXCEPT ![c] = size]
        /\ UNCHANGED <<size, pc, idx, writer, closed>>
        /\ \A d \in Clients : conn[d] # "adding"
    BY <1>10 DEF Connect, loopVars, Calm
  <2>2. InClients' = InClients
    BY <2>1 DEF InClients, TypeOK
  <2>3. size + 1 \in Slots
    <3>1. size < Cardinality(Clients) /\ Cardinality(Clients) \in Nat
      BY <1>1, <2>1, AddedType, CountType DEF LoopInv
    <3> QED BY <1>1, <3>1 DEF Slots
  <2>4. elements'[size + 1] = c /\ \A i \in 1 .. size : elements'[i] = elements[i]
    BY <1>1, <2>1, <2>3 DEF TypeOK
  <2>5. {elements'[i] : i \in 1 .. size} = InClients
        /\ \A i, j \in 1 .. size : elements'[i] = elements'[j] => i = j
    BY <2>4 DEF ListInv
  <2>6. \A d \in Clients : conn'[d] = "adding" => d = c
    BY <2>1 DEF TypeOK
  <2>7. addSize'[c] = size
    BY <2>1 DEF TypeOK
  <2>8. pc \in {"write", "send"} => writer = elements'[idx]
    BY <2>4, CalmSlots
  <2> QED BY <1>1, <2>1, <2>2, <2>4, <2>5, <2>6, <2>7, <2>8 DEF ListInv
<1>11. ASSUME NEW c \in Clients, Added(c) PROVE ListInv'
  <2>1. /\ conn[c] = "adding" /\ conn' = [conn EXCEPT ![c] = "in"]
        /\ addSize[c] = size /\ elements[size + 1] = c /\ size' = size + 1
        /\ UNCHANGED <<elements, addSize, pc, idx, writer, closed>>
    BY <1>11 DEF Added, loopVars, ListInv
  <2>2. InClients' = InClients \cup {c} /\ c \notin InClients
    BY <2>1, AddedCount DEF InClients
  <2>3. 1 .. size + 1 = (1 .. size) \cup {size + 1} /\ size + 1 \notin 1 .. size
    BY <1>1
  <2>4. \A i \in 1 .. size : elements[i] \in InClients
    BY CalmSlots
  <2>5. {elements[i] : i \in 1 .. size + 1} = InClients \cup {c}
    BY <2>1, <2>3 DEF ListInv
  <2>6. \A i, j \in 1 .. size + 1 : elements[i] = elements[j] => i = j
    BY <2>1, <2>2, <2>3, <2>4 DEF ListInv
  <2>7. \A d \in Clients : conn'[d] # "adding"
    BY <2>1 DEF TypeOK, ListInv
  <2> QED BY <1>1, <2>1, <2>2, <2>5, <2>6, <2>7 DEF ListInv
<1>12. ASSUME NEW c \in Clients, SendPacket(c) \/ Disconnect(c) PROVE ListInv'
  <2>1. ~SendPacketFails(c)
    BY DEF SendPacketFails, Calm, NobodyLeft
  <2>2. UNCHANGED <<elements, size, conn, addSize, closed, pc, idx, writer>>
    BY <1>12, <2>1 DEF SendPacket, SendPacketTake, SendPacketOk, Disconnect,
                       listVars, handlerVars, loopVars
  <2> QED BY <1>1, <1>2, <2>2 DEF ListInv
<1>13. Leaving \subseteq Clients
  BY FanoutAssumption DEF Clients
<1> QED BY <1>3, <1>4, <1>5, <1>6, <1>7, <1>8, <1>9, <1>10, <1>11, <1>12, <1>13,
           CalmLoop DEF Next, ExtractFlv

\* A step that neither sends to a client nor moves the loop past it.
LEMMA ClientSame ==
  ASSUME NEW c \in Clients, ClientInv(c),
         Stream(c)' = Stream(c),
         UNCHANGED <<tag, videoSeq, audioSeq, audience>>,
         init'[c] = init[c],
         Serving(c)' <=> Serving(c),
         Serving(c) => stage' = stage,
         Passed(c)' <=> Passed(c),
         c \in InClients => c \in InClients'
  PROVE  ClientInv(c)'
<1>1. /\ EndsWith(c, tag)' <=> EndsWith(c, tag)
      /\ EndsWith(c, tag - 1)' <=> EndsWith(c, tag - 1)
  BY DEF EndsWith
<1>2. /\ HeaderItem(videoSeq)' = HeaderItem(videoSeq)
      /\ HeaderItem(audioSeq)' = HeaderItem(audioSeq)
  BY DEF HeaderItem
<1> QED BY <1>1, <1>2 DEF ClientInv

LEMMA InitClient == Init => \A c \in Clients : ClientInv(c)
<1> SUFFICES ASSUME Init, NEW c \in Clients PROVE ClientInv(c)
  OBVIOUS
<1>1. Stream(c) = <<>> /\ ~init[c] /\ ~Serving(c) /\ c \notin audience
  BY InitStream DEF Init, Serving
<1> QED BY <1>1 DEF ClientInv

\* In calm the loop has not passed the client it is at.
LEMMA AtClient ==
  ASSUME TypeOK, LoopInv, ListInv, idx \in 1 .. size
  PROVE  /\ ~Passed(elements[idx])
         /\ \A c : (\E i \in (idx - 1) + 1 .. size : elements[i] = c) <=>
               (Passed(c) \/ c = elements[idx])
<1>1. size \in Nat /\ idx \in Nat /\ \A i, j \in 1 .. size : elements[i] = elements[j] => i = j
  BY CalmSlots DEF ListInv
<1>2. (idx - 1) + 1 .. size = (idx + 1 .. size) \cup {idx}
  BY <1>1
<1> QED BY <1>1, <1>2 DEF Passed

LEMMA NextClient ==
  ASSUME TypeOK, LoopInv, ListInv, Calm, [Next]_vars, Calm',
         audience \subseteq InClients,
         NEW c \in Clients, ClientInv(c)
  PROVE  ClientInv(c)'
<1>1. size \in Nat /\ idx \in Nat /\ idx <= size /\ tag \in Nat
  BY CalmSlots DEF TypeOK
<1>2. Sent(c) \/ (Stream(c)' = Stream(c) /\ ~(WriteSend /\ writer = c))
  BY StreamStep
<1>3. CASE UNCHANGED <<pc, writer, stage, idx, size, elements, init, conn, tag,
                       videoSeq, audioSeq, audience>>
  <2>1. Stream(c)' = Stream(c)
    BY <1>2, <1>3 DEF Sent, WriteSend, StageDone, TypeOK
  <2>2. (Serving(c)' <=> Serving(c)) /\ (Passed(c)' <=> Passed(c))
        /\ InClients' = InClients
    BY <1>3 DEF Serving, Passed, InClients
  <2> QED BY <1>3, <2>1, <2>2, ClientSame
<1>4. CASE TagComplete
  <2>1. /\ pc = "idle" /\ idx = 0 /\ idx' = size /\ size' = size /\ pc' = "visit"
        /\ tag' = tag + 1 /\ init' = init /\ elements' = elements /\ conn' = conn
    BY <1>4 DEF TagComplete, ListInv, listVars, handlerVars
  <2>2. ~Serving(c) /\ ~Serving(c)' /\ ~Passed(c)' /\ InClients' = InClients
    BY <1>1, <2>1 DEF Serving, Passed, InClients
  <2>3. Stream(c)' = Stream(c)
    BY <1>2, <2>1 DEF Sent, WriteSend
  <2>4. init[c] => EndsWith(c, tag)
    <3>1. c \in InClients => Passed(c)
      BY <1>1, <2>1, CalmSlots DEF Passed
    <3> QED BY <2>2, <3>1 DEF ClientInv
  <2>5. EndsWith(c, tag) => EndsWith(c, tag - 1)'
    <3>1. tag' - 1 = tag
      BY <1>1, <2>1
    <3> QED BY <2>3, <3>1 DEF EndsWith
  <2> QED BY <2>1, <2>2, <2>3, <2>4, <2>5 DEF ClientInv
<1>5. CASE TagPanics
  <2>1. Stream(c)' = Stream(c)
    BY <1>2, <1>5 DEF Sent, WriteSend, TagPanics
  <2>2. ~Serving(c) /\ ~Serving(c)' /\ (Passed(c)' <=> Passed(c))
        /\ InClients' = InClients
    BY <1>5 DEF TagPanics, Serving, Passed, InClients, listVars, loopVars, handlerVars
  <2>3. UNCHANGED <<tag, videoSeq, audioSeq, audience, init>>
    BY <1>5 DEF TagPanics, streamVars
  <2> QED BY <2>1, <2>2, <2>3, ClientSame
<1>6. CASE VisitWriter
  <2>1. /\ pc = "visit" /\ idx \in 1 .. size /\ pc' = "write" /\ writer' = elements[idx]
        /\ stage' = IF init[elements[idx]] THEN "tag" ELSE "video"
        /\ UNCHANGED <<tag, videoSeq, audioSeq, audience, init, idx, size, elements,
                       conn>>
    BY <1>6 DEF VisitWriter, Open, streamVars, listVars, handlerVars
  <2>2. Stream(c)' = Stream(c) /\ ~Serving(c)
    BY <1>2, <2>1 DEF Sent, WriteSend, Serving
  <2>3. (Passed(c)' <=> Passed(c)) /\ InClients' = InClients
    BY <2>1 DEF Passed, InClients
  <2>4. CASE c = elements[idx]
    <3>1. Serving(c)' /\ ~Passed(c)
      BY <2>1, <2>4, AtClient DEF Serving
    <3>2. init[c] => EndsWith(c, tag - 1)'
      <4>1. init[c] => EndsWith(c, tag - 1)
        BY <2>2, <3>1 DEF ClientInv
      <4> QED BY <2>1, <2>2, <4>1 DEF EndsWith
    <3>3. init'[c] = init[c] /\ stage' = IF init[c] THEN "tag" ELSE "video"
      BY <2>1, <2>4
    <3>4. ~init[c] => Stream(c)' = <<>>
      BY <2>2 DEF ClientInv
    <3>5. init[c] => c \in InClients'
      BY <2>3 DEF ClientInv
    <3> QED BY <2>1, <2>3, <3>1, <3>2, <3>3, <3>4, <3>5 DEF ClientInv
  <2>5. CASE c # elements[idx]
    <3>1. ~Serving(c)'
      BY <2>1, <2>5 DEF Serving
    <3> QED BY <2>1, <2>2, <2>3, <3>1, ClientSame
  <2> QED BY <2>4, <2>5
<1>7. CASE TagDone
  <2>1. Stream(c)' = Stream(c)
    BY <1>2, <1>7 DEF Sent, WriteSend, TagDone
  <2>2. ~Serving(c) /\ ~Serving(c)' /\ (Passed(c)' <=> Passed(c))
        /\ InClients' = InClients
    BY <1>7 DEF TagDone, Serving, Passed, InClients, listVars, loopVars, handlerVars
  <2>3. UNCHANGED <<tag, videoSeq, audioSeq, audience, init>>
    BY <1>7 DEF TagDone, streamVars
  <2> QED BY <2>1, <2>2, <2>3, ClientSame
<1>8. CASE WriteOpen
  <2>1. Stream(c)' = Stream(c)
    BY <1>2, <1>8 DEF Sent, WriteSend, WriteOpen
  <2>2. (Serving(c) <=> Serving(c)') /\ (Passed(c)' <=> Passed(c))
        /\ InClients' = InClients
    BY <1>8 DEF WriteOpen, Serving, Passed, InClients, listVars, loopVars, handlerVars
  <2>3. UNCHANGED <<tag, videoSeq, audioSeq, audience, init, stage>>
    BY <1>8 DEF WriteOpen, streamVars, loopVars
  <2> QED BY <2>1, <2>2, <2>3, ClientSame
<1> DEFINE Frame == UNCHANGED <<tag, videoSeq, audioSeq, audience, size, elements, conn,
                                writer>>
<1>9. ASSUME NothingCached \/ WriteSend
      PROVE  /\ pc \in {"write", "send"} /\ idx \in 1 .. size /\ writer = elements[idx]
             /\ writer \in Clients /\ writer \in InClients /\ ~Passed(writer)
             /\ Frame /\ InClients' = InClients
             /\ stage = "video" => stage' = "audio"
             /\ stage = "audio" => stage' = "tag"
             /\ init' = [init EXCEPT ![writer] = stage # "video"]
             /\ stage # "tag" => pc' = "write" /\ idx' = idx
             /\ stage = "tag" => pc' = "visit" /\ idx' = idx - 1
  <2>1. pc \in {"write", "send"} /\ Frame
    BY <1>9 DEF NothingCached, WriteSend, streamVars, listVars, handlerVars
  <2>2. idx \in 1 .. size /\ writer = elements[idx] /\ writer \in Clients
        /\ writer \in InClients
    BY <2>1, CalmSlots
  <2>3. ~Passed(writer)
    BY <2>2, AtClient
  <2>4. /\ stage = "video" => stage' = "audio"
        /\ stage = "audio" => stage' = "tag"
        /\ init' = [init EXCEPT ![writer] = stage # "video"]
        /\ stage # "tag" => pc' = "write" /\ idx' = idx
        /\ stage = "tag" => pc' = "visit" /\ idx' = idx - 1
    BY <1>9 DEF NothingCached, WriteSend, StageDone
  <2>5. InClients' = InClients
    BY <2>1 DEF InClients
  <2> QED BY <2>1, <2>2, <2>3, <2>4, <2>5
<1>10. ASSUME NothingCached \/ WriteSend, c # writer
       PROVE  ClientInv(c)'
  <2>1. Stream(c)' = Stream(c)
    BY <1>2, <1>10 DEF Sent
  <2>2. ~Serving(c) /\ ~Serving(c)'
    BY <1>9, <1>10 DEF Serving
  <2>3. init'[c] = init[c]
    BY <1>9, <1>10 DEF TypeOK
  <2>4. Passed(c)' <=> Passed(c)
    <3>1. CASE stage # "tag"
      BY <1>9, <1>10, <3>1 DEF Passed
    <3>2. CASE stage = "tag"
      BY <1>9, <1>10, <3>2, AtClient DEF Passed
    <3> QED BY <3>1, <3>2
  <2>5. Frame /\ InClients' = InClients
    BY <1>9, <1>10
  <2> QED BY <2>1, <2>2, <2>3, <2>4, <2>5, ClientSame
<1>11. ASSUME NothingCached, c = writer
       PROVE  ClientInv(c)'
  <2>1. Stream(c)' = Stream(c)
    BY <1>2, <1>11 DEF Sent, NothingCached, WriteSend
  <2>2. stage # "tag" /\ (stage = "video" => videoSeq = Nil)
        /\ (stage = "audio" => audioSeq = Nil)
    <3>1. Item = Nil
      BY <1>11 DEF NothingCached
    <3>2. \A h \in Nat : <<"header", h>> # Nil
      <4>1. \A h \in Nat : <<"header", h>> \in {"header", "tag"} \X Nat
        OBVIOUS
      <4> QED BY <4>1, NilType
    <3>3. {videoSeq, audioSeq} \subseteq Nat \cup {Nil}
      BY DEF TypeOK
    <3> QED BY <3>1, <3>2, <3>3, ItemType
  <2>3. Serving(c) /\ Serving(c)' /\ ~Passed(c)' /\ Frame /\ c \in InClients'
    BY <1>9, <1>11, <2>2 DEF Serving, Passed
  <2>4. CASE stage = "video"
    <3>1. stage' = "audio" /\ ~init'[c] /\ Stream(c) = <<>> /\ HeaderItem(videoSeq)' = <<>>
      BY <1>9, <1>11, <2>2, <2>3, <2>4 DEF ClientInv, HeaderItem, TypeOK
    <3> QED BY <2>1, <2>3, <3>1 DEF ClientInv
  <2>5. CASE stage = "audio"
    <3>1. stage' = "tag" /\ init'[c] /\ Stream(c) = HeaderItem(videoSeq)
          /\ HeaderItem(audioSeq)' = <<>> /\ HeaderItem(videoSeq)' = HeaderItem(videoSeq)
      BY <1>9, <1>11, <2>2, <2>3, <2>5 DEF ClientInv, HeaderItem, TypeOK
    <3>2. HeaderItem(videoSeq) \o <<>> = HeaderItem(videoSeq)
      BY <3>1, StreamType, ConcatEmptySeq
    <3> QED BY <2>1, <2>3, <3>1, <3>2 DEF ClientInv
  <2> QED BY <2>2, <2>4, <2>5 DEF TypeOK
<1>12. ASSUME WriteSend, c = writer
       PROVE  ClientInv(c)'
  <2>1. Sent(c)
    BY <1>2, <1>12
  <2>2. Stream(c)' = Append(Stream(c), Item) /\ Item \in Items /\ Item # Nil
    BY <2>1, SentItems DEF Sent
  <2>3. Serving(c) /\ Frame /\ c \in InClients'
    BY <1>9, <1>12 DEF Serving
  <2>4. CASE stage = "video"
    <3>1. Serving(c)' /\ ~Passed(c)' /\ stage' = "audio" /\ ~init'[c]
      BY <1>9, <1>12, <2>4 DEF Serving, Passed, TypeOK
    <3>2. Stream(c) = <<>> /\ Item = <<"header", videoSeq>> /\ videoSeq # Nil
      BY <2>2, <2>3, <2>4, ItemType DEF ClientInv
    <3>3. HeaderItem(videoSeq)' = << <<"header", videoSeq>> >>
      BY <2>3, <3>2 DEF HeaderItem
    <3>4. Append(<<>>, Item) = <<Item>>
      OBVIOUS
    <3> QED BY <2>2, <2>3, <3>1, <3>2, <3>3, <3>4 DEF ClientInv
  <2>5. CASE stage = "audio"
    <3>1. Serving(c)' /\ ~Passed(c)' /\ stage' = "tag" /\ init'[c]
      BY <1>9, <1>12, <2>5 DEF Serving, Passed, TypeOK
    <3>2. Stream(c) = HeaderItem(videoSeq) /\ Item = <<"header", audioSeq>>
          /\ audioSeq # Nil
      BY <2>2, <2>3, <2>5, ItemType DEF ClientInv
    <3>3. HeaderItem(videoSeq)' = HeaderItem(videoSeq) /\ HeaderItem(audioSeq)' = <<Item>>
      BY <2>3, <3>2 DEF HeaderItem
    <3>4. Append(Stream(c), Item) = Stream(c) \o <<Item>>
      BY <2>2, StreamType, AppendIsConcat
    <3> QED BY <2>2, <2>3, <3>1, <3>2, <3>3, <3>4 DEF ClientInv
  <2>6. CASE stage = "tag"
    <3>1. ~Serving(c)' /\ Passed(c)' /\ init'[c]
      <4>1. idx' = idx - 1 /\ size' = size /\ elements' = elements /\ pc' = "visit"
        BY <1>9, <1>12, <2>6
      <4>2. Passed(c)'
        BY <1>9, <1>12, <4>1, AtClient DEF Passed
      <4> QED BY <1>9, <1>12, <2>6, <4>1, <4>2 DEF Serving, TypeOK
    <3>2. Item = <<"tag", tag>>
      BY <2>6, ItemType
    <3>3. EndsWith(c, tag)'
      BY <2>2, <2>3, <3>2, StreamType, AppendProperties DEF EndsWith
    <3> QED BY <2>3, <3>1, <3>3 DEF ClientInv
  <2> QED BY <2>4, <2>5, <2>6 DEF TypeOK
<1>13. ASSUME NEW d \in Clients, Connect(d)
       PROVE  ClientInv(c)'
  <2>1. /\ elements' = [elements EXCEPT ![size + 1] = d]
        /\ conn' = [conn EXCEPT ![d] = "adding"] /\ conn[d] = "out"
        /\ UNCHANGED <<pc, writer, stage, idx, size, init, tag, videoSeq, audioSeq,
                       audience>>
    BY <1>13 DEF Connect, streamVars, loopVars
  <2>2. Stream(c)' = Stream(c)
    BY <1>2, <2>1 DEF Sent, WriteSend, StageDone, TypeOK
  <2>3. InClients' = InClients
    BY <2>1 DEF InClients, TypeOK
  <2>4. \A i \in idx + 1 .. size : elements'[i] = elements[i]
    BY <1>1, <2>1 DEF TypeOK
  <2>5. (Serving(c)' <=> Serving(c)) /\ (Passed(c)' <=> Passed(c))
    BY <2>1, <2>4 DEF Serving, Passed
  <2> QED BY <2>1, <2>2, <2>3, <2>5, ClientSame
<1>14. ASSUME NEW d \in Clients, Added(d)
       PROVE  ClientInv(c)'
  <2>1. /\ conn' = [conn EXCEPT ![d] = "in"] /\ conn[d] = "adding"
        /\ size' = size + 1 /\ elements[size + 1] = d
        /\ UNCHANGED <<pc, writer, stage, idx, elements, init, tag, videoSeq, audioSeq,
                       audience>>
    BY <1>14 DEF Added, streamVars, loopVars, ListInv
  <2>2. Stream(c)' = Stream(c)
    BY <1>2, <2>1 DEF Sent, WriteSend, StageDone, TypeOK
  <2>3. InClients' = InClients \cup {d} /\ d \notin InClients
    BY <2>1, AddedCount DEF InClients
  <2>4. idx + 1 .. size + 1 = (idx + 1 .. size) \cup {size + 1}
    BY <1>1
  <2>5. Serving(c)' <=> Serving(c)
    BY <2>1 DEF Serving
  <2>6. CASE c # d
    <3>1. Passed(c)' <=> Passed(c)
      BY <2>1, <2>4, <2>6 DEF Passed
    <3> QED BY <2>1, <2>2, <2>3, <2>5, <3>1, ClientSame
  <2>7. CASE c = d
    <3>1. ~init[c] /\ c \notin audience
      BY <2>3, <2>7 DEF ClientInv
    <3>2. ~Serving(c)
      BY <2>3, <2>7, CalmSlots DEF Serving
    <3> QED BY <2>1, <2>2, <2>5, <3>1, <3>2 DEF ClientInv
  <2> QED BY <2>6, <2>7
<1>15. ASSUME NEW d \in Clients, SendPacket(d) \/ Disconnect(d)
       PROVE  ClientInv(c)'
  BY <1>3, <1>15 DEF SendPacket, SendPacketTake, SendPacketOk, SendPacketFails,
                     Disconnect, streamVars, loopVars, listVars, handlerVars
<1>16. CASE UNCHANGED vars
  BY <1>3, <1>16 DEF vars, streamVars, loopVars, listVars, handlerVars
<1>17. Leaving \subseteq Clients
  BY FanoutAssumption DEF Clients
<1> QED BY <1>4, <1>5, <1>6, <1>7, <1>8, <1>10, <1>11, <1>12, <1>13, <1>14, <1>15,
           <1>16, <1>17, CalmLoop DEF Next, ExtractFlv

\* Before its first tag a client is sent its headers only.
LEMMA HeadersOnly ==
  ASSUME TypeOK, NEW c \in Clients,
         Stream(c) \in {<<>>, HeaderItem(videoSeq),
                        HeaderItem(videoSeq) \o HeaderItem(audioSeq)}
  PROVE  \A i \in DOMAIN Stream(c) : ~IsTag(c, i)
<1>1. /\ HeaderItem(videoSeq) \in {<<>>, << <<"header", videoSeq>> >>}
      /\ HeaderItem(audioSeq) \in {<<>>, << <<"header", audioSeq>> >>}
  BY DEF HeaderItem
<1>2. Stream(c) \in {<<>>, << <<"header", videoSeq>> >>, << <<"header", audioSeq>> >>,
                     << <<"header", videoSeq>>, <<"header", audioSeq>> >>}
  BY <1>1
<1> QED BY <1>2 DEF IsTag

\* Both headers in the cache are among those sent.
LEMMA HeadersSent ==
  ASSUME TypeOK, NEW c \in Clients,
         Stream(c) = HeaderItem(videoSeq) \o HeaderItem(audioSeq)
  PROVE  /\ videoSeq # Nil => \E j \in DOMAIN Stream(c) : Number(c, j) = videoSeq
         /\ audioSeq # Nil => \E j \in DOMAIN Stream(c) : Number(c, j) = audioSeq
<1>1. CASE videoSeq = Nil /\ audioSeq = Nil
  BY <1>1
<1>2. CASE videoSeq # Nil /\ audioSeq = Nil
  <2>1. Stream(c) = << <<"header", videoSeq>> >>
    BY <1>2 DEF HeaderItem
  <2>2. 1 \in DOMAIN Stream(c) /\ Number(c, 1) = videoSeq
    BY <2>1 DEF Number
  <2> QED BY <1>2, <2>2
<1>3. CASE videoSeq = Nil /\ audioSeq # Nil
  <2>1. Stream(c) = << <<"header", audioSeq>> >>
    BY <1>3 DEF HeaderItem
  <2>2. 1 \in DOMAIN Stream(c) /\ Number(c, 1) = audioSeq
    BY <2>1 DEF Number
  <2> QED BY <1>3, <2>2
<1>4. CASE videoSeq # Nil /\ audioSeq # Nil
  <2> DEFINE v == <<"header", videoSeq>>
             a == <<"header", audioSeq>>
  <2>1. Stream(c) = <<v>> \o <<a>>
    BY <1>4 DEF HeaderItem
  <2>2. Len(Stream(c)) = 2 /\ Stream(c)[1] = v /\ Stream(c)[2] = a
    <3> HIDE DEF v, a
    <3>1. <<v>> \in Seq({v, a}) /\ <<a>> \in Seq({v, a}) /\ Len(<<v>>) = 1
          /\ Len(<<a>>) = 1 /\ <<v>>[1] = v /\ <<a>>[1] = a
      OBVIOUS
    <3> QED BY <2>1, <3>1, ConcatProperties
  <2>3. 1 \in DOMAIN Stream(c) /\ 2 \in DOMAIN Stream(c)
    BY <2>2, StreamType
  <2>4. v[2] = videoSeq /\ a[2] = audioSeq
    OBVIOUS
  <2>5. Number(c, 1) = videoSeq /\ Number(c, 2) = audioSeq
    BY <2>2, <2>4 DEF Number
  <2> QED BY <2>3, <2>5
<1> QED BY <1>1, <1>2, <1>3, <1>4

LEMMA InitOrder == Init => \A c \in Clients : OrderInv(c)
BY InitStream DEF OrderInv

LEMMA NextOrder ==
  ASSUME TypeOK, LoopInv, CacheInv, [Next]_vars, NEW c \in Clients,
         ClientInv(c), OrderInv(c)
  PROVE  OrderInv(c)'
<1>1. kinds' = kinds
  BY KindsStay
<1>2. CASE Stream(c)' = Stream(c)
  <2>1. \A i : (IsTag(c, i)' <=> IsTag(c, i)) /\ Number(c, i)' = Number(c, i)
    BY <1>2, SameItems
  <2> QED BY <1>1, <1>2, <2>1 DEF OrderInv
<1>3. CASE Sent(c)
  <2> DEFINE L == Len(Stream(c))
  <2>1. /\ L \in Nat /\ DOMAIN Stream(c) = 1 .. L /\ DOMAIN Stream(c)' = 1 .. L + 1
        /\ Item # Nil
    BY <1>3, SentItems
  <2>2. \A i \in 1 .. L : (IsTag(c, i)' <=> IsTag(c, i)) /\ Number(c, i)' = Number(c, i)
    BY <1>3, <2>1, SentItems
  <2>3. \A i : i = L + 1 => (IsTag(c, i)' <=> Item[1] = "tag") /\ Number(c, i)' = Item[2]
    BY <1>3, <2>1, SentItems
  <2>4. Serving(c) /\ tag \in Nat /\ stage \in {"video", "audio", "tag"}
    BY <1>3 DEF Sent, WriteSend, Serving, TypeOK
  <2>5. \A i \in 1 .. L : Number(c, i) \in Nat
    BY <2>1, StreamType
  <2> HIDE DEF L
  <2>6. CASE stage # "tag"
    <3>1. \A i \in DOMAIN Stream(c) : ~IsTag(c, i)
      BY <2>4, <2>6, HeadersOnly DEF ClientInv
    <3>2. Item[1] # "tag"
      BY <2>1, <2>6, ItemParts
    <3>3. \A i \in DOMAIN Stream(c)' : ~IsTag(c, i)'
      BY <2>1, <2>2, <2>3, <3>1, <3>2
    <3> QED BY <3>3 DEF OrderInv
  <2>7. CASE stage = "tag"
    <3>1. Item[1] = "tag" /\ Item[2] = tag
      BY <2>1, <2>7, ItemParts
    <3>2. CASE Stream(c) = HeaderItem(videoSeq) \o HeaderItem(audioSeq)
      <4>1. \A i \in DOMAIN Stream(c) : ~IsTag(c, i)
        BY <3>2, HeadersOnly
      <4>2. \A i \in DOMAIN Stream(c)' : IsTag(c, i)' => i = L + 1 /\ Number(c, i)' = tag
        BY <2>1, <2>2, <2>3, <3>1, <4>1
      <4>3. ASSUME NEW kind \in {"videoSeq", "audioSeq"},
                   \E h \in 1 .. tag - 1 : kinds[h] = kind
            PROVE  \E j \in 1 .. L : kinds[Number(c, j)'] = kind
        <5>1. CASE kind = "videoSeq"
          <6>1. videoSeq # Nil /\ kinds[videoSeq] = "videoSeq"
            BY <2>4, <4>3, <5>1 DEF CacheInv, Newest
          <6>2. PICK j \in 1 .. L : Number(c, j) = videoSeq
            BY <2>1, <3>2, <6>1, HeadersSent
          <6> QED BY <2>2, <5>1, <6>1, <6>2
        <5>2. CASE kind = "audioSeq"
          <6>1. audioSeq # Nil /\ kinds[audioSeq] = "audioSeq"
            BY <2>4, <4>3, <5>2 DEF CacheInv, Newest
          <6>2. PICK j \in 1 .. L : Number(c, j) = audioSeq
            BY <2>1, <3>2, <6>1, HeadersSent
          <6> QED BY <2>2, <5>2, <6>1, <6>2
        <5> QED BY <4>3, <5>1, <5>2
      <4>4. SUFFICES ASSUME NEW i \in DOMAIN Stream(c)', IsTag(c, i)'
                     PROVE  /\ \A j \in DOMAIN Stream(c)' : i < j =>
                                  IsTag(c, j)' /\ Number(c, j)' - Number(c, i)' = j - i
                            /\ \A kind \in {"videoSeq", "audioSeq"} :
                                  (\E h \in 1 .. Number(c, i)' - 1 : kinds'[h] = kind) =>
                                     \E j \in 1 .. i - 1 : kinds'[Number(c, j)'] = kind
        BY DEF OrderInv
      <4>5. i = L + 1 /\ Number(c, i)' = tag /\ i - 1 = L
        BY <2>1, <4>2, <4>4
      <4>6. \A j \in DOMAIN Stream(c)' : ~(i < j)
        BY <2>1, <4>5
      <4> QED BY <1>1, <4>3, <4>5, <4>6
    <3>3. CASE EndsWith(c, tag - 1)
      <4>1. L \in 1 .. L /\ IsTag(c, L) /\ Number(c, L) = tag - 1
        <5>1. Stream(c) # <<>> /\ Stream(c)[L] = <<"tag", tag - 1>>
          BY <3>3 DEF EndsWith, L
        <5>2. L # 0
          BY <5>1, StreamType, EmptySeq DEF L
        <5> QED BY <2>1, <5>1, <5>2 DEF IsTag, Number
      <4>2. \A i \in 1 .. L : IsTag(c, i) =>
                /\ \A j \in 1 .. L :
                      i < j => IsTag(c, j) /\ Number(c, j) - Number(c, i) = j - i
                /\ \A kind \in {"videoSeq", "audioSeq"} :
                      (\E h \in 1 .. Number(c, i) - 1 : kinds[h] = kind) =>
                          \E j \in 1 .. i - 1 : kinds[Number(c, j)] = kind
        BY <2>1 DEF OrderInv
      <4>3. SUFFICES ASSUME NEW i \in DOMAIN Stream(c)', IsTag(c, i)'
                     PROVE  /\ \A j \in DOMAIN Stream(c)' : i < j =>
                                  IsTag(c, j)' /\ Number(c, j)' - Number(c, i)' = j - i
                            /\ \A kind \in {"videoSeq", "audioSeq"} :
                                  (\E h \in 1 .. Number(c, i)' - 1 : kinds'[h] = kind) =>
                                     \E j \in 1 .. i - 1 : kinds'[Number(c, j)'] = kind
        BY DEF OrderInv
      <4>4. CASE i \in 1 .. L
        <5>1. IsTag(c, i) /\ Number(c, i)' = Number(c, i) /\ Number(c, i) \in Nat
          BY <2>2, <2>5, <4>3, <4>4
        <5>2. Number(c, L) - Number(c, i) = L - i
          BY <2>1, <4>1, <4>2, <4>4, <5>1
        <5>3. ASSUME NEW j \in 1 .. L + 1, i < j
              PROVE  IsTag(c, j)' /\ Number(c, j)' - Number(c, i)' = j - i
          <6>1. CASE j \in 1 .. L
            BY <2>2, <4>2, <4>4, <5>1, <5>3, <6>1
          <6>2. CASE j \notin 1 .. L
            <7>1. j = L + 1 /\ IsTag(c, j)' /\ Number(c, j)' = tag
              BY <2>1, <2>3, <3>1, <5>3, <6>2
            <7> QED BY <2>1, <2>4, <4>1, <4>4, <5>1, <5>2, <7>1
          <6> QED BY <6>1, <6>2
        <5>4. \A j \in 1 .. i - 1 : Number(c, j)' = Number(c, j)
          BY <2>1, <2>2, <4>4
        <5> QED BY <1>1, <2>1, <4>2, <4>4, <5>1, <5>3, <5>4
      <4>5. CASE i \notin 1 .. L
        <5>1. i = L + 1 /\ Number(c, i)' = tag
          BY <2>1, <2>3, <3>1, <4>3, <4>5
        <5>2. ASSUME NEW kind \in {"videoSeq", "audioSeq"},
                     NEW h \in 1 .. tag - 1, kinds[h] = kind
              PROVE  \E j \in 1 .. L : kinds[Number(c, j)'] = kind
          <6>1. CASE h = tag - 1
            BY <2>2, <4>1, <5>2, <6>1
          <6>2. CASE h # tag - 1
            <7>1. h \in 1 .. Number(c, L) - 1
              BY <2>4, <4>1, <6>2
            <7>2. PICK j \in 1 .. L - 1 : kinds[Number(c, j)] = kind
              BY <4>1, <4>2, <5>2, <7>1
            <7>3. j \in 1 .. L
              BY <2>1
            <7> QED BY <2>2, <7>2, <7>3
          <6> QED BY <6>1, <6>2
        <5>3. \A j \in DOMAIN Stream(c)' : ~(i < j)
          BY <2>1, <5>1
        <5>4. i - 1 = L
          BY <2>1, <5>1
        <5> QED BY <1>1, <5>1, <5>2, <5>3, <5>4
      <4> QED BY <4>4, <4>5
    <3> QED BY <2>4, <2>7, <3>2, <3>3 DEF ClientInv
  <2> QED BY <2>6, <2>7
<1> QED BY <1>2, <1>3, StreamStep

LEMMA InitCalm == Init => CalmInv
<1> SUFFICES ASSUME Init PROVE CalmInv
  OBVIOUS
<1>1. audience = {} /\ recorded = tag
  BY DEF Init
<1> QED BY <1>1, InitList, InitClient, InitOrder DEF CalmInv

LEMMA NextCalm ==
  TypeOK /\ LoopInv /\ CacheInv /\ CalmInv /\ [Next]_vars => CalmInv'
<1> SUFFICES ASSUME TypeOK, LoopInv, CacheInv, CalmInv, [Next]_vars, Calm'
             PROVE  /\ ListInv'
                    /\ (audience \subseteq InClients)'
                    /\ \A c \in Clients : ClientInv(c)' /\ OrderInv(c)'
                    /\ pc' = "idle" => recorded' = tag'
  BY DEF CalmInv
<1>1. Calm
  BY CalmBefore
<1>2. /\ ListInv /\ audience \subseteq InClients
      /\ \A c \in Clients : ClientInv(c) /\ OrderInv(c)
      /\ pc = "idle" => recorded = tag
  BY <1>1 DEF CalmInv
<1>3. ListInv'
  BY <1>1, <1>2, NextList
<1>4. \A c \in Clients : ClientInv(c)' /\ OrderInv(c)'
  BY <1>1, <1>2, NextClient, NextOrder
<1>5. audience' \subseteq InClients'
  <2>1. InClients \subseteq InClients'
    <3>1. conn' = conn \/ \E d \in Clients : \/ Connect(d)
                                             \/ conn' = [conn EXCEPT ![d] = "in"]
      BY DEF Next, vars, handlerVars, ExtractFlv, SendPacket, TagComplete, TagPanics,
         VisitWriter, DropWriter, TagDone, NothingCached, WriteOpen, WriteSend,
         WriteClosed, InitialClosed, RemoveShift, RemoveCount, Added,
         SendPacketTake, SendPacketOk, SendPacketFails, Disconnect
    <3> QED BY <3>1 DEF InClients, Connect, TypeOK
  <2>2. audience' = audience \/ audience' = InClients
    BY DEF Next, vars, ExtractFlv, SendPacket, TagComplete, TagPanics,
         VisitWriter, DropWriter, TagDone, NothingCached, WriteOpen, WriteSend,
         WriteClosed, InitialClosed, RemoveShift, RemoveCount, Connect, Added,
         SendPacketTake, SendPacketOk, SendPacketFails, Disconnect, InClients
  <2> QED BY <1>2, <2>1, <2>2
<1>6. pc' = "idle" => recorded' = tag'
  <2>1. ~DropWriter /\ ~WriteClosed /\ ~InitialClosed /\ ~RemoveShift /\ ~RemoveCount
    BY <1>2, CalmLoop
  <2> QED BY <1>2, <2>1 DEF Next, vars, streamVars, ExtractFlv, SendPacket, TagComplete,
         TagPanics, VisitWriter, TagDone, NothingCached, WriteOpen, WriteSend,
         StageDone, Connect, Added, SendPacketTake, SendPacketOk, SendPacketFails,
         Disconnect
<1> QED BY <1>3, <1>4, <1>5, <1>6

LEMMA CalmInvariant == Spec => [](CalmInv /\ HeadersCached)
<1>1. Init => CalmInv /\ HeadersCached
  BY InitCalm, InitCached
<1>2. TypeOK /\ LoopInv /\ CacheInv /\ HeaderInv /\ CalmInv /\ HeadersCached
        /\ [Next]_vars => CalmInv' /\ HeadersCached'
  BY NextCalm, NextCached
<1> QED BY <1>1, <1>2, TypeInvariant, HeaderInvariant, PTL DEF Spec

\* In calm a client misses no tag and gets none twice from its first one on,
\* however its own Add falls between the steps of the loop.
THEOREM NoTagIsMissed == Spec => []Contiguous
<1>1. CalmInv /\ HeadersCached => Contiguous
  BY DEF CalmInv, OrderInv, Contiguous
<1> QED BY <1>1, CalmInvariant, PTL

\* In calm no client is sent a media tag before the headers that came before it.
THEOREM HeadersComeFirst == Spec => []HeadersFirst
<1>1. CalmInv /\ HeadersCached => HeadersFirst
  BY DEF CalmInv, OrderInv, HeadersCached, HeadersFirst
<1> QED BY <1>1, CalmInvariant, PTL

\* In calm every tag that is done has gone to every client that was there when it
\* came, to HLS and to the record file.
THEOREM EveryClientIsServed == Spec => []AllServedWhileUp
<1>1. TypeOK /\ LoopInv /\ CalmInv /\ HeadersCached => AllServedWhileUp
  <2> SUFFICES ASSUME TypeOK, LoopInv, CalmInv, Calm, pc = "idle", tag > 0
               PROVE  /\ \A c \in audience : \E i \in DOMAIN Stream(c) :
                            Stream(c)[i] = <<"tag", tag>>
                      /\ recorded = tag
    BY DEF AllServedWhileUp, SentToAllClients
  <2>1. /\ ListInv /\ audience \subseteq InClients /\ recorded = tag
        /\ \A c \in Clients : ClientInv(c)
    BY DEF CalmInv
  <2>2. ASSUME NEW c \in audience
        PROVE  \E i \in DOMAIN Stream(c) : Stream(c)[i] = <<"tag", tag>>
    <3>1. c \in InClients /\ c \in Clients
      BY <2>1, <2>2 DEF InClients
    <3>2. Passed(c)
      <4>1. idx = 0
        BY <2>1 DEF ListInv
      <4> QED BY <2>1, <3>1, <4>1, CalmSlots DEF Passed
    <3>3. EndsWith(c, tag)
      BY <2>1, <2>2, <3>1, <3>2 DEF ClientInv, Serving
    <3>4. Len(Stream(c)) \in DOMAIN Stream(c)
      BY <3>1, <3>3, StreamType, EmptySeq DEF EndsWith
    <3> QED BY <3>3, <3>4 DEF EndsWith
  <2> QED BY <2>1, <2>2
<1> QED BY <1>1, TypeInvariant, CalmInvariant, PTL

=============================================================================
