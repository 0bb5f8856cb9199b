---------------------------- MODULE BookFeedProofs ----------------------------
(***************************************************************************)
(* Theorems about BookFeed for every depth, price set, number of epochs    *)
(* and of updates: the type invariant, and that what the handler is given  *)
(* is the exchange's book, never moving back in time.                      *)
(***************************************************************************)
EXTENDS BookFeed, FiniteSetTheorems, SequenceTheorems, TLAPS

-------------------------------------------------------------------------------
(* Lemmas about books. *)

LEMMA EmptyBookIsBook == EmptyBook \in Book
  BY BookAssumption DEF EmptyBook, Book

LEMMA KeepBestIsBook ==
  ASSUME NEW b \in Book, NEW n
  PROVE  KeepBest(b, n) \in Book
  BY BookAssumption DEF KeepBest, Book

LEMMA OverrideIsBook ==
  ASSUME NEW b \in Book, NEW rows \in Rows
  PROVE  Override(b, rows) \in Book
  BY DEF Override, Book, Rows

LEMMA BookIsRows == Book \subseteq Rows
  BY DEF Book, Rows

LEMMA DiffIsRows ==
  ASSUME NEW a \in Book, NEW b \in Book
  PROVE  Diff(a, b) \in Rows
  <1> DEFINE D == {m \in Key : a[m] # b[m]}
  <1>1. Diff(a, b) = [k \in D |-> b[k]]
    BY DEF Diff
  <1>2. [k \in D |-> b[k]] \in [D -> Size]
    BY DEF Book
  <1>3. D \in SUBSET Key
    OBVIOUS
  <1> QED
    BY <1>1, <1>2, <1>3 DEF Rows

\* A whole book read as rows is that book.
LEMMA FromRowsOfBook ==
  ASSUME NEW b \in Book
  PROVE  FromRows(b) = b
  BY DEF FromRows, Override, Book

\* Rows made from the difference of two books turn one into the other.
LEMMA OverrideDiff ==
  ASSUME NEW a \in Book, NEW b \in Book
  PROVE  Override(a, Diff(a, b)) = b
  <1>1. \A k \in Key : Override(a, Diff(a, b))[k] = b[k]
    BY DEF Override, Diff
  <1> QED
    BY <1>1 DEF Override, Book

LEMMA KeyIsFinite == IsFiniteSet(Key)
  <1>1. IsFiniteSet({"bid"}) /\ IsFiniteSet({"ask"})
    BY FS_Singleton
  <1>2. IsFiniteSet({"bid"} \union {"ask"})
    BY <1>1, FS_Union
  <1>3. IsFiniteSet(Side)
    <2>1. Side \in SUBSET ({"bid"} \union {"ask"})
      BY BookAssumption
    <2> QED
      BY <1>2, <2>1, FS_Subset
  <1>4. IsFiniteSet(Side \X Price)
    BY <1>3, FS_Product, BookAssumption
  <1> QED
    BY <1>4 DEF Key

\* Trimming a book that is no deeper than the limit changes nothing.
LEMMA KeepBestOfShallowBook ==
  ASSUME NEW b \in Book, NEW n \in Nat, NEW m \in Nat, n <= m, DepthAtMost(b, n)
  PROVE  KeepBest(b, m) = b
  <1>1. ASSUME NEW k \in Key, b[k] # 0
        PROVE  Cardinality(Ahead(b, k)) < m
    <2> DEFINE S == {l \in Key : l[1] = k[1] /\ b[l] # 0}
    <2>1. k[1] \in Side
      BY DEF Key
    <2>2. Cardinality(S) <= n
      BY <2>1 DEF DepthAtMost
    <2>3. IsFiniteSet(S)
      BY KeyIsFinite, FS_Subset, S \in SUBSET Key
    <2>4. Ahead(b, k) \in SUBSET (S \ {k})
      <3>1. k[2] \in Int
        BY BookAssumption DEF Key
      <3>2. ~Better(k, k)
        BY <3>1 DEF Better
      <3>3. \A l \in Ahead(b, k) : l \in S /\ l # k
        BY <3>2 DEF Ahead, Better
      <3> QED
        BY <3>3
    <2>5. IsFiniteSet(S \ {k}) /\ Cardinality(S \ {k}) = Cardinality(S) - 1
      BY <1>1, <2>3, FS_RemoveElement, k \in S
    <2>6. Cardinality(Ahead(b, k)) <= Cardinality(S \ {k}) /\ IsFiniteSet(Ahead(b, k))
      BY <2>4, <2>5, FS_Subset
    <2>7. Cardinality(S) \in Nat /\ Cardinality(Ahead(b, k)) \in Nat
      BY <2>3, <2>6, FS_CardinalityType
    <2> QED
      BY <2>2, <2>5, <2>6, <2>7
  <1>2. \A k \in Key : KeepBest(b, m)[k] = b[k]
    BY <1>1 DEF KeepBest
  <1> QED
    BY <1>2 DEF KeepBest, Book

LEMMA EmptyBookIsView == EmptyBook \in View
  <1>1. \A sd \in Side : {k \in Key : k[1] = sd /\ EmptyBook[k] # 0} = {}
    BY DEF EmptyBook
  <1>2. DepthAtMost(EmptyBook, WireDepth)
    BY <1>1, FS_EmptySet, FeedAssumption DEF DepthAtMost
  <1> QED
    BY <1>2, EmptyBookIsBook DEF View

LEMMA ViewIsBook == View \subseteq Book
  BY DEF View

-------------------------------------------------------------------------------
(* Type correctness. *)

LEMMA SnapshotIsFrame ==
  ASSUME NEW v \in Version, NEW b \in Book
  PROVE  SnapshotOf(v, b) \in Frame
  BY BookIsRows DEF SnapshotOf, Frame

LEMMA DeltaIsFrame ==
  ASSUME NEW v \in Version, NEW a \in Book, NEW b \in Book
  PROVE  DeltaTo(v, a, b) \in Frame
  BY DiffIsRows DEF DeltaTo, Frame

\* Versions name the updates of the epochs.
LEMMA VersionParts ==
  ASSUME NEW v \in Version
  PROVE  /\ v[1] \in 1 .. Epochs
         /\ v[2] \in 1 .. LastUpdateId
         /\ v = <<v[1], v[2]>>
  BY DEF Version

LEMMA NextUpdateIsVersion ==
  ASSUME NEW v \in Version, v[2] < LastUpdateId
  PROVE  <<v[1], v[2] + 1>> \in Version
  BY FeedAssumption, VersionParts DEF Version

LEMMA NextEpochIsVersion ==
  ASSUME NEW v \in Version, v[1] < Epochs
  PROVE  <<v[1] + 1, 1>> \in Version
  BY FeedAssumption, VersionParts DEF Version

LEMMA CurrentSnapshotIsFrame == TypeOK => CurrentSnapshot \in Frame
  BY SnapshotIsFrame, ViewIsBook DEF TypeOK, CurrentSnapshot

LEMMA DisplayIsBook ==
  ASSUME NEW b \in Book
  PROVE  Display(b) \in Book
  BY KeepBestIsBook DEF Display

\* A frame more on the wire.
LEMMA AppendKeepsFrames ==
  ASSUME NEW w \in Seq(Frame), NEW f \in Frame
  PROVE  Append(w, f) \in Seq(Frame)
  OBVIOUS

\* What the exchange does to the types: a new version, its book, perhaps a frame.
LEMMA TypeExchange ==
  TypeOK /\ (ExchangeUpdate \/ ServiceRestart \/ PushSnapshot) => TypeOK'
  <1> SUFFICES ASSUME TypeOK, ExchangeUpdate \/ ServiceRestart \/ PushSnapshot
               PROVE  TypeOK'
    OBVIOUS
  <1> USE DEF TypeOK, EngineTypeOK, engineVars
  <1>1. CASE ExchangeUpdate
    <2> DEFINE next == <<version[1], version[2] + 1>>
    <2>1. PICK b \in View :
            /\ version' = next
            /\ history' = [history EXCEPT ![next] = b]
            /\ \/ wire' = Append(wire, DeltaTo(next, history[version], b))
               \/ UNCHANGED wire
      BY <1>1 DEF ExchangeUpdate
    <2>2. next \in Version
      BY <1>1, NextUpdateIsVersion DEF ExchangeUpdate
    <2>3. DeltaTo(next, history[version], b) \in Frame
      BY <2>2, DeltaIsFrame, ViewIsBook
    <2>4. wire' \in Seq(Frame)
      <3>1. Append(wire, DeltaTo(next, history[version], b)) \in Seq(Frame)
        BY <2>3, AppendKeepsFrames
      <3> HIDE DEF next
      <3> QED
        BY <2>1, <3>1, Zenon
    <2> QED
      BY <1>1, <2>1, <2>2, <2>4 DEF ExchangeUpdate
  <1>2. CASE ServiceRestart
    <2> DEFINE next == <<version[1] + 1, 1>>
    <2>1. PICK b \in View :
            /\ version' = next
            /\ history' = [history EXCEPT ![next] = b]
            /\ \/ \E f \in {SnapshotOf(next, b), DeltaTo(next, history[version], b)} :
                     wire' = Append(wire, f)
               \/ UNCHANGED wire
      BY <1>2 DEF ServiceRestart
    <2>2. next \in Version
      BY <1>2, NextEpochIsVersion DEF ServiceRestart
    <2>3. /\ DeltaTo(next, history[version], b) \in Frame
          /\ SnapshotOf(next, b) \in Frame
      BY <2>2, DeltaIsFrame, SnapshotIsFrame, ViewIsBook
    <2>4. wire' \in Seq(Frame)
      <3>1. \A f \in Frame : Append(wire, f) \in Seq(Frame)
        BY AppendKeepsFrames
      <3> HIDE DEF next
      <3> QED
        BY <2>1, <2>3, <3>1
    <2> QED
      BY <1>2, <2>1, <2>2, <2>4 DEF ServiceRestart
  <1>3. CASE PushSnapshot
    BY <1>3, CurrentSnapshotIsFrame DEF PushSnapshot
  <1> QED
    BY <1>1, <1>2, <1>3

LEMMA TypeConnection ==
  TypeOK /\ (Connect \/ Disconnect \/ Watch \/ Unsubscribe) => TypeOK'
  <1> SUFFICES ASSUME TypeOK, Connect \/ Disconnect \/ Watch \/ Unsubscribe
               PROVE  TypeOK'
    OBVIOUS
  <1> USE DEF TypeOK, EngineTypeOK, engineVars
  <1>0. /\ Append(wire, CurrentSnapshot) \in Seq(Frame)
        /\ <<>> \in Seq(Frame)
        /\ 0 \in 0 .. Epochs
    BY CurrentSnapshotIsFrame, FeedAssumption
  <1>1. CASE Connect
    <2>1. wire' \in Seq(Frame)
      BY <1>0, <1>1 DEF Connect
    <2>2. /\ levels' \in Book /\ lastU' \in Nat
          /\ epoch' \in 0 .. Epochs
      BY <1>0, <1>1 DEF Connect, MarkResynced
    <2>3. /\ primed' \in BOOLEAN /\ dirty' \in BOOLEAN
          /\ up' \in BOOLEAN /\ serverSub' \in BOOLEAN
      BY <1>1, Zenon DEF Connect, MarkResynced
    <2> QED
      BY <1>1, <2>1, <2>2, <2>3 DEF Connect
  <1>2. CASE Disconnect
    BY <1>0, <1>2 DEF Disconnect
  <1>3. CASE Watch
    <2>1. wire' \in Seq(Frame) /\ serverSub' \in BOOLEAN
      BY <1>0, <1>3 DEF Watch
    <2>2. /\ levels' \in Book /\ lastU' \in Nat
          /\ epoch' \in 0 .. Epochs
      BY <1>0, <1>3, EmptyBookIsBook DEF Watch
    <2>3. delivered' \in [version : Version \union {<<0, 0>>}, view : Book]
      BY <1>3, EmptyBookIsBook DEF Watch, NothingDelivered
    <2>4. primed' \in BOOLEAN /\ dirty' \in BOOLEAN /\ watching' \in BOOLEAN
      BY <1>3, Zenon DEF Watch
    <2> QED
      BY <1>3, <2>1, <2>2, <2>3, <2>4 DEF Watch
  <1>4. CASE Unsubscribe
    BY <1>4 DEF Unsubscribe
  <1> QED
    BY <1>1, <1>2, <1>3, <1>4

\* A frame at the head of the wire is a frame, and the rest still is a wire.
LEMMA HeadAndTail ==
  ASSUME TypeOK, wire # <<>>
  PROVE  /\ Len(wire) \in Nat \ {0}
         /\ HeadFrame \in Frame
         /\ HeadFrame = wire[1]
         /\ Tail(wire) \in Seq(Frame)
         /\ Len(Tail(wire)) = Len(wire) - 1
         /\ \A i \in 1 .. Len(Tail(wire)) : Tail(wire)[i] = wire[i + 1]
  <1>1. wire \in Seq(Frame)
    BY DEF TypeOK
  <1> QED
    BY <1>1, HeadTailProperties, EmptySeq, LenProperties DEF HeadFrame

LEMMA TypeRead == TypeOK /\ (ReadFrame \/ LoseFrame) => TypeOK'
  <1> SUFFICES ASSUME TypeOK, ReadFrame \/ LoseFrame
               PROVE  TypeOK'
    OBVIOUS
  <1> USE DEF TypeOK, EngineTypeOK, engineVars
  <1>1. /\ wire # <<>>
        /\ HeadFrame.version \in Version
        /\ HeadFrame.rows \in Rows
        /\ wire' \in Seq(Frame)
    BY HeadAndTail DEF ReadFrame, LoseFrame, Frame
  <1>2. HeadFrame.version[1] \in 0 .. Epochs /\ HeadFrame.version[2] \in Nat
    BY <1>1, VersionParts, FeedAssumption
  <1>3. CASE ReadFrame
    <2>1. CASE ReadSnapshot
      <3>1. levels' \in Book
        BY <1>1, <2>1, EmptyBookIsBook, OverrideIsBook, KeepBestIsBook
           DEF ReadSnapshot, ApplySnapshot, FromRows
      <3>2. Display(levels') \in Book
        BY <3>1, DisplayIsBook
      <3>3. delivered' \in [version : Version \union {<<0, 0>>}, view : Book]
        BY <1>1, <2>1, <3>2 DEF ReadSnapshot, DeliverIfClean
      <3>4. lastU' \in Nat /\ epoch' \in 0 .. Epochs
        BY <1>2, <2>1 DEF ReadSnapshot, ApplySnapshot
      <3>5. primed' \in BOOLEAN /\ dirty' \in BOOLEAN
        BY <2>1, Zenon DEF ReadSnapshot, ApplySnapshot
      <3> QED
        BY <1>1, <1>3, <3>1, <3>3, <3>4, <3>5 DEF ReadFrame
    <2>2. CASE ReadDelta
      <3>1. levels' \in Book
        BY <1>1, <2>2, OverrideIsBook, KeepBestIsBook DEF ReadDelta, AcceptDelta
      <3>2. Display(levels') \in Book
        BY <3>1, DisplayIsBook
      <3>3. delivered' \in [version : Version \union {<<0, 0>>}, view : Book]
        BY <1>1, <2>2, <3>2 DEF ReadDelta, DeliverIfClean
      <3>4. EngineTypeOK' /\ epoch' \in 0 .. Epochs
        BY <1>2, <2>2, <3>1 DEF ReadDelta, AcceptDelta
      <3> QED
        BY <1>1, <1>3, <3>3, <3>4 DEF ReadFrame
    <2>3. CASE ReadGap
      BY <1>1, <1>3, <2>3 DEF ReadFrame, ReadGap, RejectDelta
    <2>4. CASE ReadUnregistered
      BY <1>1, <1>3, <2>4 DEF ReadFrame, ReadUnregistered
    <2> QED
      BY <1>3, <2>1, <2>2, <2>3, <2>4 DEF ReadFrame
  <1>4. CASE LoseFrame
    BY <1>1, <1>4 DEF LoseFrame
  <1> QED
    BY <1>3, <1>4

\* Every reachable state of the feed is well typed: books, versions, frames in
\* flight and what was delivered (linears/stream.go:142-240, engine.go:183-280).
THEOREM TypeCorrect == Spec => []TypeOK
  <1>1. Init => TypeOK
    <2> SUFFICES ASSUME Init PROVE TypeOK
      OBVIOUS
    <2>1. <<1, 1>> \in Version
      BY FeedAssumption DEF Version
    <2>2. <<>> \in Seq(Frame) /\ 0 \in 0 .. Epochs
      BY FeedAssumption
    <2>3. EngineTypeOK
      <3>1. primed \in BOOLEAN /\ dirty \in BOOLEAN
        BY Zenon DEF Init, EngineInit
      <3> QED
        BY <3>1, EmptyBookIsBook DEF Init, EngineInit, EngineTypeOK
    <2>4. history \in [Version -> View]
      BY EmptyBookIsView DEF Init
    <2>5. delivered \in [version : Version \union {<<0, 0>>}, view : Book]
      BY EmptyBookIsBook DEF Init, NothingDelivered
    <2>6. serverSub \in BOOLEAN /\ up \in BOOLEAN /\ watching \in BOOLEAN
      BY Zenon DEF Init
    <2>7. version \in Version /\ wire \in Seq(Frame) /\ epoch \in 0 .. Epochs
      BY <2>1, <2>2 DEF Init
    <2> QED
      BY <2>3, <2>4, <2>5, <2>6, <2>7 DEF TypeOK
  <1>2. TypeOK /\ [Next]_vars => TypeOK'
    <2>1. TypeOK /\ UNCHANGED vars => TypeOK'
      BY DEF TypeOK, EngineTypeOK, vars, engineVars, feedVars
    <2> QED
      BY <2>1, TypeExchange, TypeConnection, TypeRead DEF Next
  <1> QED
    BY <1>1, <1>2, PTL DEF Spec

-------------------------------------------------------------------------------
(* The order of versions and the frames of the wire. *)

LEMMA VersionsArePairs ==
  /\ Version \subseteq Nat \X Nat
  /\ <<0, 0>> \in Nat \X Nat
  BY FeedAssumption DEF Version

LEMMA NotEarlierTransitive ==
  ASSUME NEW u \in Nat \X Nat, NEW v \in Nat \X Nat, NEW w \in Nat \X Nat,
         ~Earlier(u, v), ~Earlier(v, w)
  PROVE  ~Earlier(u, w)
  BY DEF Earlier

LEMMA EarlierIsStrict ==
  ASSUME NEW u \in Nat \X Nat, NEW v \in Nat \X Nat, Earlier(u, v)
  PROVE  u # v /\ ~Earlier(v, u)
  BY DEF Earlier

LEMMA WireFacts ==
  ASSUME TypeOK
  PROVE  /\ Len(wire) \in Nat
         /\ \A i \in 1 .. Len(wire) :
              /\ wire[i] \in Frame
              /\ wire[i].version \in Version
              /\ wire[i].version \in Nat \X Nat
         /\ version \in Nat \X Nat
         /\ delivered.version \in Nat \X Nat
  <1>1. wire \in Seq(Frame) /\ version \in Version
    BY DEF TypeOK
  <1>2. delivered.version \in Version \union {<<0, 0>>}
    BY DEF TypeOK
  <1>3. \A i \in 1 .. Len(wire) : wire[i] \in Frame
    BY <1>1
  <1> QED
    BY <1>1, <1>2, <1>3, VersionsArePairs DEF Frame

LEMMA AppendFacts ==
  ASSUME TypeOK, NEW f \in Frame
  PROVE  /\ Len(Append(wire, f)) = Len(wire) + 1
         /\ \A i \in 1 .. Len(wire) : Append(wire, f)[i] = wire[i]
         /\ Append(wire, f)[Len(wire) + 1] = f
  BY DEF TypeOK

-------------------------------------------------------------------------------
(* The exchange publishes version next, with book b and, to a subscriber, frame  *)
(* f: the common shape of ExchangeUpdate and ServiceRestart.                     *)

Publishes(next, b, f) ==
    /\ Earlier(version, next)
    /\ version' = next
    /\ history' = [history EXCEPT ![next] = b]
    /\ \/ serverSub /\ wire' = Append(wire, f)
       \/ ~serverSub /\ wire' = wire
    /\ f.version = next
    /\ f.type = "snapshot" => f.rows = b
    /\ ~IsNotice(f) => /\ <<next[1], next[2] - 1>> = version
                       /\ b = Override(history[version], f.rows)
    /\ next[1] # version[1] => IsNotice(f)
    /\ UNCHANGED <<engineVars, serverSub, up, watching, epoch, delivered>>

LEMMA ExchangeUpdatePublishes ==
  ASSUME TypeOK, ExchangeUpdate
  PROVE  \E next \in Version, b \in View, f \in Frame : Publishes(next, b, f)
  <1> DEFINE next == <<version[1], version[2] + 1>>
  <1>1. PICK b \in View :
          /\ version' = next
          /\ history' = [history EXCEPT ![next] = b]
          /\ \/ serverSub /\ wire' = Append(wire, DeltaTo(next, history[version], b))
             \/ ~serverSub /\ wire' = wire
    BY DEF ExchangeUpdate
  <1> DEFINE f == DeltaTo(next, history[version], b)
  <1>2. version \in Version /\ history[version] \in Book /\ b \in Book
    BY ViewIsBook DEF TypeOK
  <1>3. next \in Version
    BY <1>2, NextUpdateIsVersion DEF ExchangeUpdate
  <1>4. f \in Frame
    BY <1>2, <1>3, DeltaIsFrame
  <1>5. version[2] \in Nat /\ version = <<version[1], version[2]>>
    BY <1>2, VersionParts, FeedAssumption
  <1>6. Earlier(version, next) /\ <<next[1], next[2] - 1>> = version
    BY <1>5 DEF Earlier
  <1>7. f.version = next /\ f.type = "delta" /\ f.rows = Diff(history[version], b)
    BY DEF DeltaTo
  <1>8. b = Override(history[version], f.rows)
    BY <1>2, <1>7, OverrideDiff
  <1>9. next[1] = version[1]
    OBVIOUS
  <1>10. Publishes(next, b, f)
    BY <1>1, <1>6, <1>7, <1>8, <1>9 DEF Publishes, ExchangeUpdate
  <1> QED
    BY <1>3, <1>4, <1>10

LEMMA ServiceRestartPublishes ==
  ASSUME TypeOK, ServiceRestart
  PROVE  \E next \in Version, b \in View, f \in Frame : Publishes(next, b, f)
  <1> DEFINE next == <<version[1] + 1, 1>>
  <1>1. PICK b \in View :
          /\ version' = next
          /\ history' = [history EXCEPT ![next] = b]
          /\ \/ /\ serverSub
                /\ \E f \in {SnapshotOf(next, b), DeltaTo(next, history[version], b)} :
                     wire' = Append(wire, f)
             \/ ~serverSub /\ wire' = wire
    BY DEF ServiceRestart
  <1>2. version \in Version /\ history[version] \in Book /\ b \in Book
    BY ViewIsBook DEF TypeOK
  <1>3. next \in Version
    BY <1>2, NextEpochIsVersion DEF ServiceRestart
  <1>4. PICK f \in {SnapshotOf(next, b), DeltaTo(next, history[version], b)} :
          \/ serverSub /\ wire' = Append(wire, f)
          \/ ~serverSub /\ wire' = wire
    BY <1>1
  <1>5. f \in Frame
    BY <1>2, <1>3, <1>4, DeltaIsFrame, SnapshotIsFrame
  <1>6. Earlier(version, next)
    BY <1>2, VersionParts, FeedAssumption DEF Earlier
  <1>7. /\ f.version = next
        /\ f.type = "snapshot" => f.rows = b
    BY <1>4 DEF DeltaTo, SnapshotOf
  <1>8. IsNotice(f)
    BY <1>7 DEF IsNotice
  <1>9. Publishes(next, b, f)
    BY <1>1, <1>4, <1>6, <1>7, <1>8 DEF Publishes, ServiceRestart
  <1> QED
    BY <1>3, <1>5, <1>9

\* What was said about versions up to now stays true when a later one appears.
LEMMA PublishedHistory ==
  ASSUME TypeOK, NEW next \in Version, NEW b \in View, NEW f \in Frame,
         Publishes(next, b, f)
  PROVE  /\ history'[next] = b
         /\ \A v \in Version :
              ~Earlier(version, v) => /\ v # next
                                      /\ history'[v] = history[v]
                                      /\ ~Earlier(next, v)
  <1>1. history \in [Version -> View] /\ version \in Version
    BY DEF TypeOK
  <1>2. history' = [history EXCEPT ![next] = b] /\ Earlier(version, next)
    BY DEF Publishes
  <1>3. ASSUME NEW v \in Version, ~Earlier(version, v)
        PROVE  v # next /\ ~Earlier(next, v)
    <2>1. ~Earlier(next, version)
      BY <1>1, <1>2, VersionsArePairs, EarlierIsStrict
    <2>2. ~Earlier(next, v)
      BY <1>1, <1>3, <2>1, VersionsArePairs, NotEarlierTransitive
    <2> QED
      BY <1>2, <1>3, <2>2
  <1> QED
    BY <1>1, <1>2, <1>3

\* The update before that of a frame that is no notice is a version too.
LEMMA UpdateBefore ==
  ASSUME NEW f \in Frame, ~IsNotice(f)
  PROVE  /\ <<f.version[1], f.version[2] - 1>> \in Version
         /\ Earlier(<<f.version[1], f.version[2] - 1>>, f.version)
  <1>1. f.version \in Version /\ f.version[2] # 1
    BY DEF Frame, IsNotice
  <1>2. f.version[1] \in 1 .. Epochs /\ f.version[2] \in 1 .. LastUpdateId
    BY <1>1, VersionParts
  <1> QED
    BY <1>1, <1>2, FeedAssumption DEF Version, Earlier

LEMMA PublishKeepsWire ==
  ASSUME TypeOK, FeedInv, NEW next \in Version, NEW b \in View, NEW f \in Frame,
         Publishes(next, b, f)
  PROVE  WireCarriesHistory'
  <1> SUFFICES ASSUME NEW i \in 1 .. Len(wire')
               PROVE  /\ ~Earlier(version', wire'[i].version)
                      /\ wire'[i].type = "snapshot" =>
                            wire'[i].rows = history'[wire'[i].version]
                      /\ ~IsNotice(wire'[i]) =>
                            history'[wire'[i].version] =
                              Override(history'[<<wire'[i].version[1],
                                                  wire'[i].version[2] - 1>>],
                                       wire'[i].rows)
    BY DEF WireCarriesHistory, IsNotice
  <1>1. version' = next /\ next \in Nat \X Nat
    BY VersionsArePairs DEF Publishes
  <1>2. CASE i \in 1 .. Len(wire) /\ wire'[i] = wire[i]
    <2> DEFINE g == wire[i]
               before == <<g.version[1], g.version[2] - 1>>
    <2>1. /\ ~Earlier(version, g.version)
          /\ g.type = "snapshot" => g.rows = history[g.version]
          /\ ~IsNotice(g) => history[g.version] = Override(history[before], g.rows)
      BY <1>2 DEF FeedInv, WireCarriesHistory
    <2>2. g \in Frame /\ g.version \in Version
      BY <1>2, WireFacts
    <2>3. history'[g.version] = history[g.version] /\ ~Earlier(next, g.version)
      BY <2>1, <2>2, PublishedHistory
    <2>4. ~IsNotice(g) => history'[before] = history[before]
      <3> SUFFICES ASSUME ~IsNotice(g) PROVE history'[before] = history[before]
        OBVIOUS
      <3>1. before \in Version /\ Earlier(before, g.version)
        BY <2>2, UpdateBefore
      <3>2. ~Earlier(g.version, before)
        BY <2>2, <3>1, VersionsArePairs, EarlierIsStrict
      <3>3. ~Earlier(version, before)
        BY <2>1, <2>2, <3>1, <3>2, WireFacts, VersionsArePairs, NotEarlierTransitive
      <3> QED
        BY <3>1, <3>3, PublishedHistory
    <2> QED
      BY <1>1, <1>2, <2>1, <2>3, <2>4
  <1>3. CASE wire'[i] = f
    <2>1. /\ f.version = next
          /\ f.type = "snapshot" => f.rows = b
          /\ ~IsNotice(f) => /\ <<next[1], next[2] - 1>> = version
                             /\ b = Override(history[version], f.rows)
      BY DEF Publishes
    <2>2. ~Earlier(next, next)
      BY <1>1 DEF Earlier
    <2>3. ~Earlier(version, version) /\ version \in Version
      BY WireFacts DEF TypeOK, Earlier
    <2>4. history'[next] = b /\ history'[version] = history[version]
      BY <2>3, PublishedHistory
    <2> QED
      BY <1>1, <1>3, <2>1, <2>2, <2>4
  <1>4. wire'[i] = f \/ (i \in 1 .. Len(wire) /\ wire'[i] = wire[i])
    BY AppendFacts, WireFacts DEF Publishes
  <1> QED
    BY <1>2, <1>3, <1>4

LEMMA PublishKeepsOrder ==
  ASSUME TypeOK, FeedInv, NEW next \in Version, NEW b \in View, NEW f \in Frame,
         Publishes(next, b, f)
  PROVE  WireIsOrdered'
  <1>1. /\ Synced' = Synced
        /\ EngineVersion' = EngineVersion
        /\ delivered' = delivered
    BY DEF Publishes, Synced, EngineVersion, engineVars
  <1>2. \A v \in Version \union {<<0, 0>>} : ~Earlier(version, v) => ~Earlier(next, v)
    <2>1. ~Earlier(next, version)
      BY VersionsArePairs, EarlierIsStrict DEF Publishes, TypeOK
    <2> QED
      BY <2>1, VersionsArePairs, WireFacts, NotEarlierTransitive
  <1>3. CASE wire' = wire
    BY <1>1, <1>3 DEF FeedInv, WireIsOrdered, FramesInOrder, EngineBehindWire, DeliveredBehindWire
  <1>4. CASE wire' = Append(wire, f)
    <2>1. /\ Len(wire') = Len(wire) + 1
          /\ \A i \in 1 .. Len(wire) : wire'[i] = wire[i]
          /\ wire'[Len(wire) + 1].version = next
      BY <1>4, AppendFacts DEF Publishes
    <2>2. \A i \in 1 .. Len(wire') : i \in 1 .. Len(wire) \/ i = Len(wire) + 1
      BY <2>1, WireFacts
    <2>3. \A i \in 1 .. Len(wire) : ~Earlier(next, wire[i].version)
      BY <1>2, WireFacts DEF FeedInv, WireCarriesHistory
    <2>4. ~Earlier(next, delivered.version)
      BY <1>2 DEF FeedInv, DeliveredIsPast, TypeOK
    <2>5. Synced => ~Earlier(next, EngineVersion)
      BY <1>2 DEF FeedInv, EngineHoldsHistory
    <2>6. ASSUME NEW i \in 1 .. Len(wire'), NEW j \in 1 .. Len(wire'), i < j
          PROVE  ~Earlier(wire'[j].version, wire'[i].version)
      <3>1. i \in 1 .. Len(wire)
        BY <2>1, <2>6, WireFacts
      <3> QED
        BY <2>1, <2>2, <2>3, <2>6, <3>1 DEF FeedInv, WireIsOrdered, FramesInOrder, EngineBehindWire, DeliveredBehindWire
    <2>7. Synced' => \A i \in 1 .. Len(wire') : ~Earlier(wire'[i].version, EngineVersion')
      BY <1>1, <2>1, <2>2, <2>5 DEF FeedInv, WireIsOrdered, FramesInOrder, EngineBehindWire, DeliveredBehindWire
    <2>8. \A i \in 1 .. Len(wire') : ~Earlier(wire'[i].version, delivered'.version)
      BY <1>1, <2>1, <2>2, <2>4 DEF FeedInv, WireIsOrdered, FramesInOrder, EngineBehindWire, DeliveredBehindWire
    <2> QED
      BY <2>6, <2>7, <2>8 DEF WireIsOrdered, FramesInOrder, EngineBehindWire, DeliveredBehindWire, Earlier
  <1> QED
    BY <1>3, <1>4 DEF Publishes

LEMMA PublishKeepsEpochs ==
  ASSUME TypeOK, FeedInv, NEW next \in Version, NEW b \in View, NEW f \in Frame,
         Publishes(next, b, f)
  PROVE  EpochsAreAnnounced'
  <1>1. /\ Synced' = Synced
        /\ epoch' = epoch
        /\ serverSub' = serverSub
        /\ version' = next
        /\ EpochsAreAnnounced
    BY DEF Publishes, Synced, engineVars, FeedInv
  <1>2. CASE wire' = wire /\ ~serverSub
    BY <1>1, <1>2 DEF EpochsAreAnnounced, FramesAnnounce, SubscriberIsTold, EngineIsTold, Announced
  <1>3. CASE wire' = Append(wire, f)
    <2> DEFINE n == Len(wire)
    <2>1. /\ Len(wire') = n + 1
          /\ \A i \in 1 .. n : wire'[i] = wire[i]
          /\ wire'[n + 1] = f
          /\ f.version = next
      BY <1>3, AppendFacts DEF Publishes
    <2>2. n \in Nat /\ serverSub
      BY <1>3, <2>1, WireFacts DEF Publishes
    \* A notice among the old frames is still there, and f is one if it has to be.
    <2>3. ASSUME NEW e, NEW i \in Nat, NEW j \in 1 .. n, Announced(wire, e, i + 1, j)
          PROVE  Announced(wire', e, i + 1, j)
      BY <2>1, <2>2, <2>3 DEF Announced, IsNotice
    <2>4. ASSUME NEW i \in 0 .. n, Announced(wire, version[1], i + 1, n) \/ IsNotice(f)
          PROVE  Announced(wire', next[1], i + 1, n + 1)
      <3>1. CASE IsNotice(f)
        BY <2>1, <2>2, <3>1 DEF Announced, IsNotice
      <3>2. CASE ~IsNotice(f) /\ Announced(wire, version[1], i + 1, n)
        <4>1. next[1] = version[1]
          BY <3>2 DEF Publishes
        <4>2. PICK k \in i + 1 .. n : wire[k].version[1] = next[1] /\ IsNotice(wire[k])
          BY <3>2, <4>1 DEF Announced
        <4> QED
          BY <2>1, <2>2, <4>2 DEF Announced, IsNotice
      <3> QED
        BY <2>4, <3>1, <3>2
    <2>5. ASSUME NEW i \in 1 .. n, wire[i].version[1] # next[1]
          PROVE  Announced(wire', next[1], i + 1, n + 1)
      <3>1. IsNotice(f) \/ next[1] = version[1]
        BY DEF Publishes
      <3> QED
        BY <1>1, <2>2, <2>4, <2>5, <3>1 DEF EpochsAreAnnounced, FramesAnnounce, SubscriberIsTold, EngineIsTold
    <2>6. ASSUME Synced, epoch # next[1]
          PROVE  Announced(wire', next[1], 1, n + 1)
      <3>1. IsNotice(f) \/ next[1] = version[1]
        BY DEF Publishes
      <3>2. Announced(wire, version[1], 0 + 1, n) \/ IsNotice(f)
        BY <1>1, <2>2, <2>6, <3>1 DEF EpochsAreAnnounced, FramesAnnounce, SubscriberIsTold, EngineIsTold
      <3>3. Announced(wire', next[1], 0 + 1, n + 1)
        BY <2>2, <2>4, <3>2
      <3> QED
        BY <3>3
    <2>7. ASSUME NEW i \in 1 .. Len(wire'), NEW j \in 1 .. Len(wire'),
                 i < j, wire'[i].version[1] # wire'[j].version[1]
          PROVE  Announced(wire', wire'[j].version[1], i + 1, j)
      <3>1. i \in 1 .. n
        BY <2>1, <2>2, <2>7
      <3>2. CASE j = n + 1
        BY <2>1, <2>5, <2>7, <3>1, <3>2
      <3>3. CASE j \in 1 .. n
        BY <1>1, <2>1, <2>3, <2>7, <3>1, <3>3 DEF EpochsAreAnnounced, FramesAnnounce, SubscriberIsTold, EngineIsTold
      <3> QED
        BY <2>1, <2>2, <3>2, <3>3
    <2>8. ASSUME NEW i \in 1 .. Len(wire'), wire'[i].version[1] # next[1]
          PROVE  Announced(wire', next[1], i + 1, Len(wire'))
      BY <2>1, <2>2, <2>5, <2>8
    <2>9. ASSUME Synced, NEW i \in 1 .. Len(wire'), wire'[i].version[1] # epoch
          PROVE  Announced(wire', wire'[i].version[1], 1, i)
      <3>1. CASE i = n + 1
        BY <2>1, <2>6, <2>9, <3>1
      <3>2. CASE i \in 1 .. n
        <4>1. Announced(wire, wire[i].version[1], 0 + 1, i)
          BY <1>1, <2>1, <2>9, <3>2 DEF EpochsAreAnnounced, FramesAnnounce, SubscriberIsTold, EngineIsTold
        <4>2. Announced(wire', wire[i].version[1], 0 + 1, i)
          BY <1>1, <2>1, <2>2, <2>3, <3>2, <4>1
        <4> QED
          BY <2>1, <3>2, <4>2
      <3> QED
        BY <2>1, <2>2, <3>1, <3>2
    <2> QED
      BY <1>1, <2>1, <2>6, <2>7, <2>8, <2>9 DEF EpochsAreAnnounced, FramesAnnounce, SubscriberIsTold, EngineIsTold
  <1> QED
    BY <1>2, <1>3 DEF Publishes

LEMMA PublishKeepsRest ==
  ASSUME TypeOK, FeedInv, NEW next \in Version, NEW b \in View, NEW f \in Frame,
         Publishes(next, b, f)
  PROVE  /\ EngineHoldsHistory'
         /\ DeliveredIsPast'
         /\ WireNeedsSocket'
         /\ DeliveredIsExchangeBook'
  <1>1. /\ Synced' = Synced
        /\ EngineVersion' = EngineVersion
        /\ UNCHANGED <<levels, delivered, up, serverSub>>
        /\ version' = next
    BY DEF Publishes, Synced, EngineVersion, engineVars
  <1>2. EngineHoldsHistory'
    BY <1>1, PublishedHistory DEF FeedInv, EngineHoldsHistory
  <1>3. DeliveredIsPast'
    <2>1. ~Earlier(next, version)
      BY VersionsArePairs, EarlierIsStrict DEF Publishes, TypeOK
    <2>2. ~Earlier(next, delivered.version)
      BY <2>1, VersionsArePairs, WireFacts, NotEarlierTransitive
         DEF FeedInv, DeliveredIsPast
    <2> QED
      BY <1>1, <2>2 DEF FeedInv, DeliveredIsPast, NothingDelivered
  <1>4. DeliveredIsExchangeBook'
    BY <1>1, PublishedHistory
       DEF FeedInv, DeliveredIsExchangeBook, DeliveredIsPast, NothingDelivered
  <1>5. WireNeedsSocket'
    BY <1>1 DEF Publishes, FeedInv, WireNeedsSocket
  <1> QED
    BY <1>2, <1>3, <1>4, <1>5

LEMMA ExchangeKeepsFeedInv ==
  TypeOK /\ FeedInv /\ (ExchangeUpdate \/ ServiceRestart) => FeedInv'
  BY ExchangeUpdatePublishes, ServiceRestartPublishes, PublishKeepsWire,
     PublishKeepsOrder, PublishKeepsEpochs, PublishKeepsRest DEF FeedInv

-------------------------------------------------------------------------------
(* The exchange answers with a snapshot of its current book: PushSnapshot, and *)
(* the subscriptions of Connect and Watch.                                     *)

LEMMA AppendSnapshotKeepsWire ==
  ASSUME TypeOK, FeedInv, wire' = Append(wire, CurrentSnapshot),
         UNCHANGED <<version, history>>
  PROVE  /\ WireCarriesHistory'
         /\ FramesInOrder'
         /\ FramesAnnounce'
         /\ SubscriberIsTold'
         /\ \A i \in 1 .. Len(wire') :
              \/ i \in 1 .. Len(wire) /\ wire'[i] = wire[i]
              \/ i = Len(wire) + 1 /\ wire'[i] = CurrentSnapshot
  <1> DEFINE n == Len(wire)
  <1>1. /\ Len(wire') = n + 1
        /\ \A i \in 1 .. n : wire'[i] = wire[i]
        /\ wire'[n + 1] = CurrentSnapshot
    BY CurrentSnapshotIsFrame, AppendFacts
  <1>2. n \in Nat /\ version \in Nat \X Nat
    BY WireFacts
  <1>3. \A i \in 1 .. Len(wire') :
          \/ i \in 1 .. n /\ wire'[i] = wire[i]
          \/ i = n + 1 /\ wire'[i] = CurrentSnapshot
    BY <1>1, <1>2
  <1>4. /\ CurrentSnapshot.version = version
        /\ CurrentSnapshot.rows = history[version]
        /\ IsNotice(CurrentSnapshot)
    BY DEF CurrentSnapshot, SnapshotOf, IsNotice
  <1>5. ~Earlier(version, version)
    BY <1>2 DEF Earlier
  <1>6. WireCarriesHistory'
    BY <1>3, <1>4, <1>5 DEF FeedInv, WireCarriesHistory, IsNotice
  <1>7. FramesInOrder'
    <2> SUFFICES ASSUME NEW i \in 1 .. Len(wire'), NEW j \in 1 .. Len(wire'), i < j
                 PROVE  ~Earlier(wire'[j].version, wire'[i].version)
      BY DEF FramesInOrder, Earlier
    <2>1. i \in 1 .. n /\ wire'[i] = wire[i]
      BY <1>1, <1>2
    <2>2. CASE j \in 1 .. n /\ wire'[j] = wire[j]
      BY <2>1, <2>2 DEF FeedInv, WireIsOrdered, FramesInOrder
    <2>3. CASE wire'[j] = CurrentSnapshot
      BY <1>4, <2>1, <2>3 DEF FeedInv, WireCarriesHistory
    <2> QED
      BY <1>3, <2>2, <2>3
  <1>8. \A i \in Nat : i <= n => Announced(wire', version[1], i + 1, n + 1)
    BY <1>1, <1>2, <1>4 DEF Announced
  <1>9. FramesAnnounce'
    <2> SUFFICES ASSUME NEW i \in 1 .. Len(wire'), NEW j \in 1 .. Len(wire'), i < j,
                        wire'[i].version[1] # wire'[j].version[1]
                 PROVE  Announced(wire', wire'[j].version[1], i + 1, j)
      BY DEF FramesAnnounce
    <2>1. i \in 1 .. n /\ wire'[i] = wire[i]
      BY <1>1, <1>2
    <2>2. CASE j \in 1 .. n /\ wire'[j] = wire[j]
      <3>1. Announced(wire, wire[j].version[1], i + 1, j)
        BY <2>1, <2>2 DEF FeedInv, EpochsAreAnnounced, FramesAnnounce
      <3> QED
        BY <1>1, <1>2, <2>2, <3>1 DEF Announced
    <2>3. CASE j = n + 1 /\ wire'[j] = CurrentSnapshot
      BY <1>2, <1>4, <1>8, <2>1, <2>3
    <2> QED
      BY <1>3, <2>2, <2>3
  <1>10. SubscriberIsTold'
    <2> SUFFICES ASSUME NEW i \in 1 .. Len(wire'), wire'[i].version[1] # version[1]
                 PROVE  Announced(wire', version[1], i + 1, Len(wire'))
      BY DEF SubscriberIsTold
    <2>1. i \in 1 .. n
      BY <1>3, <1>4
    <2> QED
      BY <1>1, <1>2, <1>8, <2>1
  <1> QED
    BY <1>3, <1>6, <1>7, <1>9, <1>10

LEMMA PushSnapshotKeepsFeedInv == TypeOK /\ FeedInv /\ PushSnapshot => FeedInv'
  <1> SUFFICES ASSUME TypeOK, FeedInv, PushSnapshot
               PROVE  FeedInv'
    OBVIOUS
  <1>1. /\ wire' = Append(wire, CurrentSnapshot)
        /\ UNCHANGED <<version, history, delivered, epoch, levels, up, serverSub>>
        /\ Synced' = Synced
        /\ EngineVersion' = EngineVersion
    BY DEF PushSnapshot, Synced, EngineVersion, engineVars
  <1>2. /\ WireCarriesHistory' /\ FramesInOrder' /\ FramesAnnounce' /\ SubscriberIsTold'
        /\ \A i \in 1 .. Len(wire') :
              \/ i \in 1 .. Len(wire) /\ wire'[i] = wire[i]
              \/ i = Len(wire) + 1 /\ wire'[i] = CurrentSnapshot
    BY <1>1, AppendSnapshotKeepsWire
  <1>3. /\ CurrentSnapshot.version = version
        /\ IsNotice(CurrentSnapshot)
    BY DEF CurrentSnapshot, SnapshotOf, IsNotice
  <1>4. EngineBehindWire' /\ DeliveredBehindWire'
    BY <1>1, <1>2, <1>3
       DEF FeedInv, WireIsOrdered, EngineBehindWire, DeliveredBehindWire,
           EngineHoldsHistory, DeliveredIsPast
  <1>5. EngineIsTold'
    <2> SUFFICES ASSUME Synced
                 PROVE  /\ \A i \in 1 .. Len(wire') :
                              wire'[i].version[1] # epoch =>
                                 Announced(wire', wire'[i].version[1], 1, i)
                        /\ Announced(wire', version[1], 1, Len(wire'))
      BY <1>1 DEF EngineIsTold
    <2>1. /\ Len(wire') = Len(wire) + 1 /\ Len(wire) \in Nat
          /\ wire'[Len(wire) + 1] = CurrentSnapshot
          /\ \A i \in 1 .. Len(wire) : wire'[i] = wire[i]
      BY <1>1, CurrentSnapshotIsFrame, AppendFacts, WireFacts
    <2>2. Announced(wire', version[1], 1, Len(wire) + 1)
      BY <1>3, <2>1 DEF Announced
    <2>3. ASSUME NEW i \in 1 .. Len(wire), wire[i].version[1] # epoch
          PROVE  Announced(wire', wire[i].version[1], 1, i)
      <3>1. Announced(wire, wire[i].version[1], 1, i)
        BY <2>3 DEF FeedInv, EpochsAreAnnounced, EngineIsTold
      <3> QED
        BY <2>1, <3>1 DEF Announced
    <2> QED
      BY <1>2, <1>3, <2>1, <2>2, <2>3
  <1>6. /\ EngineHoldsHistory' /\ DeliveredIsPast' /\ WireNeedsSocket'
        /\ DeliveredIsExchangeBook'
    BY <1>1 DEF FeedInv, EngineHoldsHistory, DeliveredIsPast, WireNeedsSocket,
                DeliveredIsExchangeBook, NothingDelivered, PushSnapshot
  <1> QED
    BY <1>2, <1>4, <1>5, <1>6 DEF FeedInv, WireIsOrdered, EpochsAreAnnounced

\* A fresh or a reset engine is not synced: it delivers nothing before a snapshot.
LEMMA ResetIsNotSynced ==
  ASSUME lastU' = 0
  PROVE  ~Synced'
  BY DEF Synced

LEMMA ConnectionKeepsFeedInv ==
  TypeOK /\ FeedInv /\ (Connect \/ Disconnect \/ Watch \/ Unsubscribe) => FeedInv'
  <1> SUFFICES ASSUME TypeOK, FeedInv, Connect \/ Disconnect \/ Watch \/ Unsubscribe
               PROVE  FeedInv'
    OBVIOUS
  <1>0. \A i \in 1 .. Len(wire) : ~Earlier(wire[i].version, <<0, 0>>)
    BY WireFacts DEF Earlier
  <1>1. CASE Disconnect
    <2>1. /\ wire' = <<>> /\ ~serverSub'
          /\ UNCHANGED <<version, history, delivered, epoch, levels>>
          /\ Synced' = Synced
          /\ EngineVersion' = EngineVersion
      BY <1>1 DEF Disconnect, Synced, EngineVersion, engineVars
    <2>2. Len(wire') = 0
      BY <2>1
    <2>3. /\ WireCarriesHistory' /\ WireIsOrdered' /\ WireNeedsSocket'
      BY <2>1, <2>2 DEF WireCarriesHistory, WireIsOrdered, FramesInOrder,
                        EngineBehindWire, DeliveredBehindWire, WireNeedsSocket
    <2>4. EpochsAreAnnounced'
      BY <2>1, <2>2 DEF EpochsAreAnnounced, FramesAnnounce, SubscriberIsTold, EngineIsTold
    <2>5. EngineHoldsHistory' /\ DeliveredIsPast' /\ DeliveredIsExchangeBook'
      BY <2>1 DEF FeedInv, EngineHoldsHistory, DeliveredIsPast,
                  DeliveredIsExchangeBook, NothingDelivered
    <2> QED
      BY <2>3, <2>4, <2>5 DEF FeedInv
  <1>2. CASE Unsubscribe
    <2>1. /\ UNCHANGED <<wire, version, history, delivered, epoch, levels, up>>
          /\ ~serverSub' /\ ~Synced'
      BY <1>2 DEF Unsubscribe, Synced, engineVars
    <2>2. WireCarriesHistory' /\ WireIsOrdered' /\ WireNeedsSocket'
      BY <2>1 DEF FeedInv, WireCarriesHistory, WireIsOrdered, FramesInOrder,
                  EngineBehindWire, DeliveredBehindWire, WireNeedsSocket
    <2>3. EpochsAreAnnounced'
      BY <2>1 DEF FeedInv, EpochsAreAnnounced, FramesAnnounce, SubscriberIsTold,
                  EngineIsTold
    <2>4. EngineHoldsHistory' /\ DeliveredIsPast' /\ DeliveredIsExchangeBook'
      BY <2>1 DEF FeedInv, EngineHoldsHistory, DeliveredIsPast,
                  DeliveredIsExchangeBook, NothingDelivered
    <2> QED
      BY <2>2, <2>3, <2>4 DEF FeedInv
  <1>3. CASE Connect /\ ~watching
    <2>1. /\ UNCHANGED <<wire, version, history, delivered, epoch, levels>>
          /\ ~serverSub' /\ ~Synced' /\ up'
      BY <1>3 DEF Connect, Synced, engineVars
    <2>2. WireCarriesHistory' /\ WireIsOrdered' /\ WireNeedsSocket'
      BY <2>1 DEF FeedInv, WireCarriesHistory, WireIsOrdered, FramesInOrder,
                  EngineBehindWire, DeliveredBehindWire, WireNeedsSocket
    <2>3. EpochsAreAnnounced'
      BY <2>1 DEF FeedInv, EpochsAreAnnounced, FramesAnnounce, SubscriberIsTold,
                  EngineIsTold
    <2>4. EngineHoldsHistory' /\ DeliveredIsPast' /\ DeliveredIsExchangeBook'
      BY <2>1 DEF FeedInv, EngineHoldsHistory, DeliveredIsPast,
                  DeliveredIsExchangeBook, NothingDelivered
    <2> QED
      BY <2>2, <2>3, <2>4 DEF FeedInv
  <1>4. CASE Connect /\ watching
    <2>1. /\ wire' = Append(wire, CurrentSnapshot)
          /\ UNCHANGED <<version, history, delivered>>
          /\ ~Synced' /\ up'
      BY <1>4, ResetIsNotSynced DEF Connect, MarkResynced
    <2>2. /\ WireCarriesHistory' /\ FramesInOrder' /\ FramesAnnounce' /\ SubscriberIsTold'
          /\ \A i \in 1 .. Len(wire') :
                \/ i \in 1 .. Len(wire) /\ wire'[i] = wire[i]
                \/ i = Len(wire) + 1 /\ wire'[i] = CurrentSnapshot
      BY <2>1, AppendSnapshotKeepsWire
    <2>3. CurrentSnapshot.version = version
      BY DEF CurrentSnapshot, SnapshotOf
    <2>4. DeliveredBehindWire'
      BY <2>1, <2>2, <2>3 DEF FeedInv, WireIsOrdered, DeliveredBehindWire, DeliveredIsPast
    <2>5. /\ EngineBehindWire' /\ EngineIsTold' /\ EngineHoldsHistory'
          /\ WireNeedsSocket' /\ DeliveredIsPast' /\ DeliveredIsExchangeBook'
      BY <2>1 DEF FeedInv, EngineBehindWire, EngineIsTold, EngineHoldsHistory,
                  WireNeedsSocket, DeliveredIsPast, DeliveredIsExchangeBook,
                  NothingDelivered
    <2> QED
      BY <2>2, <2>4, <2>5 DEF FeedInv, WireIsOrdered, EpochsAreAnnounced
  <1>5. CASE Watch
    <2>1. /\ UNCHANGED <<version, history>>
          /\ ~Synced' /\ delivered' = NothingDelivered
      BY <1>5, ResetIsNotSynced DEF Watch
    <2>2. delivered'.version = <<0, 0>>
      BY <2>1 DEF NothingDelivered
    <2>3. ~Earlier(version, <<0, 0>>)
      BY WireFacts DEF Earlier
    <2>4. /\ EngineBehindWire' /\ EngineIsTold' /\ EngineHoldsHistory'
          /\ DeliveredIsPast' /\ DeliveredIsExchangeBook'
      BY <2>1, <2>2, <2>3
         DEF EngineBehindWire, EngineIsTold, EngineHoldsHistory, DeliveredIsPast,
             DeliveredIsExchangeBook, NothingDelivered
    <2>5. CASE wire' = Append(wire, CurrentSnapshot) /\ up
      <3>1. /\ WireCarriesHistory' /\ FramesInOrder' /\ FramesAnnounce' /\ SubscriberIsTold'
            /\ \A i \in 1 .. Len(wire') :
                  \/ i \in 1 .. Len(wire) /\ wire'[i] = wire[i]
                  \/ i = Len(wire) + 1 /\ wire'[i] = CurrentSnapshot
        BY <2>1, <2>5, AppendSnapshotKeepsWire
      <3>2. CurrentSnapshot.version = version
        BY DEF CurrentSnapshot, SnapshotOf
      <3>3. DeliveredBehindWire'
        BY <1>0, <2>2, <2>3, <3>1, <3>2 DEF DeliveredBehindWire
      <3>4. WireNeedsSocket'
        BY <1>5, <2>5 DEF Watch, WireNeedsSocket
      <3> QED
        BY <2>4, <3>1, <3>3, <3>4 DEF FeedInv, WireIsOrdered, EpochsAreAnnounced
    <2>6. CASE UNCHANGED <<wire, serverSub, up>>
      <3>1. WireCarriesHistory' /\ FramesInOrder' /\ WireNeedsSocket'
        BY <2>1, <2>6 DEF FeedInv, WireCarriesHistory, WireIsOrdered, FramesInOrder,
                          WireNeedsSocket
      <3>2. FramesAnnounce' /\ SubscriberIsTold'
        BY <2>1, <2>6 DEF FeedInv, EpochsAreAnnounced, FramesAnnounce, SubscriberIsTold
      <3>3. DeliveredBehindWire'
        BY <1>0, <2>2, <2>6 DEF DeliveredBehindWire
      <3> QED
        BY <2>4, <3>1, <3>2, <3>3 DEF FeedInv, WireIsOrdered, EpochsAreAnnounced
    <2>7. \/ wire' = Append(wire, CurrentSnapshot) /\ up
          \/ UNCHANGED <<wire, serverSub, up>>
      BY <1>5, Zenon DEF Watch, TypeOK
    <2> QED
      BY <2>5, <2>6, <2>7
  <1> QED
    BY <1>1, <1>2, <1>3, <1>4, <1>5

-------------------------------------------------------------------------------
(* The frame at the head of the wire is read, or lost. *)

LEMMA TailKeepsWire ==
  ASSUME TypeOK, FeedInv, wire # <<>>, wire' = Tail(wire),
         UNCHANGED <<version, history, serverSub>>
  PROVE  /\ Len(wire') \in Nat
         /\ Len(wire) = Len(wire') + 1
         /\ \A i \in 1 .. Len(wire') : i + 1 \in 2 .. Len(wire) /\ wire'[i] = wire[i + 1]
         /\ \A e : \A i \in Nat : \A j \in 0 .. Len(wire') :
              Announced(wire, e, i + 2, j + 1) => Announced(wire', e, i + 1, j)
         /\ WireCarriesHistory'
         /\ FramesInOrder'
         /\ FramesAnnounce'
         /\ SubscriberIsTold'
  <1>1. /\ Len(wire') \in Nat
        /\ Len(wire) = Len(wire') + 1
        /\ \A i \in 1 .. Len(wire') : wire'[i] = wire[i + 1]
    BY HeadAndTail
  <1>2. \A i \in 1 .. Len(wire') : i + 1 \in 2 .. Len(wire) /\ i + 1 \in 1 .. Len(wire)
    BY <1>1
  <1>3. ASSUME NEW e, NEW i \in Nat, NEW j \in 0 .. Len(wire'),
               Announced(wire, e, i + 2, j + 1)
        PROVE  Announced(wire', e, i + 1, j)
    <2>1. PICK k \in (i + 2) .. (j + 1) : wire[k].version[1] = e /\ IsNotice(wire[k])
      BY <1>3 DEF Announced
    <2>2. /\ k - 1 \in (i + 1) .. j
          /\ k - 1 \in 1 .. Len(wire')
          /\ (k - 1) + 1 = k
      BY <1>1
    <2>3. wire'[k - 1] = wire[k]
      BY <1>1, <2>2
    <2> QED
      BY <2>1, <2>2, <2>3 DEF Announced
  <1>4. WireCarriesHistory'
    BY <1>1, <1>2 DEF FeedInv, WireCarriesHistory, IsNotice
  <1>5. FramesInOrder'
    <2> SUFFICES ASSUME NEW i \in 1 .. Len(wire'), NEW j \in 1 .. Len(wire'), i < j
                 PROVE  ~Earlier(wire'[j].version, wire'[i].version)
      BY DEF FramesInOrder, Earlier
    <2>1. i + 1 < j + 1
      OBVIOUS
    <2> QED
      BY <1>1, <1>2, <2>1 DEF FeedInv, WireIsOrdered, FramesInOrder
  <1>6. FramesAnnounce'
    <2> SUFFICES ASSUME NEW i \in 1 .. Len(wire'), NEW j \in 1 .. Len(wire'), i < j,
                        wire'[i].version[1] # wire'[j].version[1]
                 PROVE  Announced(wire', wire'[j].version[1], i + 1, j)
      BY DEF FramesAnnounce
    <2>1. i + 1 < j + 1
      OBVIOUS
    <2>2. Announced(wire, wire[j + 1].version[1], (i + 1) + 1, j + 1)
      BY <1>1, <1>2, <2>1 DEF FeedInv, EpochsAreAnnounced, FramesAnnounce
    <2>3. Announced(wire, wire[j + 1].version[1], i + 2, j + 1)
      BY <2>2, (i + 1) + 1 = i + 2
    <2> QED
      BY <1>1, <1>3, <2>3
  <1>7. SubscriberIsTold'
    <2> SUFFICES ASSUME NEW i \in 1 .. Len(wire'), serverSub,
                        wire'[i].version[1] # version[1]
                 PROVE  Announced(wire', version[1], i + 1, Len(wire'))
      BY DEF SubscriberIsTold
    <2>1. Announced(wire, version[1], (i + 1) + 1, Len(wire))
      BY <1>1, <1>2 DEF FeedInv, EpochsAreAnnounced, SubscriberIsTold
    <2>2. Announced(wire, version[1], i + 2, Len(wire') + 1)
      BY <1>1, <2>1, (i + 1) + 1 = i + 2
    <2> QED
      BY <1>1, <1>3, <2>2
  <1> QED
    BY <1>1, <1>2, <1>3, <1>4, <1>5, <1>6, <1>7

\* The engine moves to the book of the head frame and delivers it.
LEMMA AppliedFrameKeepsFeedInv ==
  ASSUME TypeOK, FeedInv, wire # <<>>, wire' = Tail(wire),
         UNCHANGED <<version, history, serverSub, up>>,
         levels' = history[HeadFrame.version],
         lastU' = HeadFrame.version[2],
         epoch' = HeadFrame.version[1],
         delivered' = [version |-> HeadFrame.version, view |-> Display(levels')]
  PROVE  FeedInv'
  <1>1. /\ Len(wire') \in Nat
        /\ Len(wire) = Len(wire') + 1
        /\ \A i \in 1 .. Len(wire') : i + 1 \in 2 .. Len(wire) /\ wire'[i] = wire[i + 1]
        /\ \A e : \A i \in Nat : \A j \in 0 .. Len(wire') :
              Announced(wire, e, i + 2, j + 1) => Announced(wire', e, i + 1, j)
        /\ WireCarriesHistory' /\ FramesInOrder' /\ FramesAnnounce' /\ SubscriberIsTold'
    BY TailKeepsWire
  <1>2. /\ HeadFrame = wire[1]
        /\ 1 \in 1 .. Len(wire)
        /\ HeadFrame.version \in Version
    BY <1>1, HeadAndTail, WireFacts
  <1>3. EngineVersion' = HeadFrame.version
    BY <1>2, VersionParts DEF EngineVersion
  <1>4. delivered'.version = HeadFrame.version
    OBVIOUS
  <1>5. ~Earlier(version, HeadFrame.version)
    BY <1>2 DEF FeedInv, WireCarriesHistory
  <1>6. \A i \in 1 .. Len(wire') : ~Earlier(wire'[i].version, HeadFrame.version)
    <2> SUFFICES ASSUME NEW i \in 1 .. Len(wire')
                 PROVE  ~Earlier(wire[i + 1].version, wire[1].version)
      BY <1>1, <1>2
    <2>1. 1 < i + 1 /\ i + 1 \in 1 .. Len(wire)
      BY <1>1
    <2> QED
      BY <1>2, <2>1 DEF FeedInv, WireIsOrdered, FramesInOrder
  <1>7. WireIsOrdered'
    BY <1>1, <1>3, <1>4, <1>6
       DEF WireIsOrdered, EngineBehindWire, DeliveredBehindWire
  <1>8. ASSUME NEW i \in 1 .. Len(wire'), wire'[i].version[1] # epoch'
        PROVE  Announced(wire', wire'[i].version[1], 1, i)
    <2>1. 1 < i + 1 /\ i + 1 \in 1 .. Len(wire) /\ i \in 0 .. Len(wire')
      BY <1>1
    <2>2. Announced(wire, wire[i + 1].version[1], 1 + 1, i + 1)
      BY <1>1, <1>2, <1>8, <2>1 DEF FeedInv, EpochsAreAnnounced, FramesAnnounce
    <2>3. Announced(wire', wire[i + 1].version[1], 0 + 1, i)
      BY <1>1, <2>1, <2>2, 0 + 2 = 1 + 1
    <2> QED
      BY <1>1, <2>3, 0 + 1 = 1
  <1>9. ASSUME serverSub, epoch' # version[1]
        PROVE  Announced(wire', version[1], 1, Len(wire'))
    <2>1. Announced(wire, version[1], 1 + 1, Len(wire') + 1)
      BY <1>1, <1>2, <1>9 DEF FeedInv, EpochsAreAnnounced, SubscriberIsTold
    <2>2. Announced(wire', version[1], 0 + 1, Len(wire'))
      BY <1>1, <2>1, 0 + 2 = 1 + 1
    <2> QED
      BY <2>2, 0 + 1 = 1
  <1>10. EpochsAreAnnounced'
    BY <1>1, <1>8, <1>9 DEF EpochsAreAnnounced, EngineIsTold
  <1>11. EngineHoldsHistory' /\ DeliveredIsPast' /\ DeliveredIsExchangeBook'
    BY <1>2, <1>3, <1>4, <1>5
       DEF EngineHoldsHistory, DeliveredIsPast, DeliveredIsExchangeBook
  <1>12. WireNeedsSocket'
    BY <1>1 DEF FeedInv, WireNeedsSocket
  <1> QED
    BY <1>1, <1>7, <1>10, <1>11, <1>12 DEF FeedInv

\* The head frame leaves an engine that would deliver nothing, and delivers nothing.
LEMMA DroppedFrameKeepsFeedInv ==
  ASSUME TypeOK, FeedInv, wire # <<>>, wire' = Tail(wire),
         UNCHANGED <<version, history, serverSub, up, delivered>>,
         ~Synced'
  PROVE  FeedInv'
  <1>1. /\ Len(wire') \in Nat
        /\ Len(wire) = Len(wire') + 1
        /\ \A i \in 1 .. Len(wire') : i + 1 \in 2 .. Len(wire) /\ wire'[i] = wire[i + 1]
        /\ WireCarriesHistory' /\ FramesInOrder' /\ FramesAnnounce' /\ SubscriberIsTold'
    BY TailKeepsWire
  <1>2. \A i \in 1 .. Len(wire') : i + 1 \in 1 .. Len(wire)
    BY <1>1
  <1>3. DeliveredBehindWire'
    BY <1>1, <1>2 DEF FeedInv, WireIsOrdered, DeliveredBehindWire
  <1>4. EngineBehindWire' /\ EngineIsTold' /\ EngineHoldsHistory'
    BY DEF EngineBehindWire, EngineIsTold, EngineHoldsHistory
  <1>5. DeliveredIsPast' /\ DeliveredIsExchangeBook'
    BY DEF FeedInv, DeliveredIsPast, DeliveredIsExchangeBook, NothingDelivered
  <1>6. WireNeedsSocket'
    BY <1>1 DEF FeedInv, WireNeedsSocket
  <1> QED
    BY <1>1, <1>3, <1>4, <1>5, <1>6 DEF FeedInv, WireIsOrdered, EpochsAreAnnounced

\* A clean engine loses a frame of its own epoch: the next delta shows the gap.
LEMMA LoseFrameKeepsFeedInv == TypeOK /\ FeedInv /\ LoseFrame => FeedInv'
  <1> SUFFICES ASSUME TypeOK, FeedInv, LoseFrame
               PROVE  FeedInv'
    OBVIOUS
  <1>1. /\ wire # <<>> /\ wire' = Tail(wire)
        /\ UNCHANGED <<version, history, serverSub, up, delivered, epoch, levels>>
        /\ Synced' = Synced
        /\ EngineVersion' = EngineVersion
    BY DEF LoseFrame, Synced, EngineVersion, engineVars
  <1>2. CASE ~Synced
    BY <1>1, <1>2, DroppedFrameKeepsFeedInv
  <1>3. CASE Synced
    <2>1. /\ Len(wire') \in Nat
          /\ Len(wire) = Len(wire') + 1
          /\ \A i \in 1 .. Len(wire') : i + 1 \in 2 .. Len(wire) /\ wire'[i] = wire[i + 1]
          /\ WireCarriesHistory' /\ FramesInOrder' /\ FramesAnnounce' /\ SubscriberIsTold'
      BY <1>1, TailKeepsWire
    <2>2. HeadFrame = wire[1]
      BY <1>1, HeadAndTail
    <2>3. wire[1].version[1] = epoch
      <3>1. EngineVersion \in Version
        BY <1>3 DEF FeedInv, EngineHoldsHistory
      <3>2. epoch # 0
        BY <3>1, FeedAssumption DEF EngineVersion, Version
      <3> QED
        BY <1>3, <2>2, <3>2 DEF LoseFrame, Synced
    <2>4. \A i \in 1 .. Len(wire') : i + 1 \in 1 .. Len(wire)
      BY <2>1
    <2>5. WireIsOrdered'
      BY <1>1, <1>3, <2>1, <2>4
         DEF FeedInv, WireIsOrdered, EngineBehindWire, DeliveredBehindWire
    <2>6. ASSUME NEW e, e # epoch, NEW j \in 0 .. Len(wire'),
                 Announced(wire, e, 1, j + 1)
          PROVE  Announced(wire', e, 1, j)
      <3>1. PICK k \in 1 .. (j + 1) : wire[k].version[1] = e /\ IsNotice(wire[k])
        BY <2>6 DEF Announced
      <3>2. k # 1
        BY <2>3, <2>6, <3>1
      <3>3. k - 1 \in 1 .. j /\ k - 1 \in 1 .. Len(wire') /\ (k - 1) + 1 = k
        BY <2>1, <3>2
      <3>4. wire'[k - 1] = wire[k]
        BY <2>1, <3>3
      <3> QED
        BY <3>1, <3>3, <3>4 DEF Announced
    <2>7. ASSUME NEW i \in 1 .. Len(wire'), wire'[i].version[1] # epoch
          PROVE  Announced(wire', wire'[i].version[1], 1, i)
      <3>1. Announced(wire, wire[i + 1].version[1], 1, i + 1)
        BY <1>3, <2>1, <2>4, <2>7 DEF FeedInv, EpochsAreAnnounced, EngineIsTold
      <3> QED
        BY <2>1, <2>6, <2>7, <3>1, i \in 0 .. Len(wire')
    <2>8. ASSUME serverSub, epoch # version[1]
          PROVE  Announced(wire', version[1], 1, Len(wire'))
      <3>1. Announced(wire, version[1], 1, Len(wire') + 1)
        BY <1>3, <2>1, <2>8 DEF FeedInv, EpochsAreAnnounced, EngineIsTold
      <3> QED
        BY <2>1, <2>6, <2>8, <3>1, Len(wire') \in 0 .. Len(wire')
    <2>9. EpochsAreAnnounced'
      BY <1>1, <2>1, <2>7, <2>8 DEF EpochsAreAnnounced, EngineIsTold
    <2>10. EngineHoldsHistory' /\ DeliveredIsPast' /\ DeliveredIsExchangeBook'
      BY <1>1 DEF FeedInv, EngineHoldsHistory, DeliveredIsPast,
                  DeliveredIsExchangeBook, NothingDelivered
    <2>11. WireNeedsSocket'
      BY <1>1, <2>1 DEF FeedInv, WireNeedsSocket
    <2> QED
      BY <2>1, <2>5, <2>9, <2>10, <2>11 DEF FeedInv
  <1> QED
    BY <1>2, <1>3

\* An engine that is as deep as the topic keeps the exchange's books whole.
LEMMA ViewIsKeptWhole ==
  ASSUME WireDepth <= MaxDepth, NEW b \in View
  PROVE  KeepBest(b, MaxDepth) = b
  BY KeepBestOfShallowBook, BookAssumption, FeedAssumption DEF View

LEMMA ReadFrameKeepsFeedInv ==
  WireDepth <= MaxDepth /\ TypeOK /\ FeedInv /\ ReadFrame => FeedInv'
  <1> SUFFICES ASSUME WireDepth <= MaxDepth, TypeOK, FeedInv, ReadFrame
               PROVE  FeedInv'
    OBVIOUS
  <1>1. /\ wire # <<>> /\ wire' = Tail(wire)
        /\ UNCHANGED <<version, history, serverSub, up, watching>>
    BY DEF ReadFrame
  <1>2. /\ HeadFrame = wire[1]
        /\ 1 \in 1 .. Len(wire)
        /\ HeadFrame.type \in {"snapshot", "delta"}
        /\ HeadFrame.version \in Version
        /\ history[HeadFrame.version] \in View
        /\ KeepBest(history[HeadFrame.version], MaxDepth) = history[HeadFrame.version]
    BY <1>1, HeadAndTail, ViewIsKeptWhole DEF TypeOK, Frame
  <1>3. CASE ReadSnapshot
    <2>1. HeadFrame.type = "snapshot"
      BY <1>2, <1>3 DEF ReadSnapshot
    <2>2. HeadFrame.rows = history[HeadFrame.version]
      BY <1>2, <2>1 DEF FeedInv, WireCarriesHistory
    <2>3. FromRows(HeadFrame.rows) = history[HeadFrame.version]
      BY <1>2, <2>2, FromRowsOfBook, ViewIsBook
    <2>4. /\ levels' = history[HeadFrame.version]
          /\ lastU' = HeadFrame.version[2]
          /\ epoch' = HeadFrame.version[1]
          /\ delivered' = [version |-> HeadFrame.version, view |-> Display(levels')]
      BY <1>2, <1>3, <2>3 DEF ReadSnapshot, ApplySnapshot, DeliverIfClean
    <2> QED
      BY <1>1, <2>4, AppliedFrameKeepsFeedInv
  <1>4. CASE ReadDelta
    <2>1. /\ Gap(HeadFrame.version[2]) = "none"
          /\ levels' = KeepBest(Override(levels, HeadFrame.rows), MaxDepth)
          /\ lastU' = HeadFrame.version[2]
          /\ UNCHANGED <<primed, dirty>>
          /\ epoch' = HeadFrame.version[1]
          /\ HeadFrame.type = "delta"
          /\ watching
      BY <1>4 DEF ReadDelta, AcceptDelta
    <2>2. CASE dirty
      <3>1. UNCHANGED delivered /\ ~Synced'
        BY <1>4, <2>1, <2>2 DEF ReadDelta, DeliverIfClean, Synced
      <3> QED
        BY <1>1, <3>1, DroppedFrameKeepsFeedInv
    <2>3. CASE ~dirty
      <3>1. primed /\ HeadFrame.version[2] # 1 /\ HeadFrame.version[2] = lastU + 1
        BY <2>1 DEF Gap
      <3>2. HeadFrame.version[2] \in Nat /\ lastU \in Nat
        BY <1>2, VersionParts, FeedAssumption DEF TypeOK, EngineTypeOK
      <3>3. Synced
        BY <2>1, <2>3, <3>1, <3>2 DEF Synced
      <3>4. ~IsNotice(HeadFrame)
        BY <2>1, <3>1 DEF IsNotice
      <3>5. HeadFrame.version[1] = epoch
        <4>1. ~Announced(wire, wire[1].version[1], 1, 1)
          BY <1>2, <3>4 DEF Announced
        <4> QED
          BY <1>2, <3>3, <4>1 DEF FeedInv, EpochsAreAnnounced, EngineIsTold
      <3>6. <<HeadFrame.version[1], HeadFrame.version[2] - 1>> = EngineVersion
        BY <3>1, <3>2, <3>5 DEF EngineVersion
      <3>7. levels = history[EngineVersion]
        BY <3>3 DEF FeedInv, EngineHoldsHistory
      <3>8. history[HeadFrame.version] = Override(levels, HeadFrame.rows)
        BY <1>2, <3>4, <3>6, <3>7 DEF FeedInv, WireCarriesHistory
      <3>9. /\ levels' = history[HeadFrame.version]
            /\ delivered' = [version |-> HeadFrame.version, view |-> Display(levels')]
        BY <1>2, <1>4, <2>1, <2>3, <3>8 DEF ReadDelta, DeliverIfClean
      <3> QED
        BY <1>1, <2>1, <3>9, AppliedFrameKeepsFeedInv
    <2> QED
      BY <2>2, <2>3
  <1>5. CASE ReadGap
    <2>1. UNCHANGED delivered /\ ~Synced'
      BY <1>5 DEF ReadGap, RejectDelta, Synced
    <2> QED
      BY <1>1, <2>1, DroppedFrameKeepsFeedInv
  <1>6. CASE ReadUnregistered
    <2>1. UNCHANGED delivered /\ ~Synced'
      BY <1>1, <1>6 DEF ReadUnregistered, Synced
    <2> QED
      BY <1>1, <2>1, DroppedFrameKeepsFeedInv
  <1> QED
    BY <1>3, <1>4, <1>5, <1>6 DEF ReadFrame

-------------------------------------------------------------------------------
(* The theorems. *)

LEMMA FeedInvInitially == Init => FeedInv
  <1> SUFFICES ASSUME Init
               PROVE  FeedInv
    OBVIOUS
  <1>1. Len(wire) = 0 /\ wire = <<>> /\ ~Synced /\ ~serverSub
    BY DEF Init, EngineInit, Synced
  <1>2. delivered = NothingDelivered /\ delivered.version = <<0, 0>> /\ version = <<1, 1>>
    BY DEF Init, NothingDelivered
  <1>3. WireCarriesHistory /\ WireIsOrdered
    BY <1>1 DEF WireCarriesHistory, WireIsOrdered, FramesInOrder, EngineBehindWire,
                DeliveredBehindWire
  <1>4. EpochsAreAnnounced
    BY <1>1 DEF EpochsAreAnnounced, FramesAnnounce, SubscriberIsTold, EngineIsTold
  <1>5. EngineHoldsHistory /\ DeliveredIsPast /\ DeliveredIsExchangeBook
    BY <1>1, <1>2 DEF EngineHoldsHistory, DeliveredIsPast, DeliveredIsExchangeBook, Earlier
  <1> QED
    BY <1>1, <1>3, <1>4, <1>5 DEF FeedInv, WireNeedsSocket

LEMMA FeedInvStuttering == FeedInv /\ UNCHANGED vars => FeedInv'
  <1> SUFFICES ASSUME FeedInv, UNCHANGED vars
               PROVE  FeedInv'
    OBVIOUS
  <1> USE DEF vars, engineVars, feedVars, Synced, EngineVersion
  <1>1. WireCarriesHistory' /\ WireIsOrdered'
    BY DEF FeedInv, WireCarriesHistory, WireIsOrdered, FramesInOrder, EngineBehindWire,
           DeliveredBehindWire
  <1>2. EpochsAreAnnounced'
    BY DEF FeedInv, EpochsAreAnnounced, FramesAnnounce, SubscriberIsTold, EngineIsTold
  <1>3. /\ EngineHoldsHistory' /\ DeliveredIsPast' /\ WireNeedsSocket'
        /\ DeliveredIsExchangeBook'
    BY DEF FeedInv, EngineHoldsHistory, DeliveredIsPast, WireNeedsSocket,
           DeliveredIsExchangeBook, NothingDelivered
  <1> QED
    BY <1>1, <1>2, <1>3 DEF FeedInv

\* The inductive invariant of the feed: frames, engine and exchange agree, provided
\* the engine keeps as many levels as the topic shows (Config.Orderbook.MaxDepth).
THEOREM FeedInvariant == WireDepth <= MaxDepth => (Spec => []FeedInv)
  <1> SUFFICES ASSUME WireDepth <= MaxDepth
               PROVE  Spec => []FeedInv
    OBVIOUS
  <1>1. TypeOK /\ FeedInv /\ [Next]_vars => FeedInv'
    BY ExchangeKeepsFeedInv, PushSnapshotKeepsFeedInv, ConnectionKeepsFeedInv,
       ReadFrameKeepsFeedInv, LoseFrameKeepsFeedInv, FeedInvStuttering DEF Next
  <1> QED
    BY <1>1, FeedInvInitially, TypeCorrect, PTL DEF Spec

\* The handler of WatchOrderBook is only given books of the exchange
\* (linears/stream.go:186-240), for every depth, book and interleaving.
THEOREM DeliveredIsCorrect ==
    WireDepth <= MaxDepth => (Spec => []DeliveredIsExchangeBook)
  <1>1. FeedInv => DeliveredIsExchangeBook
    BY DEF FeedInv
  <1> QED
    BY <1>1, FeedInvariant, PTL

\* What the handler of WatchOrderBook is given never goes back in the exchange's
\* time: stale frames of an older socket or epoch are not delivered after newer ones.
THEOREM DeliveryMovesForward ==
    WireDepth <= MaxDepth => (Spec => DeliveredMovesForward)
  <1> SUFFICES ASSUME WireDepth <= MaxDepth
               PROVE  Spec => DeliveredMovesForward
    OBVIOUS
  <1> DEFINE Forward == delivered' # NothingDelivered =>
                            ~Earlier(delivered'.version, delivered.version)
  <1>1. TypeOK /\ FeedInv /\ [Next]_vars => [Forward]_vars
    <2> SUFFICES ASSUME TypeOK, FeedInv, Next
                 PROVE  Forward
      OBVIOUS
    <2>1. ~Earlier(delivered.version, delivered.version)
      BY WireFacts DEF Earlier
    <2>2. CASE UNCHANGED delivered
      BY <2>1, <2>2
    <2>3. CASE Watch
      BY <2>3 DEF Watch
    <2>4. CASE ReadFrame
      <3>1. HeadFrame = wire[1] /\ 1 \in 1 .. Len(wire)
        BY <2>4, HeadAndTail DEF ReadFrame
      <3>2. ~Earlier(HeadFrame.version, delivered.version)
        BY <3>1 DEF FeedInv, WireIsOrdered, DeliveredBehindWire
      <3>3. \/ UNCHANGED delivered
            \/ delivered'.version = HeadFrame.version
        BY <2>4 DEF ReadFrame, ReadSnapshot, ReadDelta, ReadGap, ReadUnregistered,
                    DeliverIfClean
      <3> QED
        BY <2>1, <3>2, <3>3
    <2> QED
      BY <2>2, <2>3, <2>4
         DEF Next, ExchangeUpdate, ServiceRestart, PushSnapshot, Connect, Disconnect,
             Unsubscribe, LoseFrame
  <1> QED
    BY <1>1, TypeCorrect, FeedInvariant, PTL DEF Spec, DeliveredMovesForward

===============================================================================
