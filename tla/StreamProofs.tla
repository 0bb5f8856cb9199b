----------------------------- MODULE StreamProofs -----------------------------
(***************************************************************************)
(* Theorems about Streams for whatever a program may watch and however     *)
(* often it watches, and any number of frames and of broken connections:   *)
(* keys stay in their environment, an unsubscribed topic is quiet, tickers *)
(* are whole, and rows reach their handlers in the order of the exchange.  *)
(***************************************************************************)
EXTENDS Streams, SequenceTheorems, WellFoundedInduction, TLAPS

\* A set of natural numbers that is not empty has a least element.
LEMMA LeastIndexExists ==
  ASSUME NEW S \in SUBSET Nat, S # {}
  PROVE  \E m \in S : \A n \in S : m <= n
<1>1. PICK m \in S : \A n \in S : <<n, m>> \notin OpToRel(<, Nat)
  BY NatLessThanWellFounded, WFMin, Zenon
<1>2. \A n \in S : ~ (n < m)
  BY <1>1 DEF OpToRel
<1>3. QED
  BY <1>2

\* Sequences are joined in any order.
LEMMA JoinIsAssociative ==
  ASSUME NEW S, NEW a \in Seq(S), NEW b \in Seq(S), NEW c \in Seq(S)
  PROVE  a \o (b \o c) = (a \o b) \o c
  BY ConcatAssociative, SMTT(30)

\* The sequences of the first elements of seqs, one after the other.
Flat(seqs, f) == [i \in 1 .. Len(seqs) |-> IF i = 1 THEN seqs[i] ELSE f[i - 1] \o seqs[i]]

\* There is such a function ...
LEMMA FlatExists ==
  ASSUME NEW S, NEW seqs \in Seq(Seq(S))
  PROVE  \E f : f = Flat(seqs, f)
<1> DEFINE Upto(n, f) == f = [i \in 1 .. n |-> IF i = 1 THEN seqs[i] ELSE f[i - 1] \o seqs[i]]
           last == Len(seqs)
<1>1. last \in Nat
  OBVIOUS
<1>0. \A f : Upto(last, f) <=> f = Flat(seqs, f)
  BY DEF Flat
<1> HIDE DEF Upto, last
<1> DEFINE Bad == {n \in 0 .. last : ~ \E f : Upto(n, f)}
<1>2. SUFFICES ASSUME Bad # {} PROVE FALSE
  <2>0. last \in 0 .. last
    BY <1>1
  <2>1. Bad = {} => \E f : Upto(last, f)
    BY <2>0, Zenon
  <2>2. QED
    BY <1>0, <2>1
<1>3. PICK m \in Bad : \A n \in Bad : m <= n
  <2>1. Bad \in SUBSET Nat
    BY <1>1
  <2> HIDE DEF Bad
  <2>2. QED
    BY <1>2, <2>1, LeastIndexExists
<1>4. m \in 0 .. last /\ ~ \E g : Upto(m, g)
  OBVIOUS
<1>5. CASE m = 0
  <2> DEFINE g == [i \in 1 .. 0 |-> <<>>]
  <2>1. Upto(0, g)
    BY DEF Upto
  <2>2. QED
    BY <1>4, <1>5, <2>1
<1>6. CASE m # 0
  <2>1. m - 1 \in 0 .. last /\ m - 1 \notin Bad /\ m \in Nat \ {0}
    <3> HIDE DEF Bad
    <3>1. m - 1 \in 0 .. last /\ m \in Nat \ {0} /\ ~ (m <= m - 1)
      BY <1>1, <1>4, <1>6
    <3>2. QED
      BY <3>1, <1>3
  <2>2. PICK f : Upto(m - 1, f)
    BY <2>1
  <2> DEFINE g == [i \in 1 .. m |-> IF i < m THEN f[i]
                                    ELSE IF i = 1 THEN seqs[i] ELSE f[m - 1] \o seqs[i]]
  <2>3. \A i \in 1 .. m : g[i] = IF i = 1 THEN seqs[i] ELSE g[i - 1] \o seqs[i]
    <3> TAKE i \in 1 .. m
    <3>1. CASE i = m
      <4>1. i # 1 => m - 1 \in 1 .. m /\ m - 1 < m /\ i - 1 = m - 1 /\ ~ (i < m)
        BY <3>1, <2>1
      <4>2. i # 1 => g[i - 1] = f[m - 1] /\ g[i] = f[m - 1] \o seqs[i]
        BY <3>1, <4>1, Zenon
      <4>3. i = 1 => g[i] = seqs[i]
        BY <3>1, <2>1
      <4>4. QED
        BY <4>2, <4>3, Zenon
    <3>2. CASE i # m
      <4>1. i \in 1 .. m - 1 /\ i < m /\ (i # 1 => i - 1 \in 1 .. m /\ i - 1 < m)
        BY <3>2, <2>1
      <4>2. f[i] = IF i = 1 THEN seqs[i] ELSE f[i - 1] \o seqs[i]
        BY <2>2, <4>1, Zenon DEF Upto
      <4>3. g[i] = f[i] /\ (i # 1 => g[i - 1] = f[i - 1])
        BY <4>1, Zenon
      <4>4. QED
        BY <4>2, <4>3, Zenon
    <3>3. QED
      BY <3>1, <3>2, Zenon
  <2>4. Upto(m, g)
    <3>1. g = [i \in 1 .. m |-> g[i]]
      OBVIOUS
    <3> HIDE DEF g
    <3>2. QED
      BY <2>3, <3>1, Zenon DEF Upto
  <2>5. QED
    BY <1>4, <2>4, Zenon
<1>7. QED
  BY <1>5, <1>6

\* ... and only one, with sequences of elements as values.
LEMMA FlatIsSeq ==
  ASSUME NEW S, NEW seqs \in Seq(Seq(S)), NEW f, f = Flat(seqs, f), NEW i \in 1 .. Len(seqs)
  PROVE  f[i] \in Seq(S)
<1> DEFINE Bad == {n \in 1 .. Len(seqs) : f[n] \notin Seq(S)}
<1>1. SUFFICES ASSUME Bad # {} PROVE FALSE
  OBVIOUS
<1>2. PICK m \in Bad : \A n \in Bad : m <= n
  <2>1. Bad \in SUBSET Nat
    OBVIOUS
  <2> HIDE DEF Bad
  <2>2. QED
    BY <1>1, <2>1, LeastIndexExists
<1>3. m \in 1 .. Len(seqs) /\ f[m] \notin Seq(S) /\ seqs[m] \in Seq(S)
  OBVIOUS
<1>4. f[m] = IF m = 1 THEN seqs[m] ELSE f[m - 1] \o seqs[m]
  BY <1>3, Zenon DEF Flat
<1>5. m # 1
  BY <1>3, <1>4
<1>6. f[m - 1] \in Seq(S)
  <2>1. m - 1 \in 1 .. Len(seqs) /\ ~ (m <= m - 1)
    BY <1>3, <1>5
  <2>2. m - 1 \notin Bad
    BY <2>1, <1>2
  <2>3. QED
    BY <2>1, <2>2
<1>7. f[m] \in Seq(S)
  BY <1>3, <1>4, <1>5, <1>6, ConcatProperties, Zenon
<1>8. QED
  BY <1>3, <1>7

\* f joins the first n sequences of seqs, step by step.
Joins(f, seqs, n) ==
    \A i \in 1 .. n : f[i] = IF i = 1 THEN seqs[i] ELSE f[i - 1] \o seqs[i]

\* ... and only one.
LEMMA FlatIsUnique ==
  ASSUME NEW seqs, NEW n \in Nat, NEW f, NEW g, Joins(f, seqs, n), Joins(g, seqs, n)
  PROVE  \A i \in 1 .. n : f[i] = g[i]
<1> DEFINE Bad == {i \in 1 .. n : f[i] # g[i]}
<1>1. SUFFICES ASSUME Bad # {} PROVE FALSE
  OBVIOUS
<1>2. PICK m \in Bad : \A i \in Bad : m <= i
  <2>1. Bad \in SUBSET Nat
    OBVIOUS
  <2> HIDE DEF Bad
  <2>2. QED
    BY <1>1, <2>1, LeastIndexExists
<1>3. m \in 1 .. n /\ f[m] # g[m]
  OBVIOUS
<1>4. m # 1
  BY <1>3, Zenon DEF Joins
<1>5. f[m - 1] = g[m - 1]
  <2>1. m - 1 \in 1 .. n /\ ~ (m <= m - 1)
    BY <1>3, <1>4
  <2>2. m - 1 \notin Bad
    BY <2>1, <1>2
  <2>3. QED
    BY <2>1, <2>2
<1>6. QED
  BY <1>3, <1>4, <1>5, Zenon DEF Joins

\* What FlattenSeq gives is the last of the joins.
LEMMA FlattenIsFlat ==
  ASSUME NEW S, NEW seqs \in Seq(Seq(S)), Len(seqs) # 0, NEW f, Joins(f, seqs, Len(seqs))
  PROVE  FlattenSeq(seqs) = f[Len(seqs)]
<1> DEFINE g == CHOOSE h : h = Flat(seqs, h)
<1>1. g = Flat(seqs, g)
  BY FlatExists, Zenon
<1>2. FlattenSeq(seqs) = g[Len(seqs)]
  BY DEF FlattenSeq, Flat
<1> HIDE DEF g
<1>3. \A i \in 1 .. Len(seqs) : g[i] = IF i = 1 THEN seqs[i] ELSE g[i - 1] \o seqs[i]
  BY <1>1, Zenon DEF Flat
<1> DEFINE n == Len(seqs)
<1>4. n \in 0 .. Len(seqs) /\ n \in 1 .. n
  OBVIOUS
<1>5. \A i \in 1 .. n : f[i] = g[i]
  <2>1. n \in Nat /\ Joins(f, seqs, n)
    OBVIOUS
  <2>2. Joins(g, seqs, n)
    BY <1>3 DEF Joins
  <2> HIDE DEF n
  <2>3. \A h, k : Joins(h, seqs, n) /\ Joins(k, seqs, n) => \A i \in 1 .. n : h[i] = k[i]
    BY <2>1, FlatIsUnique
  <2>4. QED
    BY <2>1, <2>2, <2>3, Zenon
<1>6. QED
  BY <1>2, <1>4, <1>5, Zenon

\* No sequences join to the empty one.
LEMMA FlattenEmpty == FlattenSeq(<<>>) = <<>>
  BY DEF FlattenSeq

\* Sequences over S join to a sequence over S.
LEMMA FlattenIsSeq ==
  ASSUME NEW S, NEW seqs \in Seq(Seq(S))
  PROVE  FlattenSeq(seqs) \in Seq(S)
<1>1. CASE Len(seqs) = 0
  <2>1. seqs = <<>> /\ <<>> \in Seq(S)
    BY <1>1
  <2>2. QED
    BY <2>1, FlattenEmpty, Zenon
<1>2. CASE Len(seqs) # 0
  <2>1. PICK f : f = Flat(seqs, f)
    BY FlatExists
  <2>2. Joins(f, seqs, Len(seqs))
    BY <2>1, Zenon DEF Flat, Joins
  <2>3. FlattenSeq(seqs) = f[Len(seqs)]
    BY <1>2, <2>2, FlattenIsFlat, Zenon
  <2>4. Len(seqs) \in 1 .. Len(seqs)
    BY <1>2
  <2>5. QED
    BY <2>1, <2>3, <2>4, FlatIsSeq, Zenon
<1>3. QED
  BY <1>1, <1>2

\* The sequence that is appended comes last.
LEMMA FlattenAppend ==
  ASSUME NEW S, NEW seqs \in Seq(Seq(S)), NEW s \in Seq(S)
  PROVE  FlattenSeq(Append(seqs, s)) = FlattenSeq(seqs) \o s
<1> DEFINE n == Len(seqs)
           all == Append(seqs, s)
<1>1. n \in Nat /\ all \in Seq(Seq(S)) /\ Len(all) = n + 1 /\ all[n + 1] = s
      /\ \A i \in 1 .. n : all[i] = seqs[i]
  BY AppendProperties
<1> HIDE DEF all
<1>2. PICK f : f = Flat(all, f)
  BY <1>1, FlatExists
<1>3. \A i \in 1 .. n + 1 : f[i] = IF i = 1 THEN all[i] ELSE f[i - 1] \o all[i]
  BY <1>1, <1>2, Zenon DEF Flat
<1>4. FlattenSeq(all) = f[n + 1]
  <2>1. Len(all) # 0 /\ Joins(f, all, Len(all))
    BY <1>1, <1>3 DEF Joins
  <2>2. QED
    BY <1>1, <2>1, FlattenIsFlat, Zenon
<1>5. n + 1 \in 1 .. n + 1 /\ (n + 1) - 1 = n
  BY <1>1
<1>6. CASE n = 0
  <2>1. seqs = <<>> /\ n + 1 = 1
    BY <1>6
  <2>2. FlattenSeq(all) = s
    BY <1>1, <1>3, <1>4, <1>5, <2>1, Zenon
  <2>3. <<>> \o s = s
    OBVIOUS
  <2>4. QED
    BY <2>1, <2>2, <2>3, FlattenEmpty, Zenon DEF all
<1>7. CASE n # 0
  <2>1. n + 1 # 1 /\ \A i \in 1 .. n : i \in 1 .. n + 1
    BY <1>1, <1>7
  <2>2. f[n + 1] = f[n] \o s
    BY <1>1, <1>3, <1>5, <2>1, Zenon
  <2>3. \A i \in 1 .. n : f[i] = IF i = 1 THEN seqs[i] ELSE f[i - 1] \o seqs[i]
    BY <1>1, <1>3, <2>1, Zenon
  <2>4. FlattenSeq(seqs) = f[n]
    <3>1. Joins(f, seqs, n)
      BY <2>3 DEF Joins
    <3>2. QED
      BY <1>7, <3>1, FlattenIsFlat, Zenon
  <2>5. QED
    BY <1>4, <2>2, <2>4, Zenon DEF all
<1>8. QED
  BY <1>6, <1>7

\* The sequence that is put in front comes first.
LEMMA FlattenPrepend ==
  ASSUME NEW S, NEW seqs \in Seq(Seq(S)), NEW s \in Seq(S)
  PROVE  FlattenSeq(<<s>> \o seqs) = s \o FlattenSeq(seqs)
<1> DEFINE n == Len(seqs)
           all == <<s>> \o seqs
<1>1. n \in Nat /\ all \in Seq(Seq(S)) /\ Len(all) = n + 1 /\ all[1] = s
      /\ \A i \in 2 .. n + 1 : all[i] = seqs[i - 1]
  <2>1. <<s>> \in Seq(Seq(S)) /\ Len(<<s>>) = 1 /\ <<s>>[1] = s /\ n \in Nat
    OBVIOUS
  <2>2. /\ all \in Seq(Seq(S)) /\ Len(all) = 1 + n
        /\ \A i \in 1 .. 1 + n : all[i] = IF i <= 1 THEN <<s>>[i] ELSE seqs[i - 1]
    BY <2>1, ConcatProperties
  <2> HIDE DEF all
  <2>3. QED
    BY <2>1, <2>2
<1> HIDE DEF all
<1>2. CASE n = 0
  <2>1. seqs = <<>> /\ all = <<s>>
    <3>1. seqs = <<>>
      BY <1>2
    <3>2. <<s>> \o <<>> = <<s>>
      OBVIOUS
    <3>3. QED
      BY <3>1, <3>2 DEF all
  <2> DEFINE f == [i \in {1} |-> s]
  <2>2. \A i \in 1 .. Len(all) : f[i] = IF i = 1 THEN all[i] ELSE f[i - 1] \o all[i]
    BY <1>1, <1>2
  <2>3. FlattenSeq(all) = s
    <3>1. Len(all) # 0 /\ f[Len(all)] = s /\ Joins(f, all, Len(all))
      BY <1>1, <1>2, <2>2 DEF Joins
    <3> HIDE DEF f
    <3>2. QED
      BY <1>1, <3>1, FlattenIsFlat
  <2>4. s \o <<>> = s
    OBVIOUS
  <2>5. QED
    BY <2>1, <2>3, <2>4, FlattenEmpty, Zenon DEF all
<1>3. CASE n # 0
  <2>1. PICK f : f = Flat(seqs, f)
    BY FlatExists
  <2>2. \A i \in 1 .. n : f[i] = IF i = 1 THEN seqs[i] ELSE f[i - 1] \o seqs[i]
    BY <2>1, Zenon DEF Flat
  <2>3. \A i \in 1 .. n : f[i] \in Seq(S)
    BY <2>1, FlatIsSeq, Zenon
  <2> DEFINE g == [i \in 1 .. n + 1 |-> IF i = 1 THEN s ELSE s \o f[i - 1]]
  <2>4. \A i \in 1 .. n + 1 : g[i] = IF i = 1 THEN all[i] ELSE g[i - 1] \o all[i]
    <3> TAKE i \in 1 .. n + 1
    <3>1. CASE i = 1
      BY <1>1, <3>1
    <3>2. CASE i = 2
      <4>1. 1 \in 1 .. n + 1 /\ 1 \in 1 .. n /\ i - 1 = 1 /\ i # 1 /\ i \in 2 .. n + 1
        BY <1>1, <1>3, <3>2
      <4>2. g[1] = s /\ g[i] = s \o f[1]
        BY <4>1, Zenon
      <4>3. f[1] = all[i]
        BY <1>1, <2>2, <4>1, Zenon
      <4>4. QED
        BY <4>1, <4>2, <4>3, Zenon
    <3>3. CASE i > 2
      <4>1. /\ i - 1 \in 1 .. n + 1 /\ i - 1 \in 1 .. n /\ i - 1 # 1 /\ i # 1 /\ i \in 2 .. n + 1
            /\ (i - 1) - 1 \in 1 .. n
        BY <1>1, <1>3, <3>3
      <4>2. g[i] = s \o f[i - 1] /\ g[i - 1] = s \o f[(i - 1) - 1]
        BY <4>1, Zenon
      <4>3. f[i - 1] = f[(i - 1) - 1] \o all[i]
        BY <1>1, <2>2, <4>1, Zenon
      <4>4. f[(i - 1) - 1] \in Seq(S) /\ all[i] \in Seq(S)
        <5>1. i \in 1 .. Len(all)
          BY <1>1
        <5>2. QED
          BY <1>1, <2>3, <4>1, <5>1
      <4> DEFINE a == f[(i - 1) - 1]
                 b == all[i]
      <4>5. s \o (a \o b) = (s \o a) \o b
        <5> HIDE DEF a, b, g, n
        <5>1. a \in Seq(S) /\ b \in Seq(S) /\ s \in Seq(S)
          BY <4>4 DEF a, b
        <5>2. \A u, v, w \in Seq(S) : u \o (v \o w) = (u \o v) \o w
          BY JoinIsAssociative, SMTT(30)
        <5>3. QED
          BY <5>1, <5>2, Zenon
      <4>6. QED
        BY <4>1, <4>2, <4>3, <4>5, Zenon
    <3>4. i = 1 \/ i = 2 \/ i > 2
      BY <1>1
    <3>5. QED
      BY <3>1, <3>2, <3>3, <3>4, Zenon
  <2>5. FlattenSeq(all) = g[n + 1]
    <3> HIDE DEF g
    <3>1. Len(all) # 0 /\ Len(all) = n + 1 /\ Joins(g, all, n + 1)
      BY <1>1, <2>4 DEF Joins
    <3>2. QED
      BY <1>1, <3>1, FlattenIsFlat, Zenon
  <2>6. g[n + 1] = s \o f[n]
    BY <1>1, <1>3, SMTT(30)
  <2>7. FlattenSeq(seqs) = f[n]
    <3>1. Joins(f, seqs, n)
      BY <2>2 DEF Joins
    <3>2. QED
      BY <1>3, <3>1, FlattenIsFlat, Zenon
  <2>8. QED
    BY <2>5, <2>6, <2>7, Zenon DEF all
<1>4. QED
  BY <1>2, <1>3

-------------------------------------------------------------------------------
(* The configuration and the private connections. *)

\* The configuration is the one NewClient has made, and only a client with keys starts a
\* private connection; Unsubscribe makes one and leaves it unstarted.
KeysInv ==
    /\ given \in GivenConfig
    /\ config = WithDefaults(given)
    /\ link \in [Connection -> {"none", "made", "down", "up", "dead", "closed"}]
    /\ \A c \in Connection :
           link[c] \in {"down", "up", "dead"} /\ c[2] = "private" => config.keys

\* NewClient resolves the configuration, and nothing is connected.
LEMMA KeysInit == StreamInit => KeysInv
  BY DEF StreamInit, KeysInv, Connection

\* A private connection is started only with keys.
LEMMA WatchKeepsKeys ==
  ASSUME KeysInv, NEW c \in Connection, NEW t, Watch(c, t)
  PROVE  KeysInv'
  BY DEF KeysInv, Watch, clientVars

\* A profile has two connections.
LEMMA ConnectionsOf ==
  ASSUME NEW p \in Profile
  PROVE  <<p, "public">> \in Connection /\ <<p, "private">> \in Connection
  BY DEF Connection

\* The Watch methods, all of them.
WatchStep ==
    \E c \in Connection, t \in Topic : Watch(c, t)

\* Steps of the exchange, of the read loops and of the root client.
QuietStep ==
    \/ \E p \in Profile : Accessor(p)
    \/ \E c \in Connection : Read(c)
    \/ \E p \in Profile, changed \in (SUBSET Field) \ {{}} : ChangeTicker(p, changed)
    \/ \E t \in Topic \ {"tickers"} : \E categories \in Categories(t) : PushRows(t, categories)

\* Steps that close or break a connection.
LinkStep ==
    \/ \E p \in Profile : Close(p)
    \/ \E c \in Connection : Break(c) \/ ContextDone(c)

\* The steps of the stream clients by kind.
LEMMA StreamCases ==
  ASSUME StreamNext
  PROVE  \/ WatchStep \/ QuietStep \/ LinkStep
         \/ \E t \in Topic : Unsubscribe(t)
         \/ \E c \in Connection : Connect(c) \/ Handle(c)
<1>1. "linear" \in Profile /\ "spot" \in Profile
  BY DEF Profile
<1>2. {"tickers", "publicTrade", "kline", "order", "position", "execution", "wallet"}
          \subseteq Topic
  BY DEF Topic, PrivateTopic
<1>3. CASE \/ WatchTicker \/ WatchTrades \/ WatchKline
           \/ SpotWatchTicker \/ SpotWatchTrades \/ SpotWatchKline
  BY <1>1, <1>2, <1>3, ConnectionsOf
     DEF WatchStep, WatchTicker, WatchTrades, WatchKline, SpotWatchTicker, SpotWatchTrades,
         SpotWatchKline
<1>4. CASE \/ WatchOrders \/ WatchPositions \/ WatchExecutions \/ WatchWallet
           \/ SpotWatchOrders \/ SpotWatchExecutions \/ SpotWatchWallet
  BY <1>1, <1>2, <1>4, ConnectionsOf
     DEF WatchStep, WatchOrders, WatchPositions, WatchExecutions, WatchWallet, SpotWatchOrders,
         SpotWatchExecutions, SpotWatchWallet
<1>5. QED
  BY <1>3, <1>4, Zenon DEF StreamNext, QuietStep, LinkStep

\* No step changes the configuration or starts a private connection without keys.
LEMMA KeysStep ==
  ASSUME KeysInv, [StreamNext]_streamVars
  PROVE  KeysInv'
<1>1. CASE WatchStep
  BY <1>1, WatchKeepsKeys DEF WatchStep
<1>2. CASE QuietStep
  BY <1>2 DEF QuietStep, KeysInv, Accessor, Read, ChangeTicker, PushRows, clientVars
<1>3. CASE LinkStep
  BY <1>3 DEF LinkStep, KeysInv, Close, Break, ContextDone, clientVars
<1>4. ASSUME NEW t \in Topic, Unsubscribe(t)
      PROVE  KeysInv'
  BY <1>4 DEF KeysInv, Unsubscribe, clientVars
<1>5. ASSUME NEW c \in Connection, Connect(c) \/ Handle(c)
      PROVE  KeysInv'
  BY <1>5 DEF KeysInv, Connect, Handle, clientVars
<1>6. CASE UNCHANGED streamVars
  BY <1>6 DEF streamVars, clientVars, KeysInv
<1>7. QED
  BY <1>1, <1>2, <1>3, <1>4, <1>5, <1>6, StreamCases

\* A resolved configuration has one environment for keys and private streams.
LEMMA KeysInvSuffices ==
  ASSUME KeysInv
  PROVE  KeysStayAtHome
  BY DEF KeysInv, KeysStayAtHome, WithDefaults, GivenConfig, ResolveEndpoint, EndpointsFor,
         DefaultURL, TestnetURL, DemoURL, Place, URLOf

\* Keys of one environment are never used at another, whatever the flags and URLs of the
\* configuration and whatever is watched. (NewClient, privateConn, Unsubscribe)
THEOREM KeysAreAtHome == StreamSpec => []KeysStayAtHome
<1>1. KeysInv /\ [StreamNext]_streamVars => KeysInv'
  BY KeysStep
<1>2. QED
  BY <1>1, KeysInit, KeysInvSuffices, PTL DEF StreamSpec

-------------------------------------------------------------------------------
(* Topics and handlers. *)

\* A topic is registered only on its own connection and while the program wants it, and a
\* frame is in hand only if its topic is registered.
QuietInv ==
    /\ watch \in SUBSET (Profile \X Topic)
    /\ subs \in [Connection -> SUBSET Topic]
    /\ DOMAIN hand = Connection
    /\ DOMAIN told = Profile
    /\ DOMAIN heard = watch
    /\ \A c \in Connection, t \in Topic :
           t \in subs[c] => /\ c = <<c[1], Route(t)>>
                           /\ <<c[1], t>> \in wanted \intersect watch
    /\ \A c \in Connection : hand[c] # Idle => hand[c].topic \in subs[c]

\* Nothing is registered at first.
LEMMA QuietInit == StreamInit => QuietInv
  BY WatchAssumption DEF StreamInit, QuietInv

\* A topic in hand is registered, hence wanted.
LEMMA RegisteredTopic ==
  ASSUME QuietInv, NEW c \in Connection, hand[c] # Idle
  PROVE  /\ hand[c].topic \in Topic
         /\ <<c[1], hand[c].topic>> \in wanted \intersect watch
  BY DEF QuietInv

\* Watch is called with the connection of its topic.
RoutedWatchStep ==
    \E p \in Profile, t \in Topic : Watch(<<p, Route(t)>>, t)

\* The steps by kind, with every Watch on the connection of its topic.
LEMMA WatchIsRouted ==
  ASSUME StreamNext
  PROVE  \/ RoutedWatchStep \/ QuietStep \/ LinkStep
         \/ \E t \in Topic : Unsubscribe(t)
         \/ \E c \in Connection : Connect(c) \/ Handle(c)
<1>1. "linear" \in Profile /\ "spot" \in Profile
  BY DEF Profile
<1>2. {"tickers", "publicTrade", "kline", "order", "position", "execution", "wallet"}
          \subseteq Topic
  BY DEF Topic, PrivateTopic
<1>3. CASE \/ WatchTicker \/ WatchTrades \/ WatchKline
           \/ SpotWatchTicker \/ SpotWatchTrades \/ SpotWatchKline
  <2>1. \A t \in {"tickers", "publicTrade", "kline"} : Route(t) = "public"
    BY DEF Route, PrivateTopic
  <2>2. QED
    BY <1>1, <1>2, <1>3, <2>1
       DEF RoutedWatchStep, WatchTicker, WatchTrades, WatchKline, SpotWatchTicker,
           SpotWatchTrades, SpotWatchKline
<1>4. CASE \/ WatchOrders \/ WatchPositions \/ WatchExecutions \/ WatchWallet
           \/ SpotWatchOrders \/ SpotWatchExecutions \/ SpotWatchWallet
  <2>1. \A t \in {"order", "position", "execution", "wallet"} : Route(t) = "private"
    BY DEF Route, PrivateTopic
  <2>2. QED
    BY <1>1, <1>2, <1>4, <2>1
       DEF RoutedWatchStep, WatchOrders, WatchPositions, WatchExecutions, WatchWallet,
           SpotWatchOrders, SpotWatchExecutions, SpotWatchWallet
<1>5. QED
  BY <1>3, <1>4, Zenon DEF StreamNext, QuietStep, LinkStep

\* A topic is routed to a connection of its profile.
LEMMA RouteIsConnection ==
  ASSUME NEW p \in Profile, NEW t
  PROVE  <<p, Route(t)>> \in Connection
  BY DEF Connection, Route

\* Calls of the Watch methods.
LEMMA WatchIsQuiet ==
  ASSUME QuietInv, NEW p \in Profile, NEW t \in Topic, Watch(<<p, Route(t)>>, t)
  PROVE  /\ QuietInv'
         /\ \A q \in Profile : told'[q] \in {told[q], NoTicker}
         /\ \A w \in watch : heard'[w] \in {heard[w], <<>>}
<1> DEFINE c == <<p, Route(t)>>
<1>1. c \in Connection /\ c[1] = p
  BY RouteIsConnection
<1>2. <<p, t>> \in watch /\ watch' = watch /\ wanted' = wanted \union {<<p, t>>}
  BY <1>1 DEF Watch, clientVars
<1>3. subs' = [subs EXCEPT ![c] = subs[c] \union {t}]
  BY <1>1 DEF Watch
<1>4. hand' = IF hand[c].topic = t THEN [hand EXCEPT ![c] = Idle] ELSE hand
  BY DEF Watch, Detached
<1>5. /\ told' \in {told, [told EXCEPT ![p] = NoTicker]}
      /\ heard' \in {heard, [heard EXCEPT ![<<p, t>>] = <<>>]}
  BY <1>1 DEF Watch, Renew, rowVars, tickerVars
<1> HIDE DEF c
<1>6. \A d \in Connection, u \in Topic :
          u \in subs'[d] => /\ d = <<d[1], Route(u)>>
                           /\ <<d[1], u>> \in wanted' \intersect watch'
  BY <1>1, <1>2, <1>3 DEF QuietInv, c
<1>7. \A d \in Connection : hand'[d] # Idle => hand'[d].topic \in subs'[d]
  BY <1>1, <1>3, <1>4 DEF QuietInv
<1>8. subs' \in [Connection -> SUBSET Topic]
  BY <1>1, <1>3 DEF QuietInv
<1>9. DOMAIN hand' = Connection /\ DOMAIN told' = Profile /\ DOMAIN heard' = watch'
  BY <1>2, <1>4, <1>5 DEF QuietInv
<1>10. /\ \A q \in Profile : told'[q] \in {told[q], NoTicker}
       /\ \A w \in watch : heard'[w] \in {heard[w], <<>>}
  BY <1>5 DEF QuietInv
<1>11. QED
  BY <1>2, <1>6, <1>7, <1>8, <1>9, <1>10 DEF QuietInv

\* Unsubscribe finds the topic where Watch has put it.
LEMMA UnsubscribeIsQuiet ==
  ASSUME QuietInv, NEW t \in Topic, Unsubscribe(t)
  PROVE  QuietInv' /\ UNCHANGED <<told, heard>>
<1> DEFINE c == <<"linear", Route(t)>>
<1>1. c \in Connection /\ c[1] = "linear"
  BY RouteIsConnection DEF Profile
<1>2. watch' = watch /\ wanted' = wanted \ {<<"linear", t>>} /\ UNCHANGED <<told, heard>>
  BY DEF Unsubscribe, clientVars, tickerVars, rowVars
<1>3. subs' = [subs EXCEPT ![c] = subs[c] \ {t}]
  BY DEF Unsubscribe
<1>4. hand' = IF hand[c].topic = t THEN [hand EXCEPT ![c] = Idle] ELSE hand
  BY DEF Unsubscribe, Detached
<1> HIDE DEF c
<1>5. ASSUME NEW d \in Connection, NEW u \in Topic, u \in subs'[d]
      PROVE  d = <<d[1], Route(u)>> /\ <<d[1], u>> \in wanted' \intersect watch'
  <2>1. u \in subs[d] /\ (d = c => u # t)
    BY <1>1, <1>3, <1>5 DEF QuietInv
  <2>2. d = <<d[1], Route(u)>> /\ <<d[1], u>> \in wanted \intersect watch
    BY <2>1 DEF QuietInv
  <2>3. <<d[1], u>> # <<"linear", t>>
    BY <2>1, <2>2 DEF c
  <2>4. QED
    BY <1>2, <2>2, <2>3
<1>6. \A d \in Connection : hand'[d] # Idle => hand'[d].topic \in subs'[d]
  BY <1>1, <1>3, <1>4 DEF QuietInv
<1>7. subs' \in [Connection -> SUBSET Topic]
  BY <1>1, <1>3 DEF QuietInv
<1>8. DOMAIN hand' = Connection /\ DOMAIN told' = Profile /\ DOMAIN heard' = watch'
  BY <1>2, <1>4 DEF QuietInv
<1>9. QED
  BY <1>2, <1>5, <1>6, <1>7, <1>8 DEF QuietInv

\* The connection comes up with no frame in hand.
LEMMA ConnectIsQuiet ==
  ASSUME QuietInv, NEW c \in Connection, Connect(c)
  PROVE  /\ QuietInv'
         /\ \A q \in Profile : told'[q] \in {told[q], NoTicker}
         /\ UNCHANGED heard
<1>1. UNCHANGED <<watch, subs, hand, heard, wanted>>
  BY DEF Connect, Renew, clientVars, rowVars
<1>2. told' \in {told, [told EXCEPT ![c[1]] = NoTicker]}
  BY DEF Connect, Renew, tickerVars
<1>3. QED
  BY <1>1, <1>2 DEF QuietInv

\* A handler that is called is that of a registered topic.
LEMMA HandleIsQuiet ==
  ASSUME QuietInv, NEW c \in Connection, Handle(c)
  PROVE  /\ QuietInv'
         /\ \A w \in watch : w \notin wanted =>
                /\ w[2] = "tickers" => told'[w[1]] = told[w[1]]
                /\ w[2] # "tickers" => heard'[w] = heard[w]
<1> DEFINE w0 == <<c[1], hand[c].topic>>
<1>1. hand[c] # Idle /\ w0 \in wanted \intersect watch
  BY RegisteredTopic DEF Handle
<1>2. UNCHANGED <<watch, subs, wanted>> /\ hand' = [hand EXCEPT ![c] = Idle]
  BY DEF Handle, clientVars
<1>3. CASE hand[c].topic = "tickers"
  <2>1. heard' = heard /\ \E v : told' = [told EXCEPT ![c[1]] = v]
    BY <1>3 DEF Handle, HandleTicker, rowVars
  <2>2. \A w \in watch : w \notin wanted /\ w[2] = "tickers" => w[1] # c[1]
    BY <1>1, <1>3 DEF QuietInv
  <2>3. QED
    BY <1>2, <2>1, <2>2 DEF QuietInv
<1>4. CASE hand[c].topic # "tickers"
  <2>1. told' = told /\ \E v : heard' = [heard EXCEPT ![w0] = v]
    BY <1>4 DEF Handle, HandleRows, tickerVars
  <2>2. \A w \in watch : w \notin wanted => w # w0
    BY <1>1
  <2> HIDE DEF w0
  <2>3. QED
    BY <1>2, <2>1, <2>2 DEF QuietInv
<1>5. QED
  BY <1>3, <1>4

\* Every other step leaves what the handlers have told alone.
LEMMA OthersAreQuiet ==
  ASSUME QuietInv, QuietStep \/ LinkStep \/ UNCHANGED streamVars
  PROVE  QuietInv' /\ UNCHANGED <<told, heard>>
<1>1. CASE LinkStep
  BY <1>1 DEF LinkStep, QuietInv, Close, Break, ContextDone, clientVars, tickerVars
<1>2. CASE UNCHANGED streamVars
  BY <1>2 DEF QuietInv, streamVars, clientVars, tickerVars, rowVars
<1>3. ASSUME NEW p \in Profile, Accessor(p)
      PROVE  QuietInv' /\ UNCHANGED <<told, heard>>
  BY <1>3 DEF QuietInv, Accessor, tickerVars, rowVars
<1>4. ASSUME NEW c \in Connection, Read(c)
      PROVE  QuietInv' /\ UNCHANGED <<told, heard>>
  <2>1. UNCHANGED <<watch, subs, wanted, told, heard>>
    BY <1>4 DEF Read, clientVars, tickerVars, rowVars
  <2>2. \E frame : /\ hand' = [hand EXCEPT ![c] = IF frame.topic \in subs[c] THEN frame ELSE Idle]
    BY <1>4 DEF Read
  <2>3. QED
    BY <2>1, <2>2 DEF QuietInv
<1>5. ASSUME NEW p \in Profile, NEW changed \in (SUBSET Field) \ {{}}, ChangeTicker(p, changed)
      PROVE  QuietInv' /\ UNCHANGED <<told, heard>>
  BY <1>5 DEF QuietInv, ChangeTicker, clientVars, tickerVars, rowVars
<1>6. ASSUME NEW t \in Topic \ {"tickers"}, NEW categories \in Categories(t),
             PushRows(t, categories)
      PROVE  QuietInv' /\ UNCHANGED <<told, heard>>
  BY <1>6 DEF QuietInv, PushRows, clientVars, tickerVars
<1>7. QED
  BY <1>1, <1>2, <1>3, <1>4, <1>5, <1>6 DEF QuietStep

\* What UnsubscribedIsQuiet says of a step.
QuietAction ==
    \A w \in watch : (IF w[2] = "tickers" THEN told'[w[1]] \notin {told[w[1]], NoTicker}
                                          ELSE heard'[w] \notin {heard[w], <<>>})
                         => w \in wanted

\* The invariant is kept by every step, and no step calls a handler that is not wanted.
LEMMA QuietStepwise ==
  ASSUME QuietInv, [StreamNext]_streamVars
  PROVE  QuietInv' /\ QuietAction
<1>0. \A w \in watch : w[1] \in Profile
  BY DEF QuietInv
<1>1. CASE RoutedWatchStep
  BY <1>0, <1>1, WatchIsQuiet DEF RoutedWatchStep, QuietAction
<1>2. CASE QuietStep \/ LinkStep \/ UNCHANGED streamVars
  BY <1>2, OthersAreQuiet DEF QuietAction
<1>3. ASSUME NEW t \in Topic, Unsubscribe(t)
      PROVE  QuietInv' /\ QuietAction
  BY <1>3, UnsubscribeIsQuiet DEF QuietAction
<1>4. ASSUME NEW c \in Connection, Connect(c)
      PROVE  QuietInv' /\ QuietAction
  BY <1>0, <1>4, ConnectIsQuiet DEF QuietAction
<1>5. ASSUME NEW c \in Connection, Handle(c)
      PROVE  QuietInv' /\ QuietAction
  BY <1>5, HandleIsQuiet DEF QuietAction
<1>6. QED
  BY <1>1, <1>2, <1>3, <1>4, <1>5, WatchIsRouted

\* No handler is called for a topic that is not wanted, in whatever order topics are
\* watched and unsubscribed, connections come and go, and frames arrive. (Unsubscribe)
THEOREM UnsubscribedTopicsAreQuiet == StreamSpec => UnsubscribedIsQuiet
<1>1. QuietInv /\ [StreamNext]_streamVars => QuietInv' /\ QuietAction
  BY QuietStepwise
<1>2. UnsubscribedIsQuiet <=> [][QuietAction]_streamVars
  BY PTL DEF UnsubscribedIsQuiet, QuietAction
<1>3. QED
  BY <1>1, <1>2, QuietInit, PTL DEF StreamSpec

-------------------------------------------------------------------------------
(* Frames and rows, and what the variables hold.                           *)

\* A row of a frame: an execution, an order, a trade.
Row == [id : Nat, category : Category]

\* The exchange's ticker.
Truth == [Field -> Nat]

\* The fields of a ticker frame are the exchange's, and a snapshot has them all.
TickerFrame ==
    {frame \in UNION {[topic : {"tickers"}, fields : [fs -> Nat], snapshot : BOOLEAN,
                       truth : Truth] : fs \in SUBSET Field} :
        /\ \A f \in DOMAIN frame.fields : frame.fields[f] = frame.truth[f]
        /\ frame.snapshot => DOMAIN frame.fields = Field}

\* A frame of any other topic brings rows.
RowFrame == [topic : Topic \ {"tickers"}, rows : Seq(Row)]

\* What the exchange sends.
Frame == TickerFrame \union RowFrame

\* What the connections, their registries and the read loops hold.
LinkTypes ==
    /\ link \in [Connection -> {"none", "made", "down", "up", "dead", "closed"}]
    /\ server \in [Connection -> SUBSET Topic]
    /\ wire \in [Connection -> Seq(Frame)]
    /\ hand \in [Connection -> Frame \union {Idle}]
    /\ \A c \in Connection :
           /\ server[c] \subseteq subs[c]
           /\ link[c] # "up" => server[c] = {} /\ wire[c] = <<>>
    /\ wanted \in SUBSET watch
    /\ clients \in SUBSET factories

\* What the exchange and the handlers hold of tickers.
TickerTypes ==
    /\ pushes \in Nat
    /\ ticker \in [Profile -> Truth]
    /\ merged \in [Profile -> [Field -> Nat \union {Fresh}]]
    /\ told \in [Profile -> [Field -> Nat \union {Fresh}]]
    /\ whole \in [Profile -> BOOLEAN]

\* What is heard and owed.
RowTypes ==
    /\ heard \in [watch -> Seq(Nat)]
    /\ owed \in [watch -> Seq(Nat)]

\* The types of the variables that the invariants below rest on.
StreamTypes == LinkTypes /\ TickerTypes /\ RowTypes

-------------------------------------------------------------------------------
(* Tickers. *)

\* The ticker frames of a sequence of frames.
Tickers(frames) ==
    FlattenSeq([i \in DOMAIN frames |->
                    IF frames[i].topic = "tickers" THEN <<frames[i]>> ELSE <<>>])

\* What a frame leaves out is as it was.
Follows(frame, before) == \A f \in Field \ DOMAIN frame.fields : frame.truth[f] = before[f]

\* Ticker frames on their way: each tells the changes since the one before it, the first
\* since the last the handler has read, and the last tells the ticker as it is.
Unbroken(frames, registered, pushed, complete, lastTold, now) ==
    /\ \A i \in 1 .. Len(frames) - 1 : Follows(frames[i + 1], frames[i].truth)
    /\ complete /\ "tickers" \in registered /\ frames # <<>> => Follows(frames[1], lastTold)
    /\ "tickers" \in pushed /\ frames # <<>> => frames[Len(frames)].truth = now
    /\ "tickers" \in pushed /\ frames = <<>> /\ complete => lastTold = now

\* The connection tickers come on.
Public(p) == <<p, "public">>

\* Ticker frames in hand or on their way.
TickerBy(frame) == IF frame.topic = "tickers" THEN <<frame>> ELSE <<>>

\* ... of a connection.
TickersLeft(c) == TickerBy(hand[c]) \o Tickers(wire[c])

\* What is left brings the handler of a profile to the ticker of the exchange.
SoundTicker(p) ==
    /\ Unbroken(TickersLeft(Public(p)), subs[Public(p)], server[Public(p)], whole[p], told[p],
                ticker[p])
    /\ whole[p] => merged[p] = told[p]

\* The invariant of the tickers.
TickerInv == \A p \in Profile : SoundTicker(p)

-------------------------------------------------------------------------------
(* Lemmas: frames. *)

\* What a ticker frame tells.
LEMMA TickerFrameFacts ==
  ASSUME NEW frame \in TickerFrame
  PROVE  /\ frame.topic = "tickers"
         /\ DOMAIN frame.fields \in SUBSET Field
         /\ frame.truth \in Truth
         /\ frame.snapshot \in BOOLEAN
         /\ \A f \in DOMAIN frame.fields : frame.fields[f] = frame.truth[f]
         /\ frame.snapshot => DOMAIN frame.fields = Field
<1>1. PICK D \in SUBSET Field :
          frame \in [topic : {"tickers"}, fields : [D -> Nat], snapshot : BOOLEAN, truth : Truth]
  BY DEF TickerFrame
<1>2. DOMAIN frame.fields = D
  BY <1>1
<1>3. QED
  BY <1>1, <1>2 DEF TickerFrame

\* When a record is a ticker frame.
LEMMA TickerFrameIs ==
  ASSUME NEW D \in SUBSET Field, NEW fields \in [D -> Nat], NEW truth \in Truth,
         NEW snapshot \in BOOLEAN, \A f \in D : fields[f] = truth[f], snapshot => D = Field
  PROVE  [topic |-> "tickers", fields |-> fields, snapshot |-> snapshot, truth |-> truth]
             \in TickerFrame
<1> DEFINE frame == [topic |-> "tickers", fields |-> fields, snapshot |-> snapshot, truth |-> truth]
<1>1. frame \in [topic : {"tickers"}, fields : [D -> Nat], snapshot : BOOLEAN, truth : Truth]
  OBVIOUS
<1>2. frame.fields = fields /\ frame.truth = truth /\ frame.snapshot = snapshot /\ DOMAIN fields = D
  OBVIOUS
<1> HIDE DEF frame
<1>3. QED
  BY <1>1, <1>2 DEF TickerFrame

\* The topic of a frame says which kind of frame it is.
LEMMA FrameFacts ==
  ASSUME NEW frame \in Frame
  PROVE  /\ frame.topic \in Topic /\ frame # Idle
         /\ frame.topic = "tickers" => frame \in TickerFrame
         /\ frame.topic # "tickers" => frame \in RowFrame
<1>1. CASE frame \in TickerFrame
  <2>1. frame.topic = "tickers"
    BY <1>1, TickerFrameFacts
  <2>2. "tickers" \in Topic /\ Idle.topic = "none" /\ "none" # "tickers"
    BY DEF Topic, Idle
  <2>3. QED
    BY <1>1, <2>1, <2>2
<1>2. CASE frame \in RowFrame
  <2>1. frame.topic \in Topic \ {"tickers"}
    BY <1>2 DEF RowFrame
  <2>2. "none" \notin Topic /\ Idle.topic = "none"
    BY DEF Topic, PrivateTopic, Idle
  <2>3. QED
    BY <1>2, <2>1, <2>2
<1>3. QED
  BY <1>1, <1>2 DEF Frame

\* A snapshot tells the whole ticker as it is.
LEMMA SnapshotIsFrame ==
  ASSUME NEW p \in Profile, ticker \in [Profile -> Truth]
  PROVE  SnapshotOf(p) \in TickerFrame /\ SnapshotOf(p).truth = ticker[p]
         /\ SnapshotOf(p).fields = ticker[p]
<1>1. ticker[p] \in [Field -> Nat] /\ ticker[p] \in Truth /\ Field \in SUBSET Field
  BY DEF Truth
<1>2. QED
  BY <1>1, TickerFrameIs DEF SnapshotOf

\* A subscription starts with frames.
LEMMA FirstIsFrames ==
  ASSUME NEW p \in Profile, ticker \in [Profile -> Truth], NEW topics
  PROVE  First(p, topics) \in Seq(Frame)
<1>1. SnapshotOf(p) \in Frame
  BY SnapshotIsFrame DEF Frame
<1>2. QED
  BY <1>1 DEF First

\* What a frame of rows tells.
LEMMA RowFrameFacts ==
  ASSUME NEW frame \in RowFrame
  PROVE  frame.topic \in Topic \ {"tickers"} /\ frame.rows \in Seq(Row)
  BY DEF RowFrame

-------------------------------------------------------------------------------
(* Lemmas: rows. *)

\* The rows that are kept are rows.
LEMMA KeptIsRows ==
  ASSUME NEW S, NEW rows \in Seq(S), NEW keep
  PROVE  Kept(rows, keep) \in Seq(S)
<1> DEFINE parts == [i \in DOMAIN rows |-> IF i \in keep THEN <<rows[i]>> ELSE <<>>]
<1>1. parts \in Seq(Seq(S))
  <2>1. DOMAIN rows = 1 .. Len(rows) /\ \A i \in 1 .. Len(rows) : rows[i] \in S
    OBVIOUS
  <2>2. \A i \in 1 .. Len(rows) : (IF i \in keep THEN <<rows[i]>> ELSE <<>>) \in Seq(S)
    BY <2>1
  <2>3. QED
    BY <2>1, <2>2
<1> HIDE DEF parts
<1>2. FlattenSeq(parts) \in Seq(S)
  BY <1>1, FlattenIsSeq
<1>3. QED
  BY <1>2 DEF Kept, parts

\* Rows that are all kept are as they were.
LEMMA AllKept ==
  ASSUME NEW S, NEW rows \in Seq(S)
  PROVE  Kept(rows, DOMAIN rows) = rows
<1> DEFINE n == Len(rows)
           parts == [i \in 1 .. n |-> <<rows[i]>>]
           f == [i \in 1 .. n |-> SubSeq(rows, 1, i)]
<1>1. n \in Nat /\ DOMAIN rows = 1 .. n
  OBVIOUS
<1>2. parts \in Seq(Seq(S)) /\ Len(parts) = n
  <2>1. \A i \in 1 .. n : <<rows[i]>> \in Seq(S)
    OBVIOUS
  <2>2. QED
    BY <1>1, <2>1
<1>3. Kept(rows, DOMAIN rows) = FlattenSeq(parts)
  <2>1. [i \in DOMAIN rows |-> IF i \in DOMAIN rows THEN <<rows[i]>> ELSE <<>>] = parts
    BY <1>1
  <2> HIDE DEF parts
  <2>2. QED
    BY <2>1 DEF Kept
<1>4. CASE n = 0
  <2>1. rows = <<>> /\ parts = <<>>
    BY <1>2, <1>4
  <2>2. QED
    BY <1>3, <2>1, FlattenEmpty
<1>5. CASE n # 0
  <2>1. Joins(f, parts, n)
    <3>1. 1 \in 1 .. n /\ f[1] = parts[1]
      <4>1. 1 \in 1 .. n
        BY <1>1, <1>5
      <4>2. SubSeq(rows, 1, 1) = <<rows[1]>>
        <5>1. rows[1] \in S /\ 1 <= Len(rows)
          BY <1>1, <4>1
        <5>2. SubSeq(rows, 1, 1) \in Seq(S) /\ Len(SubSeq(rows, 1, 1)) = 1
              /\ SubSeq(rows, 1, 1)[1] = rows[1]
          BY <1>1, <5>1, <4>1
        <5>3. \A one \in Seq(S) : Len(one) = 1 => one = <<one[1]>>
          OBVIOUS
        <5>4. QED
          BY <5>2, <5>3, Zenon
      <4>3. QED
        BY <4>1, <4>2, Zenon
    <3>2. ASSUME NEW i \in 1 .. n, i # 1
          PROVE  f[i] = f[i - 1] \o parts[i]
      <4>1. i - 1 \in 1 .. n /\ f[i - 1] = SubSeq(rows, 1, i - 1) /\ f[i] = SubSeq(rows, 1, i)
        BY <1>1, <3>2
      <4>2. SubSeq(rows, 1, i) = SubSeq(rows, 1, i - 1) \o <<rows[i]>>
        BY <3>2
      <4>3. QED
        BY <4>1, <4>2
    <3>3. QED
      BY <3>1, <3>2 DEF Joins
  <2>2. f[n] = rows
    BY <1>1, <1>5
  <2> HIDE DEF f, parts
  <2>3. FlattenSeq(parts) = f[n]
    BY <1>2, <1>5, <2>1, FlattenIsFlat
  <2>4. QED
    BY <1>3, <2>2, <2>3
<1>6. QED
  BY <1>4, <1>5

\* Rows are heard by their ids.
LEMMA IdsAreSeq ==
  ASSUME NEW rows \in Seq(Row)
  PROVE  Ids(rows) \in Seq(Nat)
<1>1. DOMAIN rows = 1 .. Len(rows) /\ Len(rows) \in Nat /\ \A i \in 1 .. Len(rows) : rows[i] \in Row
  OBVIOUS
<1>2. \A row \in Row : row.id \in Nat
  BY DEF Row
<1>3. \A i \in 1 .. Len(rows) : rows[i].id \in Nat
  BY <1>1, <1>2
<1>4. Ids(rows) = [i \in 1 .. Len(rows) |-> rows[i].id]
  BY <1>1 DEF Ids
<1> DEFINE n == Len(rows)
           id(i) == rows[i].id
<1>5. Ids(rows) = [i \in 1 .. n |-> id(i)] /\ n \in Nat /\ \A i \in 1 .. n : id(i) \in Nat
  BY <1>1, <1>3, <1>4
<1> HIDE DEF n, id
<1>6. QED
  BY <1>5

\* The handler is called with the rows of the frame its topic is owed.
LEMMA RowsAreOwed ==
  ASSUME NEW p \in Profile, NEW frame \in RowFrame
  PROVE  /\ Ids(Rows(p, frame)) = RowsOf(<<p, frame.topic>>, frame)
         /\ RowsOf(<<p, frame.topic>>, frame) \in Seq(Nat)
<1> DEFINE w == <<p, frame.topic>>
           keep == {i \in DOMAIN frame.rows :
                        w[2] \in Categorised => frame.rows[i].category \in {w[1], NoCategory}}
<1>1. frame.rows \in Seq(Row) /\ w[1] = p /\ w[2] = frame.topic
  BY RowFrameFacts
<1>2. RowsOf(w, frame) = Ids(Kept(frame.rows, keep))
  BY DEF RowsOf
<1>3. Kept(frame.rows, keep) \in Seq(Row)
  BY <1>1, KeptIsRows
<1>4. RowsOf(w, frame) \in Seq(Nat)
  <2> HIDE DEF keep
  <2>1. QED
    BY <1>2, <1>3, IdsAreSeq
<1>5. Rows(p, frame) = Kept(frame.rows, keep)
  <2>1. CASE frame.topic \in Categorised
    <3>1. \A i \in DOMAIN frame.rows : frame.rows[i].category \in {"linear", "spot", ""}
      <4>1. \A i \in DOMAIN frame.rows : frame.rows[i] \in Row
        BY <1>1
      <4>2. \A row \in Row : row.category \in {"linear", "spot", ""}
        BY DEF Row, Category, NoCategory
      <4>3. QED
        BY <4>1, <4>2
    <3>2. \A i \in DOMAIN frame.rows :
              ~ Foreign(p, frame.rows[i].category) <=> frame.rows[i].category \in {p, NoCategory}
      BY <3>1 DEF Foreign, Profile, NoCategory
    <3>3. keep = {i \in DOMAIN frame.rows : ~ Foreign(p, frame.rows[i].category)}
      BY <1>1, <2>1, <3>2
    <3> HIDE DEF keep
    <3>4. QED
      BY <2>1, <3>3 DEF Rows
  <2>2. CASE frame.topic \notin Categorised
    <3>1. keep = DOMAIN frame.rows
      BY <1>1, <2>2
    <3> HIDE DEF keep
    <3>2. QED
      BY <1>1, <2>2, <3>1, AllKept DEF Rows
  <2>3. QED
    BY <2>1, <2>2
<1> HIDE DEF keep
<1>6. QED
  BY <1>2, <1>4, <1>5

-------------------------------------------------------------------------------
(* Lemmas: a sequence for every frame, one after the other.                *)

\* A function from T to sequences over S.
GivesSeqs(of, T, S) == of \in [T -> Seq(S)]

\* What a function gives of each frame.
Parts(of, frames) == [i \in DOMAIN frames |-> of[frames[i]]]

\* ... are sequences over S.
LEMMA PartsAreSeqs ==
  ASSUME NEW S, NEW T, NEW of, GivesSeqs(of, T, S), NEW frames \in Seq(T)
  PROVE  Parts(of, frames) \in Seq(Seq(S)) /\ Len(Parts(of, frames)) = Len(frames)
<1>1. DOMAIN frames = 1 .. Len(frames) /\ \A i \in 1 .. Len(frames) : frames[i] \in T
  OBVIOUS
<1>2. \A i \in 1 .. Len(frames) : of[frames[i]] \in Seq(S)
  BY <1>1 DEF GivesSeqs
<1>3. QED
  BY <1>1, <1>2 DEF Parts

\* What an appended frame gives comes last.
LEMMA PartsAppend ==
  ASSUME NEW S, NEW T, NEW of, GivesSeqs(of, T, S), NEW frames \in Seq(T), NEW frame \in T
  PROVE  FlattenSeq(Parts(of, Append(frames, frame))) = FlattenSeq(Parts(of, frames)) \o of[frame]
<1>0. Parts(of, frames) \in Seq(Seq(S)) /\ Len(Parts(of, frames)) = Len(frames)
  BY PartsAreSeqs
<1> DEFINE n == Len(frames)
           all == Append(frames, frame)
           parts == Parts(of, frames)
           by == of[frame]
<1>1. n \in Nat /\ parts \in Seq(Seq(S)) /\ Len(parts) = n /\ by \in Seq(S)
  <2>1. parts \in Seq(Seq(S)) /\ Len(parts) = n
    BY <1>0
  <2> HIDE DEF parts
  <2>2. QED
    BY <2>1 DEF GivesSeqs
<1>2. DOMAIN all = 1 .. n + 1 /\ all[n + 1] = frame /\ \A i \in 1 .. n : all[i] = frames[i]
  BY AppendProperties
<1>3. DOMAIN frames = 1 .. n
  OBVIOUS
<1> HIDE DEF all
<1>4. Parts(of, all) = Append(parts, by)
  <2>1. /\ Parts(of, all) = [i \in 1 .. n + 1 |-> of[all[i]]]
        /\ parts = [i \in 1 .. n |-> of[frames[i]]]
    BY <1>2, <1>3 DEF Parts
  <2> HIDE DEF parts, n
  <2>2. Append(parts, by) = [i \in 1 .. n + 1 |-> IF i = n + 1 THEN by ELSE parts[i]]
    <3> DEFINE longer == Append(parts, by)
    <3> HIDE DEF by
    <3>1. /\ longer \in Seq(Seq(S)) /\ Len(longer) = n + 1 /\ longer[n + 1] = by
          /\ \A i \in 1 .. n : longer[i] = parts[i]
      BY <1>1, AppendProperties
    <3> HIDE DEF longer
    <3>2. longer = [i \in 1 .. n + 1 |-> longer[i]]
      BY <3>1
    <3>3. \A i \in 1 .. n + 1 : i # n + 1 => i \in 1 .. n
      BY <1>1
    <3>4. \A i \in 1 .. n + 1 : longer[i] = IF i = n + 1 THEN by ELSE parts[i]
      BY <3>1, <3>3, Zenon
    <3>5. longer = [i \in 1 .. n + 1 |-> IF i = n + 1 THEN by ELSE parts[i]]
      BY <3>2, <3>4
    <3>6. QED
      BY <3>5 DEF longer
  <2>3. \A i \in 1 .. n + 1 : of[all[i]] = IF i = n + 1 THEN by ELSE parts[i]
    <3>1. \A i \in 1 .. n + 1 : i # n + 1 => i \in 1 .. n
      BY <1>1
    <3>2. \A i \in 1 .. n : of[all[i]] = parts[i]
      BY <1>2, <2>1
    <3>3. QED
      BY <1>2, <3>1, <3>2
  <2>4. QED
    BY <2>1, <2>2, <2>3
<1> HIDE DEF parts, by
<1>5. FlattenSeq(Append(parts, by)) = FlattenSeq(parts) \o by
  BY <1>1, FlattenAppend
<1>6. QED
  BY <1>4, <1>5 DEF parts, by, all

\* A frame in front of frames.
Before(frame, frames) == <<frame>> \o frames

\* What the first frame gives comes first.
LEMMA PartsPrepend ==
  ASSUME NEW S, NEW T, NEW of, GivesSeqs(of, T, S), NEW frames \in Seq(T), NEW frame \in T
  PROVE  FlattenSeq(Parts(of, Before(frame, frames))) = of[frame] \o FlattenSeq(Parts(of, frames))
<1>0. Parts(of, frames) \in Seq(Seq(S)) /\ Len(Parts(of, frames)) = Len(frames)
  BY PartsAreSeqs
<1> DEFINE n == Len(frames)
           all == <<frame>> \o frames
           parts == Parts(of, frames)
           by == of[frame]
<1>1. n \in Nat /\ parts \in Seq(Seq(S)) /\ Len(parts) = n /\ by \in Seq(S)
  <2>1. parts \in Seq(Seq(S)) /\ Len(parts) = n
    BY <1>0
  <2> HIDE DEF parts
  <2>2. QED
    BY <2>1 DEF GivesSeqs
<1>2. DOMAIN all = 1 .. n + 1 /\ all[1] = frame /\ \A i \in 2 .. n + 1 : all[i] = frames[i - 1]
  OBVIOUS
<1>3. DOMAIN frames = 1 .. n
  OBVIOUS
<1> HIDE DEF all
<1>4. Parts(of, all) = <<by>> \o parts
  <2>1. /\ Parts(of, all) = [i \in 1 .. n + 1 |-> of[all[i]]]
        /\ parts = [i \in 1 .. n |-> of[frames[i]]]
    BY <1>2, <1>3 DEF Parts
  <2> HIDE DEF parts, n
  <2>2. <<by>> \o parts = [i \in 1 .. n + 1 |-> IF i = 1 THEN by ELSE parts[i - 1]]
    <3> HIDE DEF by
    <3>1. QED
      BY <1>1
  <2>3. \A i \in 1 .. n + 1 : of[all[i]] = IF i = 1 THEN by ELSE parts[i - 1]
    <3>1. \A i \in 1 .. n + 1 : i # 1 => i \in 2 .. n + 1 /\ i - 1 \in 1 .. n
      BY <1>1
    <3>2. \A i \in 2 .. n + 1 : i - 1 \in 1 .. n => of[all[i]] = parts[i - 1]
      BY <1>2, <2>1
    <3>3. QED
      BY <1>2, <3>1, <3>2
  <2>4. QED
    BY <2>1, <2>2, <2>3, ZenonT(30)
<1> HIDE DEF parts, by
<1>5. FlattenSeq(<<by>> \o parts) = by \o FlattenSeq(parts)
  BY <1>1, FlattenPrepend
<1>6. QED
  BY <1>4, <1>5 DEF parts, by, all, Before

-------------------------------------------------------------------------------
(* Lemmas: what is owed. *)

\* What one frame owes a handler.
OwedBy(w, frame) == IF frame.topic = w[2] /\ w[2] # "tickers" THEN RowsOf(w, frame) ELSE <<>>

\* What can be in hand.
OrIdle == Frame \union {Idle}

\* A frame owes a handler rows, by their ids.
LEMMA OwedByIsSeq ==
  ASSUME NEW w \in Profile \X Topic, NEW frame \in OrIdle
  PROVE  OwedBy(w, frame) \in Seq(Nat)
<1>1. CASE frame.topic = w[2] /\ w[2] # "tickers"
  <2>1. frame \in RowFrame
    <3>1. w[2] # "none"
      BY DEF Topic, PrivateTopic
    <3>2. QED
      BY <1>1, <3>1, FrameFacts DEF OrIdle, Idle
  <2>2. w = <<w[1], frame.topic>> /\ w[1] \in Profile
    BY <1>1
  <2>3. RowsOf(w, frame) \in Seq(Nat)
    BY <2>1, <2>2, RowsAreOwed
  <2>4. QED
    BY <1>1, <2>3 DEF OwedBy
<1>2. CASE ~ (frame.topic = w[2] /\ w[2] # "tickers")
  BY <1>2 DEF OwedBy
<1>3. QED
  BY <1>1, <1>2

\* What frames owe a handler, as a function of the frame.
OwedParts(w) == [frame \in OrIdle |-> OwedBy(w, frame)]

\* It gives sequences of ids.
LEMMA OwedPartsType ==
  ASSUME NEW w \in Profile \X Topic
  PROVE  GivesSeqs(OwedParts(w), OrIdle, Nat)
  BY OwedByIsSeq DEF OwedParts, GivesSeqs

\* Owed joins what it gives of each frame.
LEMMA OwedIsParts ==
  ASSUME NEW w, NEW frames \in Seq(OrIdle)
  PROVE  Owed(w, frames) = FlattenSeq(Parts(OwedParts(w), frames))
<1>1. \A i \in DOMAIN frames : frames[i] \in OrIdle
  OBVIOUS
<1>2. [i \in DOMAIN frames |-> OwedBy(w, frames[i])] = Parts(OwedParts(w), frames)
  BY <1>1 DEF Parts, OwedParts
<1>3. Owed(w, frames) = FlattenSeq([i \in DOMAIN frames |-> OwedBy(w, frames[i])])
  BY DEF Owed, OwedBy
<1>4. QED
  BY <1>2, <1>3

\* Frames owe a handler rows, by their ids.
LEMMA OwedIsSeq ==
  ASSUME NEW w \in Profile \X Topic, NEW frames \in Seq(OrIdle)
  PROVE  Owed(w, frames) \in Seq(Nat)
<1>1. Parts(OwedParts(w), frames) \in Seq(Seq(Nat))
  BY OwedPartsType, PartsAreSeqs
<1>2. FlattenSeq(Parts(OwedParts(w), frames)) \in Seq(Nat)
  BY <1>1, FlattenIsSeq
<1>3. QED
  BY <1>2, OwedIsParts

\* No frames owe nothing.
LEMMA OwedEmpty ==
  ASSUME NEW w
  PROVE  Owed(w, <<>>) = <<>>
<1>1. [i \in DOMAIN <<>> |-> OwedBy(w, <<>>[i])] = <<>>
  OBVIOUS
<1>2. QED
  BY <1>1, FlattenEmpty DEF Owed, OwedBy

\* What the last frame owes is owed last.
LEMMA OwedAppend ==
  ASSUME NEW w \in Profile \X Topic, NEW frames \in Seq(OrIdle), NEW frame \in OrIdle
  PROVE  Owed(w, Append(frames, frame)) = Owed(w, frames) \o OwedBy(w, frame)
<1>1. Append(frames, frame) \in Seq(OrIdle)
  OBVIOUS
<1>2. OwedParts(w)[frame] = OwedBy(w, frame)
  BY DEF OwedParts
<1> DEFINE of == OwedParts(w)
<1>3. GivesSeqs(of, OrIdle, Nat)
  BY OwedPartsType
<1>4. /\ Owed(w, Append(frames, frame)) = FlattenSeq(Parts(of, Append(frames, frame)))
      /\ Owed(w, frames) = FlattenSeq(Parts(of, frames))
  BY <1>1, OwedIsParts
<1>5. of[frame] = OwedBy(w, frame)
  BY <1>2
<1> HIDE DEF of
<1>6. FlattenSeq(Parts(of, Append(frames, frame))) = FlattenSeq(Parts(of, frames)) \o of[frame]
  <2>1. \A fs \in Seq(OrIdle), fr \in OrIdle :
            FlattenSeq(Parts(of, Append(fs, fr))) = FlattenSeq(Parts(of, fs)) \o of[fr]
    BY <1>3, PartsAppend
  <2>2. QED
    BY <2>1, Zenon
<1>7. QED
  BY <1>4, <1>5, <1>6, Zenon

\* What the first frame owes is owed first.
LEMMA OwedPrepend ==
  ASSUME NEW w \in Profile \X Topic, NEW frames \in Seq(OrIdle), NEW frame \in OrIdle
  PROVE  Owed(w, <<frame>> \o frames) = OwedBy(w, frame) \o Owed(w, frames)
<1>1. <<frame>> \o frames \in Seq(OrIdle)
  OBVIOUS
<1>2. OwedParts(w)[frame] = OwedBy(w, frame)
  BY DEF OwedParts
<1> DEFINE of == OwedParts(w)
<1>3. GivesSeqs(of, OrIdle, Nat)
  BY OwedPartsType
<1>4. /\ Owed(w, <<frame>> \o frames) = FlattenSeq(Parts(of, <<frame>> \o frames))
      /\ Owed(w, frames) = FlattenSeq(Parts(of, frames))
  BY <1>1, OwedIsParts
<1>5. of[frame] = OwedBy(w, frame)
  BY <1>2
<1> HIDE DEF of
<1>6. FlattenSeq(Parts(of, <<frame>> \o frames)) = of[frame] \o FlattenSeq(Parts(of, frames))
  <2>1. \A fs \in Seq(OrIdle), fr \in OrIdle :
            FlattenSeq(Parts(of, Before(fr, fs))) = of[fr] \o FlattenSeq(Parts(of, fs))
    BY <1>3, PartsPrepend
  <2>2. QED
    BY <2>1, Zenon DEF Before
<1>7. QED
  BY <1>4, <1>5, <1>6, Zenon

-------------------------------------------------------------------------------
(* Lemmas: tickers among frames.                                           *)

\* The ticker frame in a frame, as a function of the frame.
TickerParts == [frame \in OrIdle |-> TickerBy(frame)]

\* A frame has at most one ticker frame in it.
LEMMA TickerByIsSeq ==
  ASSUME NEW frame \in OrIdle
  PROVE  TickerBy(frame) \in Seq(TickerFrame)
<1>1. frame.topic = "tickers" => frame \in TickerFrame
  BY FrameFacts DEF OrIdle, Idle
<1>2. QED
  BY <1>1 DEF TickerBy

\* It gives sequences of ticker frames.
LEMMA TickerPartsType == GivesSeqs(TickerParts, OrIdle, TickerFrame)
  BY TickerByIsSeq DEF TickerParts, GivesSeqs

\* Tickers joins what it gives of each frame.
LEMMA TickersIsParts ==
  ASSUME NEW frames \in Seq(OrIdle)
  PROVE  Tickers(frames) = FlattenSeq(Parts(TickerParts, frames))
<1>1. \A i \in DOMAIN frames : frames[i] \in OrIdle
  OBVIOUS
<1>2. [i \in DOMAIN frames |-> TickerBy(frames[i])] = Parts(TickerParts, frames)
  BY <1>1 DEF Parts, TickerParts
<1>3. Tickers(frames) = FlattenSeq([i \in DOMAIN frames |-> TickerBy(frames[i])])
  BY DEF Tickers, TickerBy
<1>4. QED
  BY <1>2, <1>3

\* The ticker frames of a sequence are ticker frames.
LEMMA TickersIsSeq ==
  ASSUME NEW frames \in Seq(OrIdle)
  PROVE  Tickers(frames) \in Seq(TickerFrame)
<1>1. Parts(TickerParts, frames) \in Seq(Seq(TickerFrame))
  BY TickerPartsType, PartsAreSeqs
<1>2. FlattenSeq(Parts(TickerParts, frames)) \in Seq(TickerFrame)
  BY <1>1, FlattenIsSeq
<1>3. QED
  BY <1>2, TickersIsParts

\* No frames have no ticker frames.
LEMMA TickersEmpty == Tickers(<<>>) = <<>>
<1>1. [i \in DOMAIN <<>> |-> TickerBy(<<>>[i])] = <<>>
  OBVIOUS
<1>2. QED
  BY <1>1, FlattenEmpty DEF Tickers, TickerBy

\* A ticker frame that is sent comes last.
LEMMA TickersAppend ==
  ASSUME NEW frames \in Seq(OrIdle), NEW frame \in OrIdle
  PROVE  Tickers(Append(frames, frame)) = Tickers(frames) \o TickerBy(frame)
<1>1. Append(frames, frame) \in Seq(OrIdle)
  OBVIOUS
<1>2. TickerParts[frame] = TickerBy(frame)
  BY DEF TickerParts
<1> DEFINE of == TickerParts
<1>3. GivesSeqs(of, OrIdle, TickerFrame)
  BY TickerPartsType
<1>4. /\ Tickers(Append(frames, frame)) = FlattenSeq(Parts(of, Append(frames, frame)))
      /\ Tickers(frames) = FlattenSeq(Parts(of, frames))
  BY <1>1, TickersIsParts
<1>5. of[frame] = TickerBy(frame)
  BY <1>2
<1> HIDE DEF of
<1>6. FlattenSeq(Parts(of, Append(frames, frame))) = FlattenSeq(Parts(of, frames)) \o of[frame]
  <2>1. \A fs \in Seq(OrIdle), fr \in OrIdle :
            FlattenSeq(Parts(of, Append(fs, fr))) = FlattenSeq(Parts(of, fs)) \o of[fr]
    BY <1>3, PartsAppend
  <2>2. QED
    BY <2>1, Zenon
<1>7. QED
  BY <1>4, <1>5, <1>6, Zenon

\* A ticker frame in front comes first.
LEMMA TickersPrepend ==
  ASSUME NEW frames \in Seq(OrIdle), NEW frame \in OrIdle
  PROVE  Tickers(<<frame>> \o frames) = TickerBy(frame) \o Tickers(frames)
<1>1. <<frame>> \o frames \in Seq(OrIdle)
  OBVIOUS
<1>2. TickerParts[frame] = TickerBy(frame)
  BY DEF TickerParts
<1> DEFINE of == TickerParts
<1>3. GivesSeqs(of, OrIdle, TickerFrame)
  BY TickerPartsType
<1>4. /\ Tickers(<<frame>> \o frames) = FlattenSeq(Parts(of, <<frame>> \o frames))
      /\ Tickers(frames) = FlattenSeq(Parts(of, frames))
  BY <1>1, TickersIsParts
<1>5. of[frame] = TickerBy(frame)
  BY <1>2
<1> HIDE DEF of
<1>6. FlattenSeq(Parts(of, <<frame>> \o frames)) = of[frame] \o FlattenSeq(Parts(of, frames))
  <2>1. \A fs \in Seq(OrIdle), fr \in OrIdle :
            FlattenSeq(Parts(of, Before(fr, fs))) = of[fr] \o FlattenSeq(Parts(of, fs))
    BY <1>3, PartsPrepend
  <2>2. QED
    BY <2>1, Zenon DEF Before
<1>7. QED
  BY <1>4, <1>5, <1>6, Zenon

-------------------------------------------------------------------------------
(* Lemmas: ticker frames on their way.                                     *)

\* The first frame is read: what it tells is what the next one follows.
LEMMA UnbrokenHead ==
  ASSUME NEW frame \in TickerFrame, NEW rest \in Seq(TickerFrame), NEW registered, NEW pushed,
         NEW complete, NEW lastTold, NEW now,
         Unbroken(<<frame>> \o rest, registered, pushed, complete, lastTold, now)
  PROVE  /\ \A c : Unbroken(rest, registered, pushed, c, frame.truth, now)
         /\ complete /\ "tickers" \in registered => Follows(frame, lastTold)
<1> DEFINE n == Len(rest)
           all == <<frame>> \o rest
<1>1. /\ n \in Nat /\ Len(all) = n + 1 /\ all[1] = frame /\ all # <<>>
      /\ \A i \in 1 .. n : all[i + 1] = rest[i]
      /\ n = 0 <=> rest = <<>>
  OBVIOUS
<1> HIDE DEF all, n
<1>2. /\ \A i \in 1 .. n : Follows(all[i + 1], all[i].truth)
      /\ complete /\ "tickers" \in registered => Follows(frame, lastTold)
      /\ "tickers" \in pushed => all[n + 1].truth = now
  <2>1. Unbroken(all, registered, pushed, complete, lastTold, now) /\ Len(all) - 1 = n
    BY <1>1 DEF all
  <2>2. QED
    BY <1>1, <2>1 DEF Unbroken
<1>3. \A i \in 1 .. n - 1 : Follows(rest[i + 1], rest[i].truth)
  <2>1. \A i \in 1 .. n - 1 : i \in 1 .. n /\ i + 1 \in 1 .. n
    BY <1>1
  <2>2. \A i \in 1 .. n - 1 : Follows(all[(i + 1) + 1], all[i + 1].truth)
    BY <1>2, <2>1
  <2>3. QED
    BY <1>1, <2>1, <2>2
<1>4. rest # <<>> => Follows(rest[1], frame.truth)
  <2>1. rest # <<>> => 1 \in 1 .. n
    BY <1>1
  <2>2. QED
    BY <1>1, <1>2, <2>1
<1>5. "tickers" \in pushed /\ rest # <<>> => rest[n].truth = now
  <2>1. rest # <<>> => n \in 1 .. n
    BY <1>1
  <2>2. QED
    BY <1>1, <1>2, <2>1
<1>6. "tickers" \in pushed /\ rest = <<>> => frame.truth = now
  <2>1. rest = <<>> => n + 1 = 1
    BY <1>1
  <2>2. QED
    BY <1>1, <1>2, <2>1
<1>7. QED
  BY <1>2, <1>3, <1>4, <1>5, <1>6 DEF Unbroken, n

\* A handler that has read no snapshot, or is not registered, depends on nothing before.
LEMMA UnbrokenRenewed ==
  ASSUME NEW frames, NEW registered, NEW pushed, NEW complete, NEW lastTold, NEW now,
         Unbroken(frames, registered, pushed, complete, lastTold, now),
         NEW s2, NEW p2, NEW c2, NEW t2, "tickers" \in p2 => "tickers" \in pushed,
         c2 => "tickers" \notin s2 /\ "tickers" \notin p2
  PROVE  Unbroken(frames, s2, p2, c2, t2, now)
  BY DEF Unbroken

\* With nothing on its way and nothing pushed there is nothing to break.
LEMMA UnbrokenEmpty ==
  ASSUME NEW registered, NEW complete, NEW lastTold, NEW now
  PROVE  Unbroken(<<>>, registered, {}, complete, lastTold, now)
<1>1. 1 .. Len(<<>>) - 1 = {}
  OBVIOUS
<1>2. QED
  BY <1>1 DEF Unbroken

\* What is on its way is lost, and the frame in hand is not.
LEMMA UnbrokenCut ==
  ASSUME NEW frame \in TickerFrame, NEW registered, NEW complete, NEW lastTold, NEW now,
         complete /\ "tickers" \in registered => Follows(frame, lastTold)
  PROVE  Unbroken(<<frame>>, registered, {}, complete, lastTold, now)
<1>1. Len(<<frame>>) = 1 /\ <<frame>>[1] = frame /\ 1 .. Len(<<frame>>) - 1 = {}
  OBVIOUS
<1>2. QED
  BY <1>1 DEF Unbroken

\* A frame that tells the changes is sent.
LEMMA UnbrokenAppend ==
  ASSUME NEW frames \in Seq(TickerFrame), NEW frame \in TickerFrame, NEW registered, NEW pushed,
         NEW complete, NEW lastTold, NEW now, "tickers" \in pushed,
         Unbroken(frames, registered, pushed, complete, lastTold, now), Follows(frame, now)
  PROVE  Unbroken(Append(frames, frame), registered, pushed, complete, lastTold, frame.truth)
<1> DEFINE n == Len(frames)
           all == Append(frames, frame)
<1>1. /\ n \in Nat /\ Len(all) = n + 1 /\ all[n + 1] = frame /\ all # <<>>
      /\ \A i \in 1 .. n : all[i] = frames[i]
      /\ n = 0 <=> frames = <<>>
  BY AppendProperties
<1> HIDE DEF all, n
<1>2. \A i \in 1 .. n : Follows(all[i + 1], all[i].truth)
  <2> TAKE i \in 1 .. n
  <2>1. CASE i = n
    <3>1. frames # <<>> /\ frames[n].truth = now
      BY <1>1, <2>1 DEF Unbroken, n
    <3>2. QED
      BY <1>1, <2>1, <3>1
  <2>2. CASE i # n
    <3>1. i \in 1 .. n - 1 /\ i + 1 \in 1 .. n
      BY <1>1, <2>2
    <3>2. Follows(frames[i + 1], frames[i].truth)
      BY <3>1 DEF Unbroken, n
    <3>3. QED
      BY <1>1, <3>1, <3>2
  <2>3. QED
    BY <2>1, <2>2
<1>3. complete /\ "tickers" \in registered => Follows(all[1], lastTold)
  <2>1. CASE n = 0
    BY <1>1, <2>1 DEF Unbroken
  <2>2. CASE n # 0
    <3>1. 1 \in 1 .. n /\ frames # <<>>
      BY <1>1, <2>2
    <3>2. QED
      BY <1>1, <3>1 DEF Unbroken
  <2>3. QED
    BY <2>1, <2>2
<1>4. Len(all) - 1 = n
  BY <1>1
<1>5. QED
  BY <1>1, <1>2, <1>3, <1>4 DEF Unbroken, all

\* A snapshot follows whatever there was.
LEMMA UnbrokenSnapshot ==
  ASSUME NEW frames \in Seq(TickerFrame), NEW frame \in TickerFrame, NEW s, NEW p, NEW c,
         NEW t, NEW now, Unbroken(frames, s, p, c, t, now),
         DOMAIN frame.fields = Field, NEW s2, NEW p2, NEW t2
  PROVE  Unbroken(Append(frames, frame), s2, p2, FALSE, t2, frame.truth)
<1> DEFINE n == Len(frames)
           all == Append(frames, frame)
<1>1. /\ n \in Nat /\ Len(all) = n + 1 /\ all[n + 1] = frame /\ all # <<>>
      /\ \A i \in 1 .. n : all[i] = frames[i]
  BY AppendProperties
<1> HIDE DEF all, n
<1>2. \A i \in 1 .. n : Follows(all[i + 1], all[i].truth)
  <2> TAKE i \in 1 .. n
  <2>1. CASE i = n
    BY <1>1, <2>1 DEF Follows
  <2>2. CASE i # n
    <3>1. i \in 1 .. n - 1 /\ i + 1 \in 1 .. n
      BY <1>1, <2>2
    <3>2. Follows(frames[i + 1], frames[i].truth)
      BY <3>1 DEF Unbroken, n
    <3>3. QED
      BY <1>1, <3>1, <3>2
  <2>3. QED
    BY <2>1, <2>2
<1>3. Len(all) - 1 = n
  BY <1>1
<1>4. QED
  BY <1>1, <1>2, <1>3 DEF Unbroken, all

\* What is on its way, with and without what is in hand.
LEMMA OnTheWayIsFrames ==
  ASSUME LinkTypes, NEW c \in Connection
  PROVE  hand[c] \in OrIdle /\ wire[c] \in Seq(Frame) /\ wire[c] \in Seq(OrIdle)
<1>1. hand[c] \in OrIdle /\ wire[c] \in Seq(Frame)
  BY DEF LinkTypes, OrIdle
<1>2. wire[c] \in Seq(OrIdle)
  BY <1>1 DEF OrIdle
<1>3. QED
  BY <1>1, <1>2

\* The ticker frames that are left are a sequence.
LEMMA TickersLeftIsSeq ==
  ASSUME NEW h \in OrIdle, NEW w \in Seq(OrIdle)
  PROVE  /\ TickerBy(h) \o Tickers(w) \in Seq(TickerFrame)
         /\ TickerBy(h) \in Seq(TickerFrame) /\ Tickers(w) \in Seq(TickerFrame)
<1>1. TickerBy(h) \in Seq(TickerFrame) /\ Tickers(w) \in Seq(TickerFrame)
  BY TickerByIsSeq, TickersIsSeq
<1>2. QED
  BY <1>1

\* No frame in hand: no ticker, and no rows owed.
LEMMA IdleIsNoTicker ==
  /\ TickerBy(Idle) = <<>> /\ Idle \in OrIdle
  /\ \A w : w[2] \in Topic => OwedBy(w, Idle) = <<>>
<1>1. Idle.topic = "none" /\ "none" \notin Topic /\ "none" # "tickers"
  BY DEF Idle, Topic, PrivateTopic
<1>2. QED
  BY <1>1 DEF TickerBy, OwedBy, OrIdle

\* A ticker of which nothing was told.
LEMMA NoTickerType == NoTicker \in [Field -> Nat \union {Fresh}]
  BY DEF NoTicker

\* Nothing is connected, sent or heard at first.
LEMMA StreamTypesInit == StreamInit => StreamTypes
<1> SUFFICES ASSUME StreamInit PROVE StreamTypes
  OBVIOUS
<1>1. LinkTypes
  <2>1. <<>> \in Seq(Frame)
    OBVIOUS
  <2>2. QED
    BY <2>1, Zenon DEF StreamInit, LinkTypes
<1>2. TickerTypes
  <2>1. pushes \in Nat
    BY StreamAssumption DEF StreamInit
  <2>2. [f \in Field |-> 0] \in Truth
    BY DEF Truth
  <2>3. QED
    BY <2>1, <2>2, NoTickerType DEF StreamInit, TickerTypes
<1>3. RowTypes
  BY DEF StreamInit, RowTypes
<1>4. QED
  BY <1>1, <1>2, <1>3 DEF StreamTypes

-------------------------------------------------------------------------------
(* Types, step by step.                                                    *)

\* A handler that is made again starts with a value of its type.
LEMMA RenewTypes ==
  ASSUME QuietInv, StreamTypes, NEW p \in Profile, NEW t, <<p, t>> \in watch,
         NEW frames \in Seq(OrIdle), Renew(p, t, frames), watch' = watch,
         UNCHANGED <<ticker, pushes>>
  PROVE  TickerTypes' /\ RowTypes'
<1>1. CASE t = "tickers"
  <2>1. /\ merged' = [merged EXCEPT ![p] = NoTicker]
        /\ told' = [told EXCEPT ![p] = NoTicker]
        /\ whole' = [whole EXCEPT ![p] = FALSE]
        /\ UNCHANGED <<heard, owed>>
    BY <1>1 DEF Renew, rowVars
  <2>2. QED
    BY <2>1, NoTickerType DEF StreamTypes, TickerTypes, RowTypes
<1>2. CASE t # "tickers"
  <2>1. /\ heard' = [heard EXCEPT ![<<p, t>>] = <<>>]
        /\ owed' = [owed EXCEPT ![<<p, t>>] = Owed(<<p, t>>, frames)]
        /\ UNCHANGED <<merged, told, whole>>
    BY <1>2 DEF Renew, tickerVars
  <2>2. Owed(<<p, t>>, frames) \in Seq(Nat) /\ <<>> \in Seq(Nat)
    <3>1. <<p, t>> \in Profile \X Topic
      BY DEF QuietInv
    <3>2. QED
      BY <3>1, OwedIsSeq
  <2>3. RowTypes'
    BY <2>1, <2>2 DEF StreamTypes, RowTypes
  <2>4. TickerTypes'
    BY <2>1 DEF StreamTypes, TickerTypes
  <2>5. QED
    BY <2>3, <2>4
<1>3. QED
  BY <1>1, <1>2

\* Watch keeps the types.
LEMMA WatchTypes ==
  ASSUME QuietInv, StreamTypes, NEW p \in Profile, NEW t \in Topic, Watch(<<p, Route(t)>>, t)
  PROVE  StreamTypes'
<1> DEFINE c == <<p, Route(t)>>
<1>1. c \in Connection /\ c[1] = p
  BY RouteIsConnection
<1>2. /\ <<p, t>> \in watch /\ watch' = watch /\ UNCHANGED <<ticker, pushes, clients, factories>>
      /\ Renew(p, t, wire[c])
      /\ wanted' = wanted \union {<<p, t>>}
      /\ link' = [link EXCEPT ![c] = IF link[c] \in {"none", "made"} THEN "down" ELSE link[c]]
      /\ subs' = [subs EXCEPT ![c] = subs[c] \union {t}]
      /\ hand' = IF hand[c].topic = t THEN [hand EXCEPT ![c] = Idle] ELSE hand
  BY <1>1 DEF Watch, clientVars, Detached
<1>3. \/ /\ link[c] = "up" /\ server' = [server EXCEPT ![c] = server[c] \union {t}]
         /\ \E answer \in Seq(Frame) : wire' = [wire EXCEPT ![c] = wire[c] \o answer]
      \/ link[c] # "up" /\ UNCHANGED <<server, wire>>
  <2>1. First(p, {t}) \in Seq(Frame) /\ <<>> \in Seq(Frame)
    BY FirstIsFrames DEF StreamTypes, TickerTypes
  <2>2. QED
    BY <1>1, <2>1 DEF Watch
<1>4. wire[c] \in Seq(OrIdle) /\ wire[c] \in Seq(Frame)
  BY <1>1, OnTheWayIsFrames DEF StreamTypes
<1> HIDE DEF c
<1>5. TickerTypes' /\ RowTypes'
  BY <1>2, <1>4, RenewTypes
<1>6. wire' \in [Connection -> Seq(Frame)]
  <2>1. \A answer \in Seq(Frame) : wire[c] \o answer \in Seq(Frame)
    BY <1>4
  <2>2. QED
    BY <1>1, <1>3, <2>1 DEF StreamTypes, LinkTypes
<1>7. hand' \in [Connection -> Frame \union {Idle}]
  BY <1>1, <1>2 DEF StreamTypes, LinkTypes
<1>8. /\ link' \in [Connection -> {"none", "made", "down", "up", "dead", "closed"}]
      /\ server' \in [Connection -> SUBSET Topic]
      /\ wanted' \in SUBSET watch' /\ clients' \in SUBSET factories'
  <2>1. link' \in [Connection -> {"none", "made", "down", "up", "dead", "closed"}]
    BY <1>1, <1>2 DEF StreamTypes, LinkTypes
  <2>2. server' \in [Connection -> SUBSET Topic]
    <3>1. server[c] \union {t} \in SUBSET Topic /\ server \in [Connection -> SUBSET Topic]
      BY <1>1 DEF StreamTypes, LinkTypes
    <3>2. server' = server \/ server' = [server EXCEPT ![c] = server[c] \union {t}]
      BY <1>3
    <3>3. QED
      BY <1>1, <3>1, <3>2
  <2>3. wanted' \in SUBSET watch' /\ clients' \in SUBSET factories'
    BY <1>2 DEF StreamTypes, LinkTypes
  <2>4. QED
    BY <2>1, <2>2, <2>3
<1>9. ASSUME NEW d \in Connection
      PROVE  /\ server'[d] \subseteq subs'[d]
             /\ link'[d] # "up" => server'[d] = {} /\ wire'[d] = <<>>
  <2>1. CASE d = c
    BY <1>1, <1>2, <1>3, <2>1 DEF StreamTypes, LinkTypes, QuietInv
  <2>2. CASE d # c
    BY <1>1, <1>2, <1>3, <2>2 DEF StreamTypes, LinkTypes, QuietInv
  <2>3. QED
    BY <2>1, <2>2
<1>10. QED
  BY <1>5, <1>6, <1>7, <1>8, <1>9 DEF StreamTypes, LinkTypes

\* Unsubscribe keeps the types.
LEMMA UnsubscribeTypes ==
  ASSUME QuietInv, StreamTypes, NEW t \in Topic, Unsubscribe(t)
  PROVE  StreamTypes'
<1> DEFINE c == <<"linear", Route(t)>>
<1>1. c \in Connection /\ c[1] = "linear"
  BY RouteIsConnection DEF Profile
<1>2. /\ UNCHANGED <<watch, wire, ticker, pushes, clients, factories, merged, told, whole, heard,
                     owed>>
      /\ wanted' = wanted \ {<<"linear", t>>}
      /\ link' = [link EXCEPT ![c] = IF link[c] = "none" THEN "made" ELSE link[c]]
      /\ subs' = [subs EXCEPT ![c] = subs[c] \ {t}]
      /\ server' = [server EXCEPT ![c] = server[c] \ {t}]
      /\ hand' = IF hand[c].topic = t THEN [hand EXCEPT ![c] = Idle] ELSE hand
  BY <1>1 DEF Unsubscribe, clientVars, tickerVars, rowVars, countVars, Detached
<1> HIDE DEF c
<1>3. TickerTypes' /\ RowTypes'
  BY <1>2 DEF StreamTypes, TickerTypes, RowTypes
<1>4. hand' \in [Connection -> Frame \union {Idle}]
  BY <1>1, <1>2 DEF StreamTypes, LinkTypes
<1>5. /\ link' \in [Connection -> {"none", "made", "down", "up", "dead", "closed"}]
      /\ server' \in [Connection -> SUBSET Topic] /\ wire' \in [Connection -> Seq(Frame)]
      /\ wanted' \in SUBSET watch' /\ clients' \in SUBSET factories'
  BY <1>1, <1>2 DEF StreamTypes, LinkTypes
<1>6. \A d \in Connection :
          server'[d] \subseteq subs'[d] /\ (link'[d] # "up" => server'[d] = {} /\ wire'[d] = <<>>)
  BY <1>1, <1>2 DEF StreamTypes, LinkTypes, QuietInv
<1>7. QED
  BY <1>3, <1>4, <1>5, <1>6 DEF StreamTypes, LinkTypes

\* Connections that fall silent keep the types.
LEMMA SilencedTypes ==
  ASSUME QuietInv, StreamTypes, NEW cs \in SUBSET Connection, Silenced(cs), NEW state,
         state \in {"closed", "down", "dead"},
         link' = [c \in Connection |-> IF c \in cs THEN state ELSE link[c]],
         UNCHANGED <<clientVars, subs, hand, ticker, tickerVars, heard, wanted, pushes>>
  PROVE  StreamTypes'
<1>1. TickerTypes'
  BY DEF StreamTypes, TickerTypes, tickerVars
<1>2. RowTypes'
  <2>1. ASSUME NEW w \in watch
        PROVE  heard[w] \o Owed(w, <<hand[ConnectionOf(w)]>>) \in Seq(Nat)
    <3>1. w \in Profile \X Topic
      BY DEF QuietInv
    <3>2. ConnectionOf(w) \in Connection
      BY <3>1, ConnectionsOf DEF ConnectionOf
    <3>3. <<hand[ConnectionOf(w)]>> \in Seq(OrIdle)
      BY <3>2, OnTheWayIsFrames DEF StreamTypes
    <3>4. Owed(w, <<hand[ConnectionOf(w)]>>) \in Seq(Nat)
      BY <3>1, <3>3, OwedIsSeq
    <3>5. heard[w] \in Seq(Nat)
      BY DEF StreamTypes, RowTypes
    <3>6. QED
      BY <3>4, <3>5
  <2>2. \A w \in watch : owed[w] \in Seq(Nat)
    BY DEF StreamTypes, RowTypes
  <2>3. owed' \in [watch -> Seq(Nat)]
    BY <2>1, <2>2 DEF Silenced
  <2>4. QED
    BY <2>3 DEF StreamTypes, RowTypes, clientVars
<1>3. /\ server' = [c \in Connection |-> IF c \in cs THEN {} ELSE server[c]]
      /\ wire' = [c \in Connection |-> IF c \in cs THEN <<>> ELSE wire[c]]
  BY DEF Silenced
<1>4. wire' \in [Connection -> Seq(Frame)] /\ server' \in [Connection -> SUBSET Topic]
  <2>1. <<>> \in Seq(Frame)
    OBVIOUS
  <2>2. QED
    BY <1>3, <2>1 DEF StreamTypes, LinkTypes
<1>5. \A d \in Connection :
          server'[d] \subseteq subs'[d] /\ (link'[d] # "up" => server'[d] = {} /\ wire'[d] = <<>>)
  BY <1>3 DEF StreamTypes, LinkTypes
<1>6. link' \in [Connection -> {"none", "made", "down", "up", "dead", "closed"}]
  BY DEF StreamTypes, LinkTypes
<1>7. QED
  BY <1>1, <1>2, <1>4, <1>5, <1>6 DEF StreamTypes, LinkTypes, clientVars

\* Closing and breaking keep the types.
LEMMA LinkStepTypes ==
  ASSUME QuietInv, StreamTypes, LinkStep
  PROVE  StreamTypes'
<1>1. ASSUME NEW p \in Profile, Close(p)
      PROVE  StreamTypes'
  <2>1. PICK seen \in SUBSET Connection :
            /\ link' = [c \in Connection |-> IF c \in seen THEN "closed" ELSE link[c]]
            /\ Silenced(seen)
    BY <1>1 DEF Close
  <2>2. UNCHANGED <<clientVars, subs, hand, ticker, tickerVars, heard, wanted, pushes>>
    BY <1>1 DEF Close, countVars
  <2>3. QED
    BY <2>1, <2>2, SilencedTypes
<1>2. ASSUME NEW c \in Connection, Break(c) \/ ContextDone(c)
      PROVE  StreamTypes'
  <2>1. PICK state \in {"down", "dead"} : link' = [link EXCEPT ![c] = state]
    BY <1>2 DEF Break, ContextDone
  <2>2. link' = [d \in Connection |-> IF d \in {c} THEN state ELSE link[d]]
    BY <2>1 DEF StreamTypes, LinkTypes
  <2>3. Silenced({c}) /\ UNCHANGED <<clientVars, subs, hand, ticker, tickerVars, heard, wanted,
                                     pushes>>
    BY <1>2 DEF Break, ContextDone
  <2>4. {c} \in SUBSET Connection /\ state \in {"closed", "down", "dead"}
    OBVIOUS
  <2>5. QED
    BY <2>2, <2>3, <2>4, SilencedTypes
<1>3. QED
  BY <1>1, <1>2 DEF LinkStep

\* A connection that comes up keeps the types.
LEMMA ConnectTypes ==
  ASSUME QuietInv, StreamTypes, NEW c \in Connection, Connect(c)
  PROVE  StreamTypes'
<1> DEFINE p == c[1]
<1>1. p \in Profile
  BY DEF Connection
<1>2. /\ UNCHANGED <<watch, clients, factories, subs, hand, ticker, wanted, pushes>>
      /\ link' = [link EXCEPT ![c] = "up"]
      /\ server' = [server EXCEPT ![c] = subs[c]]
      /\ wire' = [wire EXCEPT ![c] = First(p, subs[c])]
  BY DEF Connect, clientVars, countVars
<1>3. IF "tickers" \in subs[c] THEN Renew(p, "tickers", <<>>) ELSE UNCHANGED <<tickerVars, rowVars>>
  BY DEF Connect
<1>4. First(p, subs[c]) \in Seq(Frame)
  BY <1>1, FirstIsFrames DEF StreamTypes, TickerTypes
<1>5. TickerTypes' /\ RowTypes'
  <2>1. CASE "tickers" \in subs[c]
    <3>1. <<p, "tickers">> \in watch
      BY <2>1 DEF QuietInv, Topic
    <3>2. <<>> \in Seq(OrIdle)
      OBVIOUS
    <3>3. QED
      BY <1>1, <1>2, <1>3, <2>1, <3>1, <3>2, RenewTypes
  <2>2. CASE "tickers" \notin subs[c]
    BY <1>2, <1>3, <2>2 DEF StreamTypes, TickerTypes, RowTypes, tickerVars, rowVars
  <2>3. QED
    BY <2>1, <2>2
<1>6. subs[c] \in SUBSET Topic
  BY DEF QuietInv
<1> HIDE DEF p
<1>7. QED
  BY <1>2, <1>4, <1>5, <1>6 DEF StreamTypes, LinkTypes

\* A merged ticker has a value in each field.
LEMMA MergedType ==
  ASSUME NEW frame \in TickerFrame, NEW held \in [Field -> Nat \union {Fresh}]
  PROVE  /\ MergeTicker(held, frame.fields) \in [Field -> Nat \union {Fresh}]
         /\ SpotMergeTicker(held, frame.fields) \in [Field -> Nat \union {Fresh}]
<1>1. \A f \in DOMAIN frame.fields : frame.fields[f] = frame.truth[f]
  BY TickerFrameFacts
<1>2. \A f \in Field : frame.truth[f] \in Nat
  BY TickerFrameFacts DEF Truth
<1>3. QED
  BY <1>1, <1>2 DEF MergeTicker, SpotMergeTicker

\* A handler keeps the types.
LEMMA HandleTypes ==
  ASSUME QuietInv, StreamTypes, NEW c \in Connection, Handle(c)
  PROVE  StreamTypes'
<1> DEFINE p == c[1]
           frame == hand[c]
<1>1. p \in Profile
  BY DEF Connection
<1>2. /\ UNCHANGED <<watch, clients, factories, link, subs, server, wire, ticker, wanted, pushes>>
      /\ hand' = [hand EXCEPT ![c] = Idle]
  BY DEF Handle, clientVars, countVars
<1>3. frame \in Frame /\ <<p, frame.topic>> \in watch
  BY RegisteredTopic DEF Handle, StreamTypes, LinkTypes
<1>4. LinkTypes'
  <2> HIDE DEF p, frame
  <2>1. QED
    BY <1>2 DEF StreamTypes, LinkTypes
<1>5. CASE frame.topic = "tickers"
  <2>1. HandleTicker(p, frame)
    BY <1>5 DEF Handle
  <2>2. frame \in TickerFrame
    BY <1>3, <1>5, FrameFacts
  <2> HIDE DEF frame, p
  <2>3. \A held \in {NoTicker, merged[p]} : held \in [Field -> Nat \union {Fresh}]
    BY <1>1, NoTickerType DEF StreamTypes, TickerTypes
  <2>4. frame.truth \in [Field -> Nat \union {Fresh}] /\ frame.snapshot \in BOOLEAN
    BY <2>2, TickerFrameFacts DEF Truth
  <2>5. PICK v \in [Field -> Nat \union {Fresh}] : merged' = [merged EXCEPT ![p] = v]
    BY <2>1, <2>2, <2>3, MergedType DEF HandleTicker
  <2>6. told' = [told EXCEPT ![p] = frame.truth]
        /\ whole' = [whole EXCEPT ![p] = whole[p] \/ frame.snapshot] /\ UNCHANGED <<heard, owed>>
    BY <2>1 DEF HandleTicker, rowVars
  <2>7. TickerTypes' /\ RowTypes'
    BY <1>1, <1>2, <2>4, <2>5, <2>6 DEF StreamTypes, TickerTypes, RowTypes
  <2>8. QED
    BY <1>4, <2>7 DEF StreamTypes
<1>6. CASE frame.topic # "tickers"
  <2>1. HandleRows(p, frame)
    BY <1>6 DEF Handle
  <2>2. frame \in RowFrame
    BY <1>3, <1>6, FrameFacts
  <2>3. Ids(Rows(p, frame)) \in Seq(Nat)
    BY <1>1, <2>2, RowsAreOwed
  <2> HIDE DEF frame, p
  <2>4. heard' = [heard EXCEPT ![<<p, frame.topic>>] =
                     heard[<<p, frame.topic>>] \o Ids(Rows(p, frame))]
        /\ UNCHANGED <<merged, told, whole, owed>>
    BY <2>1 DEF HandleRows, tickerVars
  <2>5. heard[<<p, frame.topic>>] \in Seq(Nat)
    BY <1>3 DEF StreamTypes, RowTypes
  <2>6. heard[<<p, frame.topic>>] \o Ids(Rows(p, frame)) \in Seq(Nat)
    BY <2>3, <2>5
  <2>7. RowTypes'
    BY <1>2, <1>3, <2>4, <2>6 DEF StreamTypes, RowTypes
  <2>8. TickerTypes'
    BY <1>2, <2>4 DEF StreamTypes, TickerTypes
  <2>9. QED
    BY <1>4, <2>7, <2>8 DEF StreamTypes
<1>7. QED
  BY <1>5, <1>6

\* Reading a frame keeps the types.
LEMMA ReadTypes ==
  ASSUME QuietInv, StreamTypes, NEW c \in Connection, Read(c)
  PROVE  StreamTypes'
<1>1. wire[c] \in Seq(Frame) /\ wire[c] # <<>>
  BY DEF Read, StreamTypes, LinkTypes
<1>2. Head(wire[c]) \in Frame /\ Tail(wire[c]) \in Seq(Frame)
  BY <1>1
<1>3. /\ UNCHANGED <<watch, clients, factories, link, subs, server, ticker, merged, told, whole,
                     heard, owed, wanted, pushes>>
      /\ wire' = [wire EXCEPT ![c] = Tail(wire[c])]
      /\ hand' = [hand EXCEPT ![c] =
                     IF Head(wire[c]).topic \in subs[c] THEN Head(wire[c]) ELSE Idle]
  BY DEF Read, clientVars, tickerVars, rowVars, countVars
<1>4. TickerTypes' /\ RowTypes'
  BY <1>3 DEF StreamTypes, TickerTypes, RowTypes
<1>5. wire' \in [Connection -> Seq(Frame)] /\ hand' \in [Connection -> Frame \union {Idle}]
  BY <1>2, <1>3 DEF StreamTypes, LinkTypes
<1>6. link[c] = "up"
  BY <1>1 DEF StreamTypes, LinkTypes
<1>7. QED
  BY <1>3, <1>4, <1>5, <1>6 DEF StreamTypes, LinkTypes

\* The ticker as it is after a change, and the frame that tells of it.
After(p, changed) == [f \in Field |-> IF f \in changed THEN ticker[p][f] + 1 ELSE ticker[p][f]]

\* The frame that tells that fields of a ticker have changed.
Delta(p, changed) ==
    [topic |-> "tickers", fields |-> [f \in changed |-> After(p, changed)[f]],
     snapshot |-> FALSE, truth |-> After(p, changed)]

\* It is a ticker frame, and follows the ticker before it.
LEMMA DeltaIsFrame ==
  ASSUME TickerTypes, NEW p \in Profile, NEW changed \in SUBSET Field, changed # {}
  PROVE  /\ After(p, changed) \in Truth
         /\ Delta(p, changed) \in TickerFrame
         /\ Delta(p, changed).truth = After(p, changed)
         /\ Follows(Delta(p, changed), ticker[p])
<1> DEFINE after == After(p, changed)
           fields == [f \in changed |-> after[f]]
<1>1. \A f \in Field : ticker[p][f] \in Nat
  BY DEF TickerTypes, Truth
<1>2. after \in Truth
  BY <1>1 DEF After, Truth
<1>3. \A f \in Field \ changed : after[f] = ticker[p][f]
  BY DEF After
<1> HIDE DEF after
<1>4. /\ fields \in [changed -> Nat] /\ DOMAIN fields = changed
      /\ \A f \in changed : fields[f] = after[f]
  BY <1>2 DEF Truth
<1> HIDE DEF fields
<1>5. [topic |-> "tickers", fields |-> fields, snapshot |-> FALSE, truth |-> after] \in TickerFrame
  BY <1>2, <1>4, TickerFrameIs
<1>6. QED
  BY <1>2, <1>3, <1>4, <1>5 DEF Delta, after, fields, Follows

\* What a change of a ticker does, by name.
LEMMA ChangeTickerStep ==
  ASSUME NEW p \in Profile, NEW changed \in (SUBSET Field) \ {{}}, ChangeTicker(p, changed)
  PROVE  /\ pushes > 0 /\ pushes' = pushes - 1
         /\ ticker' = [ticker EXCEPT ![p] = After(p, changed)]
         /\ wire' = [wire EXCEPT ![Public(p)] =
                        IF "tickers" \in server[Public(p)]
                        THEN Append(wire[Public(p)], Delta(p, changed)) ELSE wire[Public(p)]]
         /\ UNCHANGED <<watch, clients, factories, link, subs, server, hand, merged, told, whole,
                        heard, owed, wanted>>
  BY DEF ChangeTicker, After, Delta, Public, clientVars, tickerVars, rowVars

\* A change of a ticker keeps the types.
LEMMA ChangeTickerTypes ==
  ASSUME QuietInv, StreamTypes, NEW p \in Profile, NEW changed \in (SUBSET Field) \ {{}},
         ChangeTicker(p, changed)
  PROVE  StreamTypes'
<1> DEFINE c == Public(p)
<1>1. c \in Connection
  BY ConnectionsOf DEF Public
<1>2. After(p, changed) \in Truth /\ Delta(p, changed) \in Frame
  <2>1. changed \in SUBSET Field /\ changed # {}
    OBVIOUS
  <2>2. After(p, changed) \in Truth /\ Delta(p, changed) \in TickerFrame
    BY <2>1, DeltaIsFrame DEF StreamTypes
  <2>3. QED
    BY <2>2 DEF Frame
<1>3. /\ pushes > 0 /\ pushes' = pushes - 1
      /\ ticker' = [ticker EXCEPT ![p] = After(p, changed)]
      /\ wire' = [wire EXCEPT ![c] = IF "tickers" \in server[c]
                        THEN Append(wire[c], Delta(p, changed)) ELSE wire[c]]
      /\ UNCHANGED <<watch, clients, factories, link, subs, server, hand, merged, told, whole,
                     heard, owed, wanted>>
  BY ChangeTickerStep, Zenon
<1> HIDE DEF c
<1>4. TickerTypes' /\ RowTypes'
  BY <1>2, <1>3 DEF StreamTypes, TickerTypes, RowTypes
<1>5. wire' \in [Connection -> Seq(Frame)]
  <2>1. Append(wire[c], Delta(p, changed)) \in Seq(Frame)
    BY <1>1, <1>2 DEF StreamTypes, LinkTypes
  <2>2. QED
    BY <1>1, <1>3, <2>1 DEF StreamTypes, LinkTypes
<1>6. "tickers" \in server[c] => link[c] = "up"
  BY <1>1 DEF StreamTypes, LinkTypes
<1>7. QED
  BY <1>1, <1>3, <1>4, <1>5, <1>6 DEF StreamTypes, LinkTypes

\* The frame of a push of rows.
RowsFrame(t, categories) ==
    [topic |-> t,
     rows |-> [i \in DOMAIN categories |-> [id |-> 2 * pushes - i, category |-> categories[i]]]]

\* Rows that are pushed are a frame.
LEMMA RowsFrameIsFrame ==
  ASSUME pushes \in Nat, pushes > 0, NEW t \in Topic \ {"tickers"}, NEW categories \in Categories(t)
  PROVE  RowsFrame(t, categories) \in RowFrame /\ RowsFrame(t, categories).topic = t
<1> DEFINE row(i) == [id |-> 2 * pushes - i, category |-> categories[i]]
           n == Len(categories)
<1>1. categories \in Seq(Category) /\ n \in 1 .. 2
  <2>1. \A a, b \in Category : <<a>> \in Seq(Category) /\ <<a, b>> \in Seq(Category)
    OBVIOUS
  <2>2. \A a, b : Len(<<a>>) = 1 /\ Len(<<a, b>>) = 2
    OBVIOUS
  <2>3. "linear" \in Category /\ "spot" \in Category /\ NoCategory \in Category
    BY DEF Category
  <2>4. \/ \E a \in Category : categories = <<a>>
        \/ \E a, b \in Category : categories = <<a, b>>
    BY <2>3 DEF Categories
  <2>5. categories \in Seq(Category)
    BY <2>1, <2>4
  <2>6. Len(categories) = 1 \/ Len(categories) = 2
    BY <2>2, <2>4, Zenon
  <2>7. QED
    BY <2>5, <2>6
<1>2. \A i \in 1 .. n : row(i) \in Row
  BY <1>1 DEF Row
<1>3. DOMAIN categories = 1 .. n /\ n \in Nat
  BY <1>1
<1> HIDE DEF row, n
<1>4. [i \in 1 .. n |-> row(i)] \in Seq(Row)
  BY <1>2, <1>3
<1>5. QED
  BY <1>3, <1>4 DEF RowsFrame, RowFrame, row

\* What a push of rows does, by name.
LEMMA PushRowsStep ==
  ASSUME NEW t \in Topic \ {"tickers"}, NEW categories \in Categories(t), PushRows(t, categories)
  PROVE  /\ pushes > 0 /\ pushes' = pushes - 1
         /\ wire' = [c \in Connection |-> IF t \in server[c]
                        THEN Append(wire[c], RowsFrame(t, categories)) ELSE wire[c]]
         /\ owed' = [w \in watch |->
                        IF w[2] = t /\ {c \in Connection : c[1] = w[1] /\ t \in server[c]} # {}
                        THEN owed[w] \o RowsOf(w, RowsFrame(t, categories)) ELSE owed[w]]
         /\ UNCHANGED <<watch, clients, factories, link, subs, server, hand, ticker, merged,
                        told, whole, heard, wanted>>
  BY DEF PushRows, RowsFrame, clientVars, tickerVars

\* A push of rows keeps the types.
LEMMA PushRowsTypes ==
  ASSUME QuietInv, StreamTypes, NEW t \in Topic \ {"tickers"}, NEW categories \in Categories(t),
         PushRows(t, categories)
  PROVE  StreamTypes'
<1> DEFINE frame == RowsFrame(t, categories)
<1>1. /\ pushes > 0 /\ pushes' = pushes - 1
      /\ wire' = [c \in Connection |-> IF t \in server[c] THEN Append(wire[c], frame) ELSE wire[c]]
      /\ owed' = [w \in watch |->
                     IF w[2] = t /\ {c \in Connection : c[1] = w[1] /\ t \in server[c]} # {}
                     THEN owed[w] \o RowsOf(w, frame) ELSE owed[w]]
      /\ UNCHANGED <<watch, clients, factories, link, subs, server, hand, ticker, merged, told,
                     whole, heard, wanted>>
  BY PushRowsStep, Zenon
<1>2. frame \in RowFrame /\ frame.topic = t /\ frame \in Frame
  BY <1>1, RowsFrameIsFrame DEF StreamTypes, TickerTypes, Frame
<1> HIDE DEF frame
<1>3. TickerTypes'
  BY <1>1 DEF StreamTypes, TickerTypes
<1>4. RowTypes'
  <2>1. ASSUME NEW w \in watch, w[2] = t
        PROVE  owed[w] \o RowsOf(w, frame) \in Seq(Nat)
    <3>1. w = <<w[1], frame.topic>> /\ w[1] \in Profile
      BY <1>2, <2>1 DEF QuietInv
    <3>2. RowsOf(w, frame) \in Seq(Nat)
      BY <1>2, <3>1, RowsAreOwed
    <3>3. owed[w] \in Seq(Nat)
      BY DEF StreamTypes, RowTypes
    <3>4. QED
      BY <3>2, <3>3
  <2>2. \A w \in watch : owed[w] \in Seq(Nat)
    BY DEF StreamTypes, RowTypes
  <2>3. owed' \in [watch -> Seq(Nat)]
    BY <1>1, <2>1, <2>2
  <2>4. QED
    BY <1>1, <2>3 DEF StreamTypes, RowTypes
<1>5. wire' \in [Connection -> Seq(Frame)]
  <2>1. \A c \in Connection : Append(wire[c], frame) \in Seq(Frame) /\ wire[c] \in Seq(Frame)
    BY <1>2 DEF StreamTypes, LinkTypes
  <2>2. QED
    BY <1>1, <2>1
<1>6. \A c \in Connection : link[c] # "up" => server[c] = {} /\ wire'[c] = <<>>
  BY <1>1 DEF StreamTypes, LinkTypes
<1>7. QED
  BY <1>1, <1>3, <1>4, <1>5, <1>6 DEF StreamTypes, LinkTypes

\* Every step keeps the types.
LEMMA StreamTypesStep ==
  ASSUME QuietInv, StreamTypes, [StreamNext]_streamVars
  PROVE  StreamTypes'
<1>1. CASE UNCHANGED streamVars
  BY <1>1 DEF streamVars, clientVars, tickerVars, rowVars, countVars, StreamTypes, LinkTypes,
      TickerTypes, RowTypes
<1>2. CASE RoutedWatchStep
  BY <1>2, WatchTypes DEF RoutedWatchStep
<1>3. CASE QuietStep
  <2>1. ASSUME NEW p \in Profile, Accessor(p)
        PROVE  StreamTypes'
    BY <2>1 DEF Accessor, tickerVars, rowVars, countVars, StreamTypes, LinkTypes, TickerTypes,
        RowTypes
  <2>2. QED
    BY <1>3, <2>1, ReadTypes, ChangeTickerTypes, PushRowsTypes DEF QuietStep
<1>4. CASE LinkStep
  BY <1>4, LinkStepTypes
<1>5. QED
  BY <1>1, <1>2, <1>3, <1>4, UnsubscribeTypes, ConnectTypes, HandleTypes, WatchIsRouted

-------------------------------------------------------------------------------
(* Tickers, step by step.                                                  *)

\* Nothing is told and nothing is on its way at first.
LEMMA TickerInit == StreamInit => TickerInv
<1> SUFFICES ASSUME StreamInit, NEW p \in Profile PROVE SoundTicker(p)
  BY DEF TickerInv
<1>1. Public(p) \in Connection
  BY ConnectionsOf DEF Public
<1>2. hand[Public(p)] = Idle /\ wire[Public(p)] = <<>> /\ server[Public(p)] = {} /\ ~ whole[p]
  BY <1>1 DEF StreamInit
<1>3. TickersLeft(Public(p)) = <<>>
  <2>1. <<>> \o <<>> = <<>>
    OBVIOUS
  <2>2. QED
    BY <1>2, <2>1, TickersEmpty, IdleIsNoTicker DEF TickersLeft
<1>5. Unbroken(<<>>, subs[Public(p)], {}, whole[p], told[p], ticker[p])
  BY UnbrokenEmpty
<1>6. QED
  BY <1>2, <1>3, <1>5 DEF SoundTicker

\* Nothing has happened to the ticker of a profile.
LEMMA SameTicker ==
  ASSUME NEW p \in Profile, SoundTicker(p),
         TickersLeft(Public(p))' = TickersLeft(Public(p)),
         ("tickers" \in subs'[Public(p)]) <=> ("tickers" \in subs[Public(p)]),
         ("tickers" \in server'[Public(p)]) => ("tickers" \in server[Public(p)]),
         whole'[p] = whole[p], told'[p] = told[p], merged'[p] = merged[p], ticker'[p] = ticker[p]
  PROVE  SoundTicker(p)'
  BY DEF SoundTicker, Unbroken

\* A frame that is dropped, of a handler that is not called any more.
LEMMA DropHand ==
  ASSUME NEW h \in OrIdle, NEW rest \in Seq(TickerFrame), NEW s, NEW p, NEW c, NEW t, NEW now,
         Unbroken(TickerBy(h) \o rest, s, p, c, t, now)
  PROVE  /\ \A i \in 1 .. Len(rest) - 1 : Follows(rest[i + 1], rest[i].truth)
         /\ "tickers" \in p /\ rest # <<>> => rest[Len(rest)].truth = now
<1>1. CASE h.topic = "tickers"
  <2>1. TickerBy(h) = <<h>> /\ h \in TickerFrame
    <3>1. h \in Frame
      BY <1>1 DEF OrIdle, Idle
    <3>2. QED
      BY <1>1, <3>1, FrameFacts DEF TickerBy
  <2>2. Unbroken(rest, s, p, FALSE, h.truth, now)
    BY <2>1, UnbrokenHead
  <2>3. QED
    BY <2>2 DEF Unbroken
<1>2. CASE h.topic # "tickers"
  <2>1. TickerBy(h) = <<>> /\ <<>> \o rest = rest
    BY <1>2 DEF TickerBy
  <2>2. Unbroken(rest, s, p, c, t, now)
    BY <2>1, Zenon
  <2>3. QED
    BY <2>2 DEF Unbroken
<1>3. QED
  BY <1>1, <1>2

\* WatchTicker makes the handler anew, which waits for the snapshot.
LEMMA WatchKeepsTickers ==
  ASSUME QuietInv, StreamTypes, StreamTypes', TickerInv, NEW p \in Profile, NEW t \in Topic,
         Watch(<<p, Route(t)>>, t)
  PROVE  TickerInv'
<1> SUFFICES ASSUME NEW q \in Profile PROVE SoundTicker(q)'
  BY DEF TickerInv
<1> DEFINE c == <<p, Route(t)>>
           d == Public(q)
<1>1. c \in Connection /\ c[1] = p /\ d \in Connection /\ d = <<q, "public">>
  BY RouteIsConnection, ConnectionsOf DEF Public
<1>0. SoundTicker(q)
  BY DEF TickerInv
<1>2. /\ UNCHANGED ticker
      /\ Renew(p, t, wire[c])
      /\ subs' = [subs EXCEPT ![c] = subs[c] \union {t}]
      /\ hand' = IF hand[c].topic = t THEN [hand EXCEPT ![c] = Idle] ELSE hand
  BY <1>1 DEF Watch, Detached
<1>3. \/ /\ link[c] = "up" /\ server' = [server EXCEPT ![c] = server[c] \union {t}]
         /\ \/ wire' = [wire EXCEPT ![c] = wire[c] \o First(p, {t})]
            \/ wire' = [wire EXCEPT ![c] = wire[c] \o <<>>] /\ t \in server[c]
      \/ link[c] # "up" /\ UNCHANGED <<server, wire>>
  BY <1>1 DEF Watch
<1>4. Route("tickers") = "public"
  BY DEF Route, PrivateTopic
<1>5. /\ DOMAIN hand = Connection /\ DOMAIN wire = Connection /\ DOMAIN server = Connection
      /\ DOMAIN subs = Connection /\ DOMAIN told = Profile /\ DOMAIN merged = Profile
      /\ DOMAIN whole = Profile /\ DOMAIN ticker = Profile
  BY DEF StreamTypes, LinkTypes, TickerTypes, QuietInv
<1>6. hand[d] \in OrIdle /\ wire[d] \in Seq(OrIdle)
  BY <1>1, OnTheWayIsFrames DEF StreamTypes
<1>7. CASE c # d \/ t # "tickers"
  <2>1. p = q => t # "tickers"
    BY <1>1, <1>4, <1>7
  <2>2. whole'[q] = whole[q] /\ told'[q] = told[q] /\ merged'[q] = merged[q]
            /\ ticker'[q] = ticker[q]
    BY <1>2, <1>5, <2>1 DEF Renew, tickerVars
  <2>3. TickersLeft(d)' = TickersLeft(d)
    <3>1. CASE c # d
      <4> HIDE DEF c, d
      <4>1. hand'[d] = hand[d] /\ wire'[d] = wire[d]
        BY <1>1, <1>2, <1>3, <1>5, <3>1
      <4>2. QED
        BY <4>1 DEF TickersLeft
    <3>2. CASE c = d
      <4>1. t # "tickers" /\ First(p, {t}) = <<>>
        BY <1>7, <3>2 DEF First
      <4> HIDE DEF c, d
      <4>2. wire[d] \o <<>> = wire[d]
        BY <1>6
      <4>3. wire'[d] = wire[d]
        BY <1>1, <1>3, <1>5, <3>2, <4>1, <4>2
      <4>4. hand'[d] = hand[d] \/ (hand'[d] = Idle /\ hand[d].topic # "tickers")
        BY <1>1, <1>2, <1>5, <3>2, <4>1
      <4>5. TickerBy(hand'[d]) = TickerBy(hand[d])
        BY <4>4, IdleIsNoTicker DEF TickerBy
      <4>6. QED
        BY <4>3, <4>5 DEF TickersLeft
    <3>3. QED
      BY <3>1, <3>2
  <2>4. /\ ("tickers" \in subs'[d]) <=> ("tickers" \in subs[d])
        /\ ("tickers" \in server'[d]) <=> ("tickers" \in server[d])
    <3> HIDE DEF c, d
    <3>1. QED
      BY <1>1, <1>2, <1>3, <1>5, <1>7
  <2>5. QED
    BY <1>0, <2>2, <2>3, <2>4, SameTicker
<1>8. CASE c = d /\ t = "tickers"
  <2>1. p = q
    BY <1>1, <1>8
  <2>2. ~ whole'[q] /\ ticker'[q] = ticker[q]
    BY <1>2, <1>5, <1>8, <2>1 DEF Renew
  <2> DEFINE rest == Tickers(wire[d])
  <2>3. hand'[d] \in OrIdle /\ TickerBy(hand'[d]) = <<>>
    <3> HIDE DEF c, d
    <3>1. hand'[d] = Idle \/ (hand'[d] = hand[d] /\ hand[d].topic # "tickers")
      BY <1>1, <1>2, <1>5, <1>8
    <3>2. QED
      BY <1>6, <3>1, IdleIsNoTicker DEF TickerBy
  <2>4. rest \in Seq(TickerFrame)
    BY <1>6, TickersIsSeq
  <2>5. Unbroken(TickerBy(hand[d]) \o rest, subs[d], server[d],
                 whole[q], told[q], ticker[q])
    BY <1>0 DEF SoundTicker, TickersLeft
  <2>6. /\ \A i \in 1 .. Len(rest) - 1 : Follows(rest[i + 1], rest[i].truth)
        /\ "tickers" \in server[d] /\ rest # <<>> => rest[Len(rest)].truth = ticker[q]
    <3> HIDE DEF rest, d
    <3>0. hand[d] \in OrIdle
      BY <1>6
    <3>1. QED
      BY <3>0, <2>4, <2>5, DropHand
  <2>7. CASE wire'[d] = wire[d] /\ ("tickers" \in server'[d] => "tickers" \in server[d])
    <3>1. TickersLeft(d)' = rest
      <4>1. <<>> \o rest = rest
        BY <2>4
      <4> HIDE DEF d
      <4>2. QED
        BY <2>3, <2>7, <4>1 DEF TickersLeft
    <3>2. Unbroken(rest, subs'[d], server'[d], FALSE, told'[q], ticker[q])
      <4> HIDE DEF rest, d
      <4>1. QED
        BY <2>6, <2>7 DEF Unbroken
    <3> HIDE DEF rest
    <3>3. QED
      BY <2>2, <3>1, <3>2 DEF SoundTicker, Unbroken
  <2>8. CASE wire'[d] = Append(wire[d], SnapshotOf(p)) /\ "tickers" \in server'[d]
    <3> DEFINE snapshot == SnapshotOf(p)
    <3>1. snapshot \in TickerFrame /\ snapshot.truth = ticker[q] /\ DOMAIN snapshot.fields = Field
      BY <2>1, SnapshotIsFrame DEF StreamTypes, TickerTypes, Truth
    <3>2. TickerBy(snapshot) = <<snapshot>> /\ snapshot \in OrIdle
      BY <3>1, TickerFrameFacts DEF TickerBy, OrIdle, Frame
    <3> HIDE DEF snapshot
    <3>3. Tickers(Append(wire[d], snapshot)) = Append(rest, snapshot)
      <4>1. Tickers(Append(wire[d], snapshot)) = rest \o <<snapshot>>
        BY <1>6, <3>2, TickersAppend
      <4> HIDE DEF rest
      <4>2. rest \o <<snapshot>> = Append(rest, snapshot)
        BY <2>4, <3>1
      <4>3. QED
        BY <4>1, <4>2
    <3>4. TickersLeft(d)' = Append(rest, snapshot)
      <4>1. <<>> \o Append(rest, snapshot) = Append(rest, snapshot)
        BY <2>4, <3>1
      <4> HIDE DEF d, rest
      <4>2. QED
        BY <2>3, <2>8, <3>3, <4>1 DEF TickersLeft, snapshot
    <3> HIDE DEF rest
    <3>5. Unbroken(Append(rest, snapshot), subs'[d], server'[d], FALSE, told'[q], snapshot.truth)
      <4>1. Unbroken(rest, {}, {}, FALSE, told[q], ticker[q])
        BY <2>6 DEF Unbroken
      <4>2. QED
        BY <2>4, <3>1, <4>1, UnbrokenSnapshot
    <3>6. QED
      BY <2>2, <2>8, <3>1, <3>4, <3>5 DEF SoundTicker, Unbroken
  <2>9. \/ wire'[d] = wire[d] /\ ("tickers" \in server'[d] => "tickers" \in server[d])
        \/ wire'[d] = Append(wire[d], SnapshotOf(p)) /\ "tickers" \in server'[d]
    <3>1. First(p, {t}) = <<SnapshotOf(p)>>
      BY <1>8 DEF First
    <3>2. SnapshotOf(p) \in OrIdle
      BY SnapshotIsFrame DEF StreamTypes, TickerTypes, OrIdle, Frame
    <3>3. wire[d] \o <<>> = wire[d] /\ \A x \in OrIdle : wire[d] \o <<x>> = Append(wire[d], x)
      <4> HIDE DEF d
      <4>1. QED
        BY <1>6
    <3> HIDE DEF c, d
    <3>4. \/ wire'[d] = wire[d] \o <<SnapshotOf(p)>> /\ server'[d] = server[d] \union {"tickers"}
          \/ /\ wire'[d] = wire[d] \o <<>> /\ server'[d] = server[d] \union {"tickers"}
             /\ "tickers" \in server[d]
          \/ wire'[d] = wire[d] /\ server'[d] = server[d]
      BY <1>1, <1>3, <1>5, <1>8, <3>1
    <3>5. QED
      BY <3>2, <3>3, <3>4
  <2>10. QED
    BY <2>7, <2>8, <2>9
<1>9. QED
  BY <1>7, <1>8

\* Unsubscribe drops the handler and what it had in hand.
LEMMA UnsubscribeKeepsTickers ==
  ASSUME QuietInv, StreamTypes, TickerInv, NEW t \in Topic, Unsubscribe(t)
  PROVE  TickerInv'
<1> SUFFICES ASSUME NEW q \in Profile PROVE SoundTicker(q)'
  BY DEF TickerInv
<1> DEFINE c == <<"linear", Route(t)>>
           d == Public(q)
<1>0. SoundTicker(q)
  BY DEF TickerInv
<1>1. c \in Connection /\ d \in Connection
  BY RouteIsConnection, ConnectionsOf DEF Public, Profile
<1>2. /\ UNCHANGED <<wire, ticker, merged, told, whole>>
      /\ subs' = [subs EXCEPT ![c] = subs[c] \ {t}]
      /\ server' = [server EXCEPT ![c] = server[c] \ {t}]
      /\ hand' = IF hand[c].topic = t THEN [hand EXCEPT ![c] = Idle] ELSE hand
  BY <1>1 DEF Unsubscribe, tickerVars, Detached
<1>3. DOMAIN hand = Connection /\ DOMAIN server = Connection /\ DOMAIN subs = Connection
  BY DEF StreamTypes, LinkTypes, QuietInv
<1>4. hand[d] \in OrIdle /\ wire[d] \in Seq(OrIdle)
  BY <1>1, OnTheWayIsFrames DEF StreamTypes
<1> HIDE DEF c, d
<1>5. CASE c # d \/ t # "tickers"
  <2>1. hand'[d] = hand[d] \/ (hand'[d] = Idle /\ hand[d].topic # "tickers")
    BY <1>1, <1>2, <1>3, <1>5
  <2>2. TickerBy(hand'[d]) = TickerBy(hand[d])
    BY <2>1, IdleIsNoTicker DEF TickerBy
  <2>3. TickersLeft(d)' = TickersLeft(d)
    BY <1>2, <2>2 DEF TickersLeft
  <2>4. /\ ("tickers" \in subs'[d]) <=> ("tickers" \in subs[d])
        /\ ("tickers" \in server'[d]) <=> ("tickers" \in server[d])
    BY <1>1, <1>2, <1>3, <1>5
  <2>5. QED
    BY <1>0, <1>2, <2>3, <2>4, SameTicker DEF d
<1>6. CASE c = d /\ t = "tickers"
  <2> DEFINE rest == Tickers(wire[d])
  <2>1. "tickers" \notin subs'[d] /\ "tickers" \notin server'[d]
    BY <1>1, <1>2, <1>3, <1>6
  <2>2. hand'[d] = Idle \/ (hand'[d] = hand[d] /\ hand[d].topic # "tickers")
    BY <1>1, <1>2, <1>3, <1>6
  <2>3. TickerBy(hand'[d]) = <<>>
    BY <2>2, IdleIsNoTicker DEF TickerBy
  <2>4. rest \in Seq(TickerFrame)
    BY <1>4, TickersIsSeq
  <2>5. Unbroken(TickerBy(hand[d]) \o rest, subs[d], server[d],
                 whole[q], told[q], ticker[q])
    BY <1>0 DEF SoundTicker, TickersLeft, d
  <2>6. TickersLeft(d)' = rest
    <3>1. <<>> \o rest = rest
      BY <2>4
    <3>2. QED
      BY <1>2, <2>3, <3>1 DEF TickersLeft
  <2> HIDE DEF rest
  <2>7. Unbroken(rest, {}, {}, whole[q], told[q], ticker[q])
    <3>1. \A i \in 1 .. Len(rest) - 1 : Follows(rest[i + 1], rest[i].truth)
      BY <1>4, <2>4, <2>5, DropHand
    <3>2. QED
      BY <3>1 DEF Unbroken
  <2>8. QED
    BY <1>0, <1>2, <2>1, <2>6, <2>7 DEF SoundTicker, Unbroken, d
<1>7. QED
  BY <1>5, <1>6

\* What a broken connection loses is at the end of the chain.
LEMMA SilencedKeepsTickers ==
  ASSUME QuietInv, StreamTypes, TickerInv, NEW cs \in SUBSET Connection, Silenced(cs),
         UNCHANGED <<subs, hand, ticker, tickerVars>>
  PROVE  TickerInv'
<1> SUFFICES ASSUME NEW q \in Profile PROVE SoundTicker(q)'
  BY DEF TickerInv
<1> DEFINE d == Public(q)
<1>0. SoundTicker(q)
  BY DEF TickerInv
<1>1. d \in Connection
  BY ConnectionsOf DEF Public
<1>2. UNCHANGED <<merged, told, whole>>
  BY DEF tickerVars
<1>3. hand[d] \in OrIdle /\ wire[d] \in Seq(OrIdle)
  BY <1>1, OnTheWayIsFrames DEF StreamTypes
<1> HIDE DEF d
<1>4. CASE d \notin cs
  <2>1. wire'[d] = wire[d] /\ server'[d] = server[d]
    BY <1>1, <1>4 DEF Silenced
  <2>2. TickersLeft(d)' = TickersLeft(d)
    BY <2>1 DEF TickersLeft
  <2>3. QED
    BY <1>0, <1>2, <2>1, <2>2, SameTicker DEF d
<1>5. CASE d \in cs
  <2>1. wire'[d] = <<>> /\ server'[d] = {}
    BY <1>1, <1>5 DEF Silenced
  <2>2. TickersLeft(d)' = TickerBy(hand[d])
    <3>1. TickerBy(hand[d]) \o <<>> = TickerBy(hand[d])
      BY <1>3, TickerByIsSeq
    <3>2. QED
      BY <2>1, <3>1, TickersEmpty DEF TickersLeft
  <2>3. Unbroken(TickerBy(hand[d]), subs[d], {}, whole[q], told[q], ticker[q])
    <3>1. CASE hand[d].topic = "tickers"
      <4>1. TickerBy(hand[d]) = <<hand[d]>> /\ hand[d] \in TickerFrame
        <5>1. hand[d] \in Frame
          BY <1>3, <3>1 DEF OrIdle, Idle
        <5>2. QED
          BY <3>1, <5>1, FrameFacts DEF TickerBy
      <4>2. Tickers(wire[d]) \in Seq(TickerFrame)
        BY <1>3, TickersIsSeq
      <4>3. Unbroken(<<hand[d]>> \o Tickers(wire[d]), subs[d], server[d], whole[q], told[q],
                     ticker[q])
        BY <1>0, <4>1 DEF SoundTicker, TickersLeft, d
      <4>4. whole[q] /\ "tickers" \in subs[d] => Follows(hand[d], told[q])
        BY <4>1, <4>2, <4>3, UnbrokenHead
      <4>5. QED
        BY <4>1, <4>4, UnbrokenCut
    <3>2. CASE hand[d].topic # "tickers"
      BY <3>2, UnbrokenEmpty DEF TickerBy
    <3>3. QED
      BY <3>1, <3>2
  <2>4. QED
    BY <1>0, <1>2, <2>1, <2>2, <2>3 DEF SoundTicker, d
<1>6. QED
  BY <1>4, <1>5

\* Closing and breaking lose the end of the chain.
LEMMA LinkStepKeepsTickers ==
  ASSUME QuietInv, StreamTypes, TickerInv, LinkStep
  PROVE  TickerInv'
<1>1. ASSUME NEW p \in Profile, Close(p)
      PROVE  TickerInv'
  <2>1. PICK seen \in SUBSET Connection : Silenced(seen)
    BY <1>1 DEF Close
  <2>2. UNCHANGED <<subs, hand, ticker, tickerVars>>
    BY <1>1 DEF Close
  <2>3. QED
    BY <2>1, <2>2, SilencedKeepsTickers
<1>2. ASSUME NEW c \in Connection, Break(c) \/ ContextDone(c)
      PROVE  TickerInv'
  <2>1. Silenced({c}) /\ UNCHANGED <<subs, hand, ticker, tickerVars>> /\ {c} \in SUBSET Connection
    BY <1>2 DEF Break, ContextDone
  <2>2. QED
    BY <2>1, SilencedKeepsTickers
<1>3. QED
  BY <1>1, <1>2 DEF LinkStep

\* A connection that comes up resets the handler and sends a snapshot.
LEMMA ConnectKeepsTickers ==
  ASSUME QuietInv, StreamTypes, TickerInv, NEW c \in Connection, Connect(c)
  PROVE  TickerInv'
<1> SUFFICES ASSUME NEW q \in Profile PROVE SoundTicker(q)'
  BY DEF TickerInv
<1> DEFINE p == c[1]
           d == Public(q)
<1>0. SoundTicker(q)
  BY DEF TickerInv
<1>1. p \in Profile /\ d \in Connection /\ (c = d => p = q)
  BY ConnectionsOf DEF Public, Connection
<1>2. /\ UNCHANGED <<subs, hand, ticker>> /\ hand[c] = Idle
      /\ server' = [server EXCEPT ![c] = subs[c]]
      /\ wire' = [wire EXCEPT ![c] = First(p, subs[c])]
      /\ IF "tickers" \in subs[c] THEN Renew(p, "tickers", <<>>)
                                 ELSE UNCHANGED <<tickerVars, rowVars>>
  BY DEF Connect
<1>3. /\ DOMAIN wire = Connection /\ DOMAIN server = Connection
      /\ DOMAIN told = Profile /\ DOMAIN merged = Profile /\ DOMAIN whole = Profile
  BY DEF StreamTypes, LinkTypes, TickerTypes
<1>4. "tickers" \in subs[c] => c = Public(p)
  <2>1. "tickers" \in Topic /\ Route("tickers") = "public"
    BY DEF Route, PrivateTopic, Topic
  <2>2. "tickers" \in subs[c] => c = <<p, Route("tickers")>>
    BY <2>1 DEF QuietInv
  <2>3. QED
    BY <2>1, <2>2 DEF Public
<1>5. SnapshotOf(p) \in TickerFrame /\ SnapshotOf(p).truth = ticker[p]
          /\ DOMAIN SnapshotOf(p).fields = Field
  BY <1>1, SnapshotIsFrame DEF StreamTypes, TickerTypes, Truth
<1>6. CASE c # d
  <2>1. "tickers" \in subs[c] => p # q
    BY <1>4, <1>6
  <2> HIDE DEF p, d
  <2>2. wire'[d] = wire[d] /\ server'[d] = server[d]
    BY <1>1, <1>2, <1>3, <1>6
  <2>3. whole'[q] = whole[q] /\ told'[q] = told[q] /\ merged'[q] = merged[q]
    BY <1>1, <1>2, <1>3, <2>1 DEF Renew, tickerVars
  <2>4. TickersLeft(d)' = TickersLeft(d)
    BY <1>2, <2>2 DEF TickersLeft
  <2>5. QED
    BY <1>0, <1>2, <2>2, <2>3, <2>4, SameTicker DEF d
<1>7. CASE c = d /\ "tickers" \in subs[c]
  <2> DEFINE snapshot == SnapshotOf(p)
  <2>1. wire'[d] = <<snapshot>> /\ hand'[d] = Idle /\ ~ whole'[q] /\ ticker'[q] = ticker[p]
    BY <1>1, <1>2, <1>3, <1>7 DEF First, Renew
  <2>2. TickerBy(snapshot) = <<snapshot>> /\ snapshot \in OrIdle
    BY <1>5, TickerFrameFacts DEF TickerBy, OrIdle, Frame
  <2> HIDE DEF snapshot, d, p
  <2>3. Tickers(<<snapshot>>) = <<snapshot>>
    <3>1. <<snapshot>> = Append(<<>>, snapshot) /\ <<>> \in Seq(OrIdle)
              /\ <<>> \o <<snapshot>> = <<snapshot>>
      BY <2>2
    <3>2. Tickers(Append(<<>>, snapshot)) = Tickers(<<>>) \o TickerBy(snapshot)
      BY <2>2, <3>1, TickersAppend
    <3>3. QED
      BY <2>2, <3>1, <3>2, TickersEmpty
  <2>4. TickersLeft(d)' = <<snapshot>>
    <3>1. <<>> \o <<snapshot>> = <<snapshot>>
      OBVIOUS
    <3>2. QED
      BY <2>1, <2>3, <3>1, IdleIsNoTicker DEF TickersLeft
  <2>5. Unbroken(<<snapshot>>, subs'[d], server'[d], FALSE, told'[q], snapshot.truth)
    <3>1. Len(<<snapshot>>) = 1 /\ <<snapshot>>[1] = snapshot /\ 1 .. Len(<<snapshot>>) - 1 = {}
      OBVIOUS
    <3>2. QED
      BY <3>1 DEF Unbroken
  <2>6. snapshot.truth = ticker'[q]
    BY <1>5, <2>1 DEF snapshot
  <2>7. QED
    BY <2>1, <2>4, <2>5, <2>6 DEF SoundTicker, Unbroken, d
<1>8. CASE c = d /\ "tickers" \notin subs[c]
  <2>1. /\ wire'[d] = <<>> /\ hand'[d] = Idle /\ "tickers" \notin server'[d]
        /\ UNCHANGED <<merged, told, whole>>
    BY <1>1, <1>2, <1>3, <1>8 DEF First, tickerVars
  <2> HIDE DEF d, p
  <2>2. TickersLeft(d)' = <<>>
    <3>1. <<>> \o <<>> = <<>>
      OBVIOUS
    <3>2. QED
      BY <2>1, <3>1, IdleIsNoTicker, TickersEmpty DEF TickersLeft
  <2>3. Unbroken(<<>>, subs[d], {}, whole[q], told[q], ticker[q])
    BY UnbrokenEmpty
  <2>4. QED
    BY <1>0, <1>2, <2>1, <2>2, <2>3 DEF SoundTicker, Unbroken, d
<1>9. QED
  BY <1>6, <1>7, <1>8

\* A snapshot is the whole ticker, and a delta is what it was with the changes.
LEMMA MergedIsTruth ==
  ASSUME NEW frame \in TickerFrame, NEW held, frame.snapshot \/ Follows(frame, held)
  PROVE  /\ MergeTicker(held, frame.fields) = frame.truth
         /\ SpotMergeTicker(held, frame.fields) = frame.truth
<1>1. /\ \A f \in DOMAIN frame.fields : frame.fields[f] = frame.truth[f]
      /\ frame.snapshot => DOMAIN frame.fields = Field
      /\ frame.truth \in [Field -> Nat]
  BY TickerFrameFacts DEF Truth
<1>2. \A f \in Field : (IF f \in DOMAIN frame.fields THEN frame.fields[f] ELSE held[f])
                           = frame.truth[f]
  BY <1>1 DEF Follows
<1>3. frame.truth = [f \in Field |-> frame.truth[f]]
  BY <1>1
<1>4. QED
  BY <1>2, <1>3 DEF MergeTicker, SpotMergeTicker

\* A handler merges the first frame of the chain.
LEMMA HandleKeepsTickers ==
  ASSUME QuietInv, StreamTypes, TickerInv, NEW c \in Connection, Handle(c)
  PROVE  TickerInv'
<1> SUFFICES ASSUME NEW q \in Profile PROVE SoundTicker(q)'
  BY DEF TickerInv
<1> DEFINE p == c[1]
           d == Public(q)
           frame == hand[c]
<1>0. SoundTicker(q)
  BY DEF TickerInv
<1>1. p \in Profile /\ d \in Connection /\ (c = d => p = q)
  BY ConnectionsOf DEF Public, Connection
<1>2. UNCHANGED <<subs, server, wire, ticker>> /\ hand' = [hand EXCEPT ![c] = Idle] /\ frame # Idle
  BY DEF Handle
<1>3. /\ DOMAIN hand = Connection /\ DOMAIN told = Profile /\ DOMAIN merged = Profile
      /\ DOMAIN whole = Profile
  BY DEF StreamTypes, LinkTypes, TickerTypes
<1>4. frame.topic = "tickers" => c = Public(p)
  BY <1>2 DEF QuietInv, Route, PrivateTopic, Public, Topic
<1>5. hand[d] \in OrIdle /\ wire[d] \in Seq(OrIdle)
  BY <1>1, OnTheWayIsFrames DEF StreamTypes
<1>6. CASE c # d \/ frame.topic # "tickers"
  <2>1. whole'[q] = whole[q] /\ told'[q] = told[q] /\ merged'[q] = merged[q]
    <3>1. CASE frame.topic = "tickers"
      <4>1. p # q /\ HandleTicker(p, frame)
        BY <1>4, <1>6, <3>1 DEF Handle
      <4>2. QED
        BY <1>1, <1>3, <4>1 DEF HandleTicker
    <3>2. CASE frame.topic # "tickers"
      BY <3>2 DEF Handle, HandleRows, tickerVars
    <3>3. QED
      BY <3>1, <3>2
  <2>2. hand'[d] = hand[d] \/ (hand'[d] = Idle /\ hand[d].topic # "tickers")
    <3> HIDE DEF d
    <3>1. QED
      BY <1>1, <1>2, <1>3, <1>6
  <2>3. TickerBy(hand'[d]) = TickerBy(hand[d])
    BY <2>2, IdleIsNoTicker DEF TickerBy
  <2>4. TickersLeft(d)' = TickersLeft(d)
    <3> HIDE DEF d
    <3>1. QED
      BY <1>2, <2>3 DEF TickersLeft
  <2>5. QED
    BY <1>0, <1>2, <2>1, <2>4, SameTicker
<1>7. CASE c = d /\ frame.topic = "tickers"
  <2> DEFINE rest == Tickers(wire[d])
  <2>1. p = q /\ frame = hand[d] /\ hand'[d] = Idle /\ HandleTicker(q, frame)
    <3>1. HandleTicker(p, frame)
      BY <1>7 DEF Handle
    <3>2. p = q
      BY <1>1, <1>7
    <3> HIDE DEF d
    <3>3. hand'[d] = Idle
      BY <1>1, <1>2, <1>3, <1>7
    <3>4. QED
      BY <1>7, <3>1, <3>2, <3>3
  <2>2. frame \in TickerFrame /\ rest \in Seq(TickerFrame)
    <3>1. frame \in Frame
      BY <1>2, <1>5, <1>7 DEF OrIdle
    <3>2. QED
      BY <1>5, <1>7, <3>1, FrameFacts, TickersIsSeq
  <2>3. Unbroken(<<frame>> \o rest, subs[d], server[d], whole[q], told[q], ticker[q])
    <3>1. TickerBy(frame) = <<frame>>
      BY <1>7 DEF TickerBy
    <3>2. QED
      BY <1>0, <2>1, <3>1 DEF SoundTicker, TickersLeft
  <2>4. "tickers" \in subs[d]
    BY <1>1, <1>2, <1>7 DEF QuietInv
  <2> HIDE DEF frame, d, p, rest
  <2>5. /\ \A done : Unbroken(rest, subs[d], server[d], done, frame.truth, ticker[q])
        /\ whole[q] => Follows(frame, told[q])
    BY <2>2, <2>3, <2>4, UnbrokenHead
  <2>6. TickersLeft(d)' = rest
    <3>1. <<>> \o rest = rest
      BY <2>2
    <3>2. QED
      BY <1>2, <2>1, <3>1, IdleIsNoTicker DEF TickersLeft, rest
  <2>7. /\ told'[q] = frame.truth
        /\ whole'[q] => whole[q] \/ frame.snapshot
        /\ \E held \in {NoTicker, merged[q]} :
               /\ ~ frame.snapshot => held = merged[q]
               /\ merged'[q] \in {MergeTicker(held, frame.fields),
                                  SpotMergeTicker(held, frame.fields)}
    BY <1>3, <2>1 DEF HandleTicker
  <2>8. whole'[q] => merged'[q] = frame.truth
    <3> SUFFICES ASSUME whole'[q] PROVE merged'[q] = frame.truth
      OBVIOUS
    <3>1. PICK held : /\ ~ frame.snapshot => held = merged[q]
                      /\ merged'[q] \in {MergeTicker(held, frame.fields),
                                         SpotMergeTicker(held, frame.fields)}
      BY <2>7
    <3>2. frame.snapshot \/ Follows(frame, held)
      <4>1. CASE ~ frame.snapshot
        <5>1. whole[q] /\ held = told[q]
          BY <1>0, <2>7, <3>1, <4>1 DEF SoundTicker
        <5>2. QED
          BY <2>5, <5>1
      <4>2. QED
        BY <4>1
    <3>3. QED
      BY <2>2, <3>1, <3>2, MergedIsTruth
  <2>9. QED
    BY <1>2, <2>5, <2>6, <2>7, <2>8 DEF SoundTicker, d
<1>8. QED
  BY <1>6, <1>7

\* Reading takes a frame from the wire into the hand, or drops one of no use.
LEMMA ReadKeepsTickers ==
  ASSUME QuietInv, StreamTypes, TickerInv, NEW c \in Connection, Read(c)
  PROVE  TickerInv'
<1> SUFFICES ASSUME NEW q \in Profile PROVE SoundTicker(q)'
  BY DEF TickerInv
<1> DEFINE d == Public(q)
           frame == Head(wire[c])
           rest == Tail(wire[c])
<1>0. SoundTicker(q)
  BY DEF TickerInv
<1>1. d \in Connection
  BY ConnectionsOf DEF Public
<1>2. /\ UNCHANGED <<subs, server, ticker, merged, told, whole>>
      /\ wire' = [wire EXCEPT ![c] = rest] /\ hand[c] = Idle /\ wire[c] # <<>>
      /\ hand' = [hand EXCEPT ![c] = IF frame.topic \in subs[c] THEN frame ELSE Idle]
  BY DEF Read, tickerVars
<1>3. DOMAIN hand = Connection /\ DOMAIN wire = Connection /\ wire[c] \in Seq(Frame)
  BY DEF StreamTypes, LinkTypes
<1>4. frame \in Frame /\ rest \in Seq(Frame) /\ wire[c] = <<frame>> \o rest
  BY <1>2, <1>3
<1>5. frame \in OrIdle /\ rest \in Seq(OrIdle)
  <2> HIDE DEF frame, rest
  <2>1. QED
    BY <1>4 DEF OrIdle
<1> HIDE DEF frame, rest, d
<1>6. CASE c # d
  <2>1. wire'[d] = wire[d] /\ hand'[d] = hand[d]
    BY <1>1, <1>2, <1>3, <1>6
  <2>2. TickersLeft(d)' = TickersLeft(d)
    BY <2>1 DEF TickersLeft
  <2>3. QED
    BY <1>0, <1>2, <2>2, SameTicker DEF d
<1>7. CASE c = d
  <2>1. Tickers(wire[d]) = TickerBy(frame) \o Tickers(rest)
    BY <1>4, <1>5, <1>7, TickersPrepend
  <2>2. TickerBy(frame) \o Tickers(rest) \in Seq(TickerFrame) /\ Tickers(rest) \in Seq(TickerFrame)
    BY <1>5, TickersLeftIsSeq
  <2>3. TickersLeft(d) = TickerBy(frame) \o Tickers(rest)
    <3>1. <<>> \o (TickerBy(frame) \o Tickers(rest)) = TickerBy(frame) \o Tickers(rest)
      BY <2>2
    <3>2. QED
      BY <1>2, <1>7, <2>1, <3>1, IdleIsNoTicker DEF TickersLeft
  <2>4. wire'[d] = rest /\ hand'[d] = IF frame.topic \in subs[d] THEN frame ELSE Idle
    BY <1>1, <1>2, <1>3, <1>7
  <2>5. CASE frame.topic \in subs[d] \/ frame.topic # "tickers"
    <3>1. TickerBy(hand'[d]) = TickerBy(frame)
      BY <2>4, <2>5, IdleIsNoTicker DEF TickerBy
    <3>2. TickersLeft(d)' = TickersLeft(d)
      BY <2>3, <2>4, <3>1 DEF TickersLeft
    <3>3. QED
      BY <1>0, <1>2, <3>2, SameTicker DEF d
  <2>6. CASE "tickers" \notin subs[d] /\ frame.topic = "tickers"
    <3>1. "tickers" \notin server[d]
      BY <1>1, <2>6 DEF StreamTypes, LinkTypes
    <3>2. TickersLeft(d)' = Tickers(rest)
      <4>1. <<>> \o Tickers(rest) = Tickers(rest)
        BY <2>2
      <4>2. QED
        BY <2>4, <2>6, <4>1, IdleIsNoTicker DEF TickersLeft
    <3>3. Unbroken(TickerBy(frame) \o Tickers(rest), subs[d], server[d], whole[q], told[q],
                   ticker[q])
      BY <1>0, <2>3 DEF SoundTicker, d
    <3>4. \A i \in 1 .. Len(Tickers(rest)) - 1 :
              Follows(Tickers(rest)[i + 1], Tickers(rest)[i].truth)
      BY <1>5, <2>2, <3>3, DropHand
    <3>5. Unbroken(Tickers(rest), subs[d], server[d], whole[q], told[q], ticker[q])
      BY <2>6, <3>1, <3>4 DEF Unbroken
    <3>6. QED
      BY <1>0, <1>2, <3>2, <3>5 DEF SoundTicker, d
  <2>7. QED
    BY <2>5, <2>6
<1>8. QED
  BY <1>6, <1>7

\* A change follows what was told last.
LEMMA ChangeKeepsTickers ==
  ASSUME QuietInv, StreamTypes, TickerInv, NEW p \in Profile,
         NEW changed \in (SUBSET Field) \ {{}}, ChangeTicker(p, changed)
  PROVE  TickerInv'
<1> SUFFICES ASSUME NEW q \in Profile PROVE SoundTicker(q)'
  BY DEF TickerInv
<1> DEFINE c == Public(p)
           d == Public(q)
           delta == Delta(p, changed)
           after == After(p, changed)
<1>0. SoundTicker(q)
  BY DEF TickerInv
<1>1. d \in Connection /\ c \in Connection /\ (c = d <=> p = q)
  BY ConnectionsOf DEF Public
<1>2. /\ ticker' = [ticker EXCEPT ![p] = after]
      /\ wire' = [wire EXCEPT ![c] =
                     IF "tickers" \in server[c] THEN Append(wire[c], delta) ELSE wire[c]]
      /\ UNCHANGED <<subs, server, hand, merged, told, whole>>
  BY ChangeTickerStep, Zenon
<1>3. DOMAIN wire = Connection /\ DOMAIN ticker = Profile
  BY DEF StreamTypes, LinkTypes, TickerTypes
<1>4. after \in Truth /\ delta \in TickerFrame /\ delta.truth = after /\ Follows(delta, ticker[p])
  <2>1. changed \in SUBSET Field /\ changed # {}
    OBVIOUS
  <2>2. QED
    BY <2>1, DeltaIsFrame DEF StreamTypes
<1>5. TickerBy(delta) = <<delta>> /\ delta \in OrIdle
  BY <1>4, TickerFrameFacts DEF TickerBy, OrIdle, Frame
<1>6. hand[d] \in OrIdle /\ wire[d] \in Seq(OrIdle)
  BY <1>1, OnTheWayIsFrames DEF StreamTypes
<1> HIDE DEF c, d, delta, after
<1>7. CASE c # d
  <2>1. wire'[d] = wire[d] /\ ticker'[q] = ticker[q]
    BY <1>1, <1>2, <1>3, <1>7
  <2>2. TickersLeft(d)' = TickersLeft(d)
    BY <1>2, <2>1 DEF TickersLeft
  <2>3. QED
    BY <1>0, <1>2, <2>1, <2>2, SameTicker DEF d
<1>8. CASE c = d /\ "tickers" \notin server[d]
  <2>1. wire'[d] = wire[d]
    BY <1>1, <1>2, <1>3, <1>8
  <2>2. TickersLeft(d)' = TickersLeft(d)
    BY <1>2, <2>1 DEF TickersLeft
  <2>3. QED
    BY <1>0, <1>2, <1>8, <2>2 DEF SoundTicker, Unbroken, d
<1>9. CASE c = d /\ "tickers" \in server[d]
  <2> DEFINE left == TickersLeft(d)
  <2>1. wire'[d] = Append(wire[d], delta) /\ ticker'[q] = after /\ p = q
    BY <1>1, <1>2, <1>3, <1>9
  <2>2. left \in Seq(TickerFrame) /\ TickerBy(hand[d]) \in Seq(TickerFrame)
            /\ Tickers(wire[d]) \in Seq(TickerFrame)
    BY <1>6, TickersLeftIsSeq DEF TickersLeft
  <2>3. TickersLeft(d)' = Append(left, delta)
    <3>1. Tickers(Append(wire[d], delta)) = Tickers(wire[d]) \o <<delta>>
      BY <1>5, <1>6, TickersAppend
    <3>2. /\ <<delta>> \in Seq(TickerFrame)
          /\ \A s \in Seq(TickerFrame) : s \o <<delta>> = Append(s, delta)
      BY <1>4
    <3>3. \A a, b, e \in Seq(TickerFrame) : a \o (b \o e) = (a \o b) \o e
      BY JoinIsAssociative
    <3>4. TickerBy(hand[d]) \o (Tickers(wire[d]) \o <<delta>>) = left \o <<delta>>
      BY <2>2, <3>2, <3>3, Zenon DEF TickersLeft
    <3> HIDE DEF left
    <3>5. QED
      BY <1>2, <2>1, <2>2, <3>1, <3>2, <3>4 DEF TickersLeft
  <2>4. Unbroken(left, subs[d], server[d], whole[q], told[q], ticker[q])
    BY <1>0 DEF SoundTicker, d
  <2> HIDE DEF left
  <2>5. Unbroken(Append(left, delta), subs[d], server[d], whole[q], told[q], after)
    BY <1>4, <1>9, <2>1, <2>2, <2>4, UnbrokenAppend
  <2>6. QED
    BY <1>0, <1>2, <2>1, <2>3, <2>5 DEF SoundTicker, d
<1>10. QED
  BY <1>7, <1>8, <1>9

\* Rows are no tickers.
LEMMA PushKeepsTickers ==
  ASSUME QuietInv, StreamTypes, TickerInv, NEW t \in Topic \ {"tickers"},
         NEW categories \in Categories(t), PushRows(t, categories)
  PROVE  TickerInv'
<1> SUFFICES ASSUME NEW q \in Profile PROVE SoundTicker(q)'
  BY DEF TickerInv
<1> DEFINE d == Public(q)
           frame == RowsFrame(t, categories)
<1>0. SoundTicker(q)
  BY DEF TickerInv
<1>1. d \in Connection
  BY ConnectionsOf DEF Public
<1>2. /\ wire' = [c \in Connection |-> IF t \in server[c] THEN Append(wire[c], frame) ELSE wire[c]]
      /\ UNCHANGED <<subs, server, hand, ticker, merged, told, whole>> /\ pushes > 0
  BY PushRowsStep, Zenon
<1>3. frame \in RowFrame /\ frame.topic = t
  BY <1>2, RowsFrameIsFrame DEF StreamTypes, TickerTypes
<1>4. TickerBy(frame) = <<>> /\ frame \in OrIdle
  BY <1>3 DEF TickerBy, OrIdle, Frame
<1>5. wire[d] \in Seq(OrIdle)
  BY <1>1, OnTheWayIsFrames DEF StreamTypes
<1>6. Tickers(wire[d]) \in Seq(TickerFrame)
  BY <1>5, TickersIsSeq
<1> HIDE DEF frame, d
<1>7. Tickers(Append(wire[d], frame)) = Tickers(wire[d])
  <2>1. Tickers(Append(wire[d], frame)) = Tickers(wire[d]) \o <<>>
    BY <1>4, <1>5, TickersAppend
  <2>2. QED
    BY <1>6, <2>1
<1>8. TickersLeft(d)' = TickersLeft(d)
  <2>1. wire'[d] = wire[d] \/ wire'[d] = Append(wire[d], frame)
    BY <1>1, <1>2
  <2>2. QED
    BY <1>2, <1>7, <2>1 DEF TickersLeft
<1>9. QED
  BY <1>0, <1>2, <1>8, SameTicker DEF d

\* Every step keeps the chain unbroken.
LEMMA TickerStep ==
  ASSUME QuietInv, StreamTypes, StreamTypes', TickerInv, [StreamNext]_streamVars
  PROVE  TickerInv'
<1>1. ASSUME UNCHANGED <<subs, server, wire, hand, ticker, tickerVars>>
      PROVE  TickerInv'
  BY <1>1 DEF TickerInv, SoundTicker, TickersLeft, tickerVars
<1>2. CASE UNCHANGED streamVars
  BY <1>1, <1>2 DEF streamVars
<1>3. CASE RoutedWatchStep
  BY <1>3, WatchKeepsTickers DEF RoutedWatchStep
<1>4. CASE QuietStep
  <2>1. ASSUME NEW p \in Profile, Accessor(p)
        PROVE  TickerInv'
    BY <1>1, <2>1 DEF Accessor
  <2>2. QED
    BY <1>4, <2>1, ReadKeepsTickers, ChangeKeepsTickers, PushKeepsTickers DEF QuietStep
<1>5. CASE LinkStep
  BY <1>5, LinkStepKeepsTickers
<1>6. QED
  BY <1>2, <1>3, <1>4, <1>5, UnsubscribeKeepsTickers, ConnectKeepsTickers, HandleKeepsTickers,
     WatchIsRouted

\* With nothing left, what the handler was told last is the ticker of the exchange.
LEMMA TickerInvSuffices ==
  ASSUME QuietInv, StreamTypes, TickerInv
  PROVE  TickerIsWhole
<1> SUFFICES ASSUME NEW p \in Profile, whole[p]
    PROVE  /\ merged[p] = told[p]
           /\ /\ "tickers" \in subs[<<p, "public">>] \intersect server[<<p, "public">>]
              /\ wire[<<p, "public">>] = <<>> /\ hand[<<p, "public">>] = Idle
              => merged[p] = ticker[p]
  BY Zenon DEF TickerIsWhole
<1>1. SoundTicker(p)
  BY DEF TickerInv
<1>2. merged[p] = told[p]
  BY <1>1 DEF SoundTicker
<1>3. ASSUME "tickers" \in server[<<p, "public">>], wire[<<p, "public">>] = <<>>,
             hand[<<p, "public">>] = Idle
      PROVE  told[p] = ticker[p]
  <2>1. TickersLeft(Public(p)) = <<>>
    <3>1. <<>> \o <<>> = <<>>
      OBVIOUS
    <3>2. QED
      BY <1>3, <3>1, TickersEmpty, IdleIsNoTicker DEF TickersLeft, Public
  <2>2. QED
    BY <1>1, <1>3, <2>1 DEF SoundTicker, Unbroken, Public
<1>4. QED
  BY <1>2, <1>3

\* A ticker handler that has read a snapshot holds the exchange's ticker as it was when the
\* last frame it has read was sent, and with no frame left the ticker as it is: no change is
\* lost or merged into what an earlier connection or handler held. (WatchTicker and
\* mergeTickerUpdate of both profiles)
THEOREM TickersAreWhole == StreamSpec => []TickerIsWhole
<1> DEFINE Inv == QuietInv /\ StreamTypes /\ TickerInv
<1>1. StreamInit => Inv
  BY QuietInit, StreamTypesInit, TickerInit
<1>2. Inv /\ [StreamNext]_streamVars => Inv'
  BY QuietStepwise, StreamTypesStep, TickerStep
<1>3. Inv => TickerIsWhole
  BY TickerInvSuffices
<1>4. QED
  BY <1>1, <1>2, <1>3, PTL DEF StreamSpec

-------------------------------------------------------------------------------
(* Rows, step by step.                                                     *)

\* Rows in hand or on their way that a handler is owed.
RowsLeft(w) == OwedBy(w, hand[ConnectionOf(w)]) \o Owed(w, wire[ConnectionOf(w)])

\* What a registered handler has heard and what is left for it is what it is owed.
SoundRows(w) ==
    w[2] \in subs[ConnectionOf(w)] \ {"tickers"} => heard[w] \o RowsLeft(w) = owed[w]

\* The invariant of the rows.
RowsInv == \A w \in watch : SoundRows(w)

\* What may be watched is a topic of a profile, and routed to a connection.
LEMMA WatchedIsRouted ==
  ASSUME QuietInv, NEW w \in watch
  PROVE  /\ w \in Profile \X Topic /\ w[1] \in Profile /\ w[2] \in Topic /\ w = <<w[1], w[2]>>
         /\ ConnectionOf(w) = <<w[1], Route(w[2])>>
         /\ ConnectionOf(w) \in Connection
<1>1. w \in Profile \X Topic
  BY DEF QuietInv
<1>2. w[1] \in Profile /\ w[2] \in Topic /\ w = <<w[1], w[2]>>
  BY <1>1
<1>3. ConnectionOf(w) = <<w[1], Route(w[2])>>
  BY DEF ConnectionOf, Route
<1>4. QED
  BY <1>1, <1>2, <1>3, RouteIsConnection

\* A frame of another topic owes nothing.
LEMMA OtherTopicOwesNothing ==
  ASSUME NEW w, NEW frame, frame.topic # w[2] \/ frame.topic = "tickers"
  PROVE  OwedBy(w, frame) = <<>>
  BY DEF OwedBy

\* One frame owes what it owes.
LEMMA OwedOne ==
  ASSUME NEW w \in Profile \X Topic, NEW frame \in OrIdle
  PROVE  Owed(w, <<frame>>) = OwedBy(w, frame)
<1>1. <<>> \in Seq(OrIdle) /\ <<frame>> = Append(<<>>, frame)
  OBVIOUS
<1>2. Owed(w, Append(<<>>, frame)) = Owed(w, <<>>) \o OwedBy(w, frame)
  BY <1>1, OwedAppend
<1>3. OwedBy(w, frame) \in Seq(Nat)
  BY OwedByIsSeq
<1>4. <<>> \o OwedBy(w, frame) = OwedBy(w, frame)
  BY <1>3
<1>5. QED
  BY <1>1, <1>2, <1>4, OwedEmpty

\* Joining nothing changes nothing.
LEMMA EmptyJoins == \A s \in Seq(Nat) : <<>> \o s = s /\ s \o <<>> = s
  OBVIOUS

\* What is left is rows, by their ids.
LEMMA RowsLeftTypes ==
  ASSUME QuietInv, StreamTypes, NEW w \in watch
  PROVE  /\ hand[ConnectionOf(w)] \in OrIdle /\ wire[ConnectionOf(w)] \in Seq(OrIdle)
         /\ OwedBy(w, hand[ConnectionOf(w)]) \in Seq(Nat)
         /\ Owed(w, wire[ConnectionOf(w)]) \in Seq(Nat)
         /\ heard[w] \in Seq(Nat) /\ owed[w] \in Seq(Nat)
<1>1. hand[ConnectionOf(w)] \in OrIdle /\ wire[ConnectionOf(w)] \in Seq(OrIdle)
  BY WatchedIsRouted, OnTheWayIsFrames DEF StreamTypes
<1>2. heard[w] \in Seq(Nat) /\ owed[w] \in Seq(Nat)
  BY DEF StreamTypes, RowTypes
<1>3. QED
  BY <1>1, <1>2, WatchedIsRouted, OwedByIsSeq, OwedIsSeq

\* Nothing is heard and nothing owed at first.
LEMMA RowsInit == StreamInit => RowsInv
<1> SUFFICES ASSUME StreamInit PROVE RowsInv
  OBVIOUS
<1>1. QuietInv
  BY QuietInit
<1>2. \A w \in watch : subs[ConnectionOf(w)] = {}
  BY <1>1, WatchedIsRouted DEF StreamInit
<1>3. QED
  BY <1>2 DEF RowsInv, SoundRows

\* Nothing has happened to the rows of a topic.
LEMMA SameRows ==
  ASSUME NEW w \in watch, SoundRows(w), RowsLeft(w)' = RowsLeft(w),
         w[2] \in subs'[ConnectionOf(w)] \ {"tickers"} => w[2] \in subs[ConnectionOf(w)],
         heard'[w] = heard[w], owed'[w] = owed[w]
  PROVE  SoundRows(w)'
  BY DEF SoundRows, ConnectionOf

\* What the steps of Watch and Unsubscribe leave in hand for another topic.
LEMMA DetachedOwes ==
  ASSUME NEW w, w[2] \in Topic, NEW t, t # w[2], NEW h, NEW h2, h2 = h \/ (h2 = Idle /\ h.topic = t)
  PROVE  OwedBy(w, h2) = OwedBy(w, h)
<1>1. CASE h2 = Idle /\ h.topic = t
  <2>1. OwedBy(w, h) = <<>> /\ OwedBy(w, Idle) = <<>>
    BY <1>1, OtherTopicOwesNothing, IdleIsNoTicker
  <2>2. QED
    BY <1>1, <2>1
<1>2. QED
  BY <1>1

\* The frames a subscription starts with owe no rows.
LEMMA FirstOwesNothing ==
  ASSUME NEW w \in Profile \X Topic, NEW frames \in Seq(OrIdle), NEW p \in Profile, NEW topics,
         ticker \in [Profile -> Truth]
  PROVE  Owed(w, frames \o First(p, topics)) = Owed(w, frames) /\ Owed(w, First(p, topics)) = <<>>
<1>1. Owed(w, frames) \in Seq(Nat)
  BY OwedIsSeq
<1>2. CASE "tickers" \in topics
  <2> DEFINE snapshot == SnapshotOf(p)
  <2>1. snapshot \in OrIdle /\ snapshot.topic = "tickers"
    BY SnapshotIsFrame, TickerFrameFacts DEF OrIdle, Frame
  <2>2. First(p, topics) = <<snapshot>>
    BY <1>2 DEF First
  <2> HIDE DEF snapshot
  <2>3. OwedBy(w, snapshot) = <<>>
    BY <2>1, OtherTopicOwesNothing
  <2>4. frames \o <<snapshot>> = Append(frames, snapshot)
    BY <2>1
  <2>5. Owed(w, Append(frames, snapshot)) = Owed(w, frames) \o <<>>
    BY <2>1, <2>3, OwedAppend
  <2>6. Owed(w, <<snapshot>>) = <<>>
    BY <2>1, <2>3, OwedOne
  <2>7. QED
    BY <1>1, <2>2, <2>4, <2>5, <2>6, EmptyJoins
<1>3. CASE "tickers" \notin topics
  <2>1. First(p, topics) = <<>> /\ frames \o <<>> = frames
    BY <1>3 DEF First
  <2>2. QED
    BY <2>1, OwedEmpty
<1>4. QED
  BY <1>2, <1>3

\* The same of the first frame alone.
LEMMA FirstAloneOwesNothing ==
  ASSUME NEW w \in Profile \X Topic, NEW p \in Profile, NEW topics,
         ticker \in [Profile -> Truth]
  PROVE  Owed(w, First(p, topics)) = <<>>
<1>1. <<>> \in Seq(OrIdle)
  OBVIOUS
<1> DEFINE none == <<>>
<1> HIDE DEF none
<1>2. none \in Seq(OrIdle)
  BY <1>1 DEF none
<1>3. QED
  BY <1>2, FirstOwesNothing

\* A Watch of a topic starts a handler that has heard nothing.
LEMMA WatchKeepsRows ==
  ASSUME QuietInv, StreamTypes, RowsInv, NEW p \in Profile, NEW t \in Topic,
         Watch(<<p, Route(t)>>, t)
  PROVE  RowsInv'
<1> DEFINE c == <<p, Route(t)>>
<1>1. c \in Connection /\ c[1] = p
  BY RouteIsConnection
<1>2. /\ UNCHANGED watch
      /\ Renew(p, t, wire[c])
      /\ subs' = [subs EXCEPT ![c] = subs[c] \union {t}]
      /\ hand' = IF hand[c].topic = t THEN [hand EXCEPT ![c] = Idle] ELSE hand
  BY <1>1 DEF Watch, Detached, clientVars
<1>3. \/ wire' = [wire EXCEPT ![c] = wire[c] \o First(p, {t})]
      \/ wire' = [wire EXCEPT ![c] = wire[c] \o <<>>]
      \/ wire' = wire
  BY <1>1 DEF Watch
<1>4. /\ DOMAIN hand = Connection /\ DOMAIN wire = Connection /\ DOMAIN subs = Connection
      /\ DOMAIN heard = watch /\ DOMAIN owed = watch /\ ticker \in [Profile -> Truth]
  BY DEF StreamTypes, LinkTypes, TickerTypes, RowTypes, QuietInv
<1> SUFFICES ASSUME NEW w \in watch PROVE SoundRows(w)'
  BY <1>2 DEF RowsInv
<1> DEFINE d == ConnectionOf(w)
<1>5. SoundRows(w)
  BY DEF RowsInv
<1>6. /\ w \in Profile \X Topic /\ w[2] \in Topic /\ w = <<w[1], w[2]>> /\ w[1] \in Profile
      /\ d = <<w[1], Route(w[2])>> /\ d \in Connection
  BY WatchedIsRouted
<1>7. /\ hand[d] \in OrIdle /\ wire[d] \in Seq(OrIdle) /\ Owed(w, wire[d]) \in Seq(Nat)
      /\ OwedBy(w, hand[d]) \in Seq(Nat)
  BY RowsLeftTypes
<1>8. Owed(w, wire'[d]) = Owed(w, wire[d])
  <2>1. Owed(w, wire[d] \o First(p, {t})) = Owed(w, wire[d])
    BY <1>4, <1>6, <1>7, FirstOwesNothing
  <2>2. wire[d] \o <<>> = wire[d]
    BY <1>7
  <2> HIDE DEF c, d
  <2>3. wire'[d] \in {wire[d], wire[d] \o <<>>, wire[d] \o First(p, {t})}
    BY <1>1, <1>3, <1>4, <1>6
  <2>4. QED
    BY <2>1, <2>2, <2>3
<1>9. CASE w[2] = "tickers"
  BY <1>9 DEF SoundRows
<1>10. CASE w = <<p, t>> /\ w[2] # "tickers"
  <2>1. d = c /\ w[2] = t
    BY <1>6, <1>10
  <2>2. heard'[w] = <<>> /\ owed'[w] = Owed(w, wire[d])
    <3> HIDE DEF c, d
    <3>1. t # "tickers"
      BY <1>10, <2>1
    <3>2. heard' = [heard EXCEPT ![w] = <<>>] /\ owed' = [owed EXCEPT ![w] = Owed(w, wire[c])]
      BY <1>2, <1>10, <3>1 DEF Renew
    <3>3. QED
      BY <1>4, <2>1, <3>2
  <2> HIDE DEF c, d
  <2>3. hand'[d] = Idle \/ (hand'[d] = hand[d] /\ hand[d].topic # t)
    BY <1>1, <1>2, <1>4, <2>1
  <2>4. OwedBy(w, hand'[d]) = <<>>
    BY <1>6, <2>1, <2>3, IdleIsNoTicker, OtherTopicOwesNothing
  <2>5. <<>> \o (<<>> \o Owed(w, wire[d])) = Owed(w, wire[d])
    BY <1>7, EmptyJoins
  <2>6. RowsLeft(w)' = <<>> \o Owed(w, wire[d])
    BY <1>8, <2>4 DEF RowsLeft, d, ConnectionOf
  <2>7. QED
    BY <2>2, <2>5, <2>6 DEF SoundRows
<1>11. CASE w # <<p, t>> /\ w[2] # "tickers"
  <2>1. heard'[w] = heard[w] /\ owed'[w] = owed[w]
    <3> HIDE DEF c, d
    <3>1. \/ heard' = heard /\ owed' = owed
          \/ /\ heard' = [heard EXCEPT ![<<p, t>>] = <<>>]
             /\ owed' = [owed EXCEPT ![<<p, t>>] = Owed(<<p, t>>, wire[c])]
      BY <1>2 DEF Renew, rowVars
    <3>2. QED
      BY <1>4, <1>11, <3>1
  <2>2. c = d => w[2] # t
    BY <1>6, <1>11
  <2> HIDE DEF c, d
  <2>3. OwedBy(w, hand'[d]) = OwedBy(w, hand[d])
    <3>1. hand'[d] = hand[d] \/ (c = d /\ hand'[d] = Idle /\ hand[d].topic = t)
      BY <1>1, <1>2, <1>4, <1>6
    <3>2. QED
      BY <1>6, <2>2, <3>1, DetachedOwes
  <2>4. RowsLeft(w)' = RowsLeft(w)
    BY <1>8, <2>3 DEF RowsLeft, d, ConnectionOf
  <2>5. w[2] \in subs'[d] => w[2] \in subs[d]
    BY <1>1, <1>2, <1>4, <1>6, <2>2
  <2>6. QED
    BY <1>5, <2>1, <2>4, <2>5, SameRows DEF d
<1>12. QED
  BY <1>9, <1>10, <1>11

\* A topic that is unsubscribed is owed nothing.
LEMMA UnsubscribeKeepsRows ==
  ASSUME QuietInv, StreamTypes, RowsInv, NEW t \in Topic, Unsubscribe(t)
  PROVE  RowsInv'
<1> DEFINE c == <<"linear", Route(t)>>
<1>1. c \in Connection
  BY RouteIsConnection DEF Profile
<1>2. /\ UNCHANGED <<watch, wire, heard, owed>>
      /\ subs' = [subs EXCEPT ![c] = subs[c] \ {t}]
      /\ hand' = IF hand[c].topic = t THEN [hand EXCEPT ![c] = Idle] ELSE hand
  BY <1>1 DEF Unsubscribe, Detached, clientVars, rowVars
<1>3. DOMAIN hand = Connection /\ DOMAIN subs = Connection
  BY DEF QuietInv
<1> SUFFICES ASSUME NEW w \in watch PROVE SoundRows(w)'
  BY <1>2 DEF RowsInv
<1> DEFINE d == ConnectionOf(w)
<1>4. SoundRows(w)
  BY DEF RowsInv
<1>5. w[2] \in Topic /\ w = <<w[1], w[2]>> /\ d = <<w[1], Route(w[2])>> /\ d \in Connection
  BY WatchedIsRouted
<1> HIDE DEF c, d
<1>6. CASE c = d /\ w[2] = t
  <2>1. w[2] \notin subs'[d]
    BY <1>1, <1>2, <1>3, <1>6
  <2>2. QED
    BY <2>1 DEF SoundRows, d, ConnectionOf
<1>7. CASE c # d \/ w[2] # t
  <2>1. OwedBy(w, hand'[d]) = OwedBy(w, hand[d])
    <3>1. hand'[d] = hand[d] \/ (w[2] # t /\ hand'[d] = Idle /\ hand[d].topic = t)
      BY <1>1, <1>2, <1>3, <1>5, <1>7
    <3>2. QED
      BY <1>5, <3>1, DetachedOwes
  <2>2. RowsLeft(w)' = RowsLeft(w)
    BY <1>2, <2>1 DEF RowsLeft, d, ConnectionOf
  <2>3. w[2] \in subs'[d] => w[2] \in subs[d]
    BY <1>1, <1>2, <1>3, <1>5
  <2>4. QED
    BY <1>2, <1>4, <2>2, <2>3, SameRows DEF d
<1>8. QED
  BY <1>6, <1>7

\* A connection that breaks owes what was heard and what is in hand.
LEMMA SilencedKeepsRows ==
  ASSUME QuietInv, StreamTypes, RowsInv, NEW cs \in SUBSET Connection, Silenced(cs),
         UNCHANGED <<watch, subs, hand, heard>>
  PROVE  RowsInv'
<1> SUFFICES ASSUME NEW w \in watch PROVE SoundRows(w)'
  BY DEF RowsInv
<1> DEFINE d == ConnectionOf(w)
           h == OwedBy(w, hand[d])
<1>1. SoundRows(w)
  BY DEF RowsInv
<1>2. w \in Profile \X Topic /\ d \in Connection
  BY WatchedIsRouted
<1>3. hand[d] \in OrIdle /\ h \in Seq(Nat)
  BY RowsLeftTypes
<1>4. wire'[d] = IF d \in cs THEN <<>> ELSE wire[d]
  <2> HIDE DEF d
  <2>1. QED
    BY <1>2 DEF Silenced
<1>5. owed'[w] = IF d \in cs THEN heard[w] \o Owed(w, <<hand[d]>>) ELSE owed[w]
  BY DEF Silenced
<1> HIDE DEF d
<1>6. CASE d \notin cs
  <2>1. RowsLeft(w)' = RowsLeft(w)
    BY <1>4, <1>6 DEF RowsLeft, d, ConnectionOf
  <2>2. QED
    BY <1>1, <1>5, <1>6, <2>1, SameRows
<1>7. CASE d \in cs
  <2>1. Owed(w, <<hand[d]>>) = h /\ Owed(w, wire'[d]) = <<>>
    BY <1>2, <1>3, <1>4, <1>7, OwedOne, OwedEmpty
  <2>2. RowsLeft(w)' = h \o <<>>
    BY <2>1 DEF RowsLeft, d, ConnectionOf
  <2>3. h \o <<>> = h
    BY <1>3, EmptyJoins
  <2>4. QED
    BY <1>5, <1>7, <2>1, <2>2, <2>3 DEF SoundRows
<1>8. QED
  BY <1>6, <1>7

\* Closing and breaking owe what was heard and what is in hand.
LEMMA LinkStepKeepsRows ==
  ASSUME QuietInv, StreamTypes, RowsInv, LinkStep
  PROVE  RowsInv'
<1>1. ASSUME NEW p \in Profile, Close(p)
      PROVE  RowsInv'
  <2>1. PICK seen \in SUBSET Connection : Silenced(seen)
    BY <1>1 DEF Close
  <2>2. UNCHANGED <<watch, subs, hand, heard>>
    BY <1>1 DEF Close, clientVars
  <2>3. QED
    BY <2>1, <2>2, SilencedKeepsRows
<1>2. ASSUME NEW c \in Connection, Break(c) \/ ContextDone(c)
      PROVE  RowsInv'
  <2>1. Silenced({c}) /\ UNCHANGED <<watch, subs, hand, heard>> /\ {c} \in SUBSET Connection
    BY <1>2 DEF Break, ContextDone, clientVars
  <2>2. QED
    BY <2>1, SilencedKeepsRows
<1>3. QED
  BY <1>1, <1>2 DEF LinkStep

\* A connection that comes up sends no rows by itself.
LEMMA ConnectKeepsRows ==
  ASSUME QuietInv, StreamTypes, RowsInv, NEW c \in Connection, Connect(c)
  PROVE  RowsInv'
<1>1. /\ UNCHANGED <<watch, subs, hand, heard, owed>> /\ hand[c] = Idle /\ link[c] = "down"
      /\ wire' = [wire EXCEPT ![c] = First(c[1], subs[c])]
  BY DEF Connect, Renew, clientVars, rowVars
<1>2. DOMAIN wire = Connection /\ wire[c] = <<>> /\ ticker \in [Profile -> Truth]
  BY <1>1 DEF StreamTypes, LinkTypes, TickerTypes
<1> SUFFICES ASSUME NEW w \in watch PROVE SoundRows(w)'
  BY <1>1 DEF RowsInv
<1> DEFINE d == ConnectionOf(w)
<1>3. SoundRows(w)
  BY DEF RowsInv
<1>4. w \in Profile \X Topic /\ d \in Connection /\ c[1] \in Profile
  BY WatchedIsRouted DEF Connection
<1>5. Owed(w, wire'[d]) = Owed(w, wire[d])
  <2>1. Owed(w, First(c[1], subs[c])) = <<>>
    <3> DEFINE p == c[1]
               topics == subs[c]
    <3>1. p \in Profile
      BY <1>4
    <3> HIDE DEF p, topics
    <3>2. Owed(w, First(p, topics)) = <<>>
      BY <1>2, <1>4, <3>1, FirstAloneOwesNothing
    <3>3. QED
      BY <3>2 DEF p, topics
  <2> HIDE DEF d
  <2>2. d # c => wire'[d] = wire[d]
    BY <1>1, <1>2, <1>4
  <2>3. d = c => wire'[d] = First(c[1], subs[c]) /\ wire[d] = <<>>
    BY <1>1, <1>2, <1>4
  <2>4. QED
    BY <2>1, <2>2, <2>3, OwedEmpty
<1>6. RowsLeft(w)' = RowsLeft(w)
  BY <1>1, <1>5 DEF RowsLeft, ConnectionOf
<1>7. QED
  BY <1>1, <1>3, <1>6, SameRows

\* A handler hears the rows of the frame in hand, those of its own category.
LEMMA HandleKeepsRows ==
  ASSUME QuietInv, StreamTypes, RowsInv, NEW c \in Connection, Handle(c)
  PROVE  RowsInv'
<1> DEFINE frame == hand[c]
           w0 == <<c[1], frame.topic>>
<1>1. /\ UNCHANGED <<watch, subs, wire, owed>> /\ hand' = [hand EXCEPT ![c] = Idle] /\ frame # Idle
  BY DEF Handle, HandleTicker, HandleRows, clientVars, rowVars
<1>2. DOMAIN hand = Connection /\ DOMAIN heard = watch
  BY DEF QuietInv
<1>3. frame \in Frame /\ frame.topic \in Topic /\ c = <<c[1], Route(frame.topic)>>
          /\ c[1] \in Profile
      /\ w0 \in watch
  <2>1. frame \in Frame
    BY <1>1 DEF StreamTypes, LinkTypes
  <2>2. frame.topic \in Topic /\ frame.topic \in subs[c] /\ w0 \in watch
    BY <1>1, RegisteredTopic DEF QuietInv
  <2>3. c = <<c[1], Route(frame.topic)>>
    BY <2>2 DEF QuietInv
  <2>4. QED
    BY <2>1, <2>2, <2>3 DEF Connection
<1> SUFFICES ASSUME NEW w \in watch PROVE SoundRows(w)'
  BY <1>1 DEF RowsInv
<1> DEFINE d == ConnectionOf(w)
<1>4. SoundRows(w)
  BY DEF RowsInv
<1>5. /\ w \in Profile \X Topic /\ w[2] \in Topic /\ w = <<w[1], w[2]>>
      /\ d = <<w[1], Route(w[2])>> /\ d \in Connection
  BY WatchedIsRouted
<1>6. /\ OwedBy(w, hand[d]) \in Seq(Nat) /\ Owed(w, wire[d]) \in Seq(Nat) /\ heard[w] \in Seq(Nat)
  BY RowsLeftTypes
<1>7. CASE w = w0 /\ frame.topic # "tickers"
  <2>1. d = c /\ w[1] = c[1] /\ w[2] = frame.topic /\ w = <<c[1], frame.topic>>
    BY <1>3, <1>5, <1>7
  <2>2. frame \in RowFrame
    BY <1>3, <1>7, FrameFacts
  <2>3. Ids(Rows(c[1], frame)) = OwedBy(w, frame)
    <3>1. Ids(Rows(c[1], frame)) = RowsOf(<<c[1], frame.topic>>, frame)
      BY <1>3, <2>2, RowsAreOwed
    <3> HIDE DEF frame, w0
    <3>2. QED
      BY <1>7, <2>1, <3>1 DEF OwedBy
  <2>4. heard'[w] = heard[w] \o OwedBy(w, frame)
    <3>1. heard' = [heard EXCEPT ![w0] = heard[w0] \o Ids(Rows(c[1], frame))]
      BY <1>7 DEF Handle, HandleRows
    <3> HIDE DEF w0, frame
    <3>2. QED
      BY <1>2, <1>3, <1>7, <2>3, <3>1
  <2> DEFINE a == heard[w]
             b == OwedBy(w, frame)
             e == Owed(w, wire[d])
  <2> HIDE DEF d
  <2>5. hand'[d] = Idle /\ frame = hand[d]
    <3>1. frame = hand[d]
      BY <2>1
    <3> HIDE DEF frame
    <3>2. QED
      BY <1>1, <1>2, <2>1, <3>1
  <2>6. RowsLeft(w) = b \o e /\ RowsLeft(w)' = <<>> \o e
    BY <1>1, <1>5, <2>5, IdleIsNoTicker DEF RowsLeft, d, ConnectionOf
  <2>7. a \in Seq(Nat) /\ b \in Seq(Nat) /\ e \in Seq(Nat)
    BY <1>6, <2>5
  <2>8. owed'[w] = owed[w] /\ heard'[w] = a \o b
    BY <1>1, <2>4
  <2>9. w[2] \in subs'[ConnectionOf(w)'] \ {"tickers"} => a \o (b \o e) = owed[w]
    BY <1>1, <1>4, <2>6 DEF SoundRows, ConnectionOf
  <2> HIDE DEF a, b, e
  <2>10. <<>> \o e = e /\ (a \o b) \o e = a \o (b \o e)
    BY <2>7, JoinIsAssociative, EmptyJoins, SMTT(30)
  <2>11. QED
    BY <2>6, <2>8, <2>9, <2>10 DEF SoundRows
<1>8. CASE w # w0 \/ frame.topic = "tickers"
  <2>1. heard'[w] = heard[w]
    <3>1. \/ heard' = heard
          \/ /\ frame.topic # "tickers"
             /\ heard' = [heard EXCEPT ![w0] = heard[w0] \o Ids(Rows(c[1], frame))]
      BY DEF Handle, HandleRows, HandleTicker, rowVars
    <3> HIDE DEF w0, frame
    <3>2. QED
      BY <1>2, <1>8, <3>1
  <2>2. OwedBy(w, hand'[d]) = OwedBy(w, hand[d])
    <3>1. c = d => OwedBy(w, hand[d]) = <<>>
      <4>1. c = d => w[2] # frame.topic \/ frame.topic = "tickers"
        BY <1>3, <1>5, <1>8
      <4>2. QED
        BY <4>1, OtherTopicOwesNothing
    <3> HIDE DEF d, frame
    <3>2. hand'[d] = IF c = d THEN Idle ELSE hand[d]
      BY <1>1, <1>2, <1>5
    <3>3. QED
      BY <1>5, <3>1, <3>2, IdleIsNoTicker
  <2>3. RowsLeft(w)' = RowsLeft(w)
    BY <1>1, <2>2 DEF RowsLeft, ConnectionOf
  <2>4. QED
    BY <1>1, <1>4, <2>1, <2>3, SameRows
<1>9. QED
  BY <1>7, <1>8

\* Reading takes the first frame on its way, or drops one that owes nothing.
LEMMA ReadKeepsRows ==
  ASSUME QuietInv, StreamTypes, RowsInv, NEW c \in Connection, Read(c)
  PROVE  RowsInv'
<1> DEFINE frame == Head(wire[c])
           rest == Tail(wire[c])
<1>1. /\ UNCHANGED <<watch, subs, heard, owed>>
      /\ wire' = [wire EXCEPT ![c] = rest] /\ hand[c] = Idle /\ wire[c] # <<>>
      /\ hand' = [hand EXCEPT ![c] = IF frame.topic \in subs[c] THEN frame ELSE Idle]
  BY DEF Read, rowVars, clientVars
<1>2. DOMAIN hand = Connection /\ DOMAIN wire = Connection /\ wire[c] \in Seq(Frame)
  BY DEF StreamTypes, LinkTypes
<1>3. frame \in Frame /\ rest \in Seq(Frame) /\ wire[c] = <<frame>> \o rest
  BY <1>1, <1>2
<1>4. frame \in OrIdle /\ rest \in Seq(OrIdle)
  <2> HIDE DEF frame, rest
  <2>1. QED
    BY <1>3 DEF OrIdle
<1> HIDE DEF frame, rest
<1> SUFFICES ASSUME NEW w \in watch PROVE SoundRows(w)'
  BY <1>1 DEF RowsInv
<1> DEFINE d == ConnectionOf(w)
<1>5. SoundRows(w)
  BY DEF RowsInv
<1>6. w \in Profile \X Topic /\ w[2] \in Topic /\ d \in Connection
  BY WatchedIsRouted
<1>7. OwedBy(w, frame) \in Seq(Nat) /\ Owed(w, rest) \in Seq(Nat)
  BY <1>4, <1>6, OwedByIsSeq, OwedIsSeq
<1> HIDE DEF d
<1>8. CASE c # d
  <2>1. wire'[d] = wire[d] /\ hand'[d] = hand[d]
    BY <1>1, <1>2, <1>6, <1>8
  <2>2. RowsLeft(w)' = RowsLeft(w)
    BY <2>1 DEF RowsLeft, d, ConnectionOf
  <2>3. QED
    BY <1>1, <1>5, <2>2, SameRows
<1>9. CASE c = d /\ w[2] \in subs[d]
  <2>1. Owed(w, wire[d]) = OwedBy(w, frame) \o Owed(w, rest)
    BY <1>3, <1>4, <1>6, <1>9, OwedPrepend
  <2>2. OwedBy(w, frame) \o Owed(w, rest) \in Seq(Nat)
    BY <1>7
  <2>3. RowsLeft(w) = OwedBy(w, frame) \o Owed(w, rest)
    <3>1. <<>> \o (OwedBy(w, frame) \o Owed(w, rest)) = OwedBy(w, frame) \o Owed(w, rest)
      BY <2>2, EmptyJoins
    <3>2. OwedBy(w, hand[d]) = <<>>
      BY <1>1, <1>6, <1>9, IdleIsNoTicker
    <3>3. QED
      BY <2>1, <3>1, <3>2 DEF RowsLeft, d
  <2>4. wire'[d] = rest /\ hand'[d] = IF frame.topic \in subs[d] THEN frame ELSE Idle
    BY <1>1, <1>2, <1>6, <1>9
  <2>5. OwedBy(w, hand'[d]) = OwedBy(w, frame)
    <3>1. CASE frame.topic \in subs[d]
      BY <2>4, <3>1
    <3>2. CASE frame.topic \notin subs[d]
      <4>1. frame.topic # w[2]
        BY <1>9, <3>2
      <4>2. OwedBy(w, frame) = <<>> /\ OwedBy(w, Idle) = <<>>
        BY <1>6, <4>1, OtherTopicOwesNothing, IdleIsNoTicker
      <4>3. QED
        BY <2>4, <3>2, <4>2
    <3>3. QED
      BY <3>1, <3>2
  <2>6. RowsLeft(w)' = RowsLeft(w)
    BY <2>3, <2>4, <2>5 DEF RowsLeft, d, ConnectionOf
  <2>7. QED
    BY <1>1, <1>5, <2>6, SameRows
<1>10. CASE w[2] \notin subs[d]
  BY <1>1, <1>10 DEF SoundRows, d, ConnectionOf
<1>11. QED
  BY <1>8, <1>9, <1>10

\* A change of a ticker is no row.
LEMMA ChangeKeepsRows ==
  ASSUME QuietInv, StreamTypes, RowsInv, NEW p \in Profile,
         NEW changed \in (SUBSET Field) \ {{}}, ChangeTicker(p, changed)
  PROVE  RowsInv'
<1> DEFINE c == Public(p)
           delta == Delta(p, changed)
<1>1. /\ wire' = [wire EXCEPT ![c] =
                     IF "tickers" \in server[c] THEN Append(wire[c], delta) ELSE wire[c]]
      /\ UNCHANGED <<watch, subs, hand, heard, owed>>
  BY ChangeTickerStep, Zenon
<1>2. DOMAIN wire = Connection
  BY DEF StreamTypes, LinkTypes
<1>3. delta \in OrIdle /\ delta.topic = "tickers"
  <2>1. changed \in SUBSET Field /\ changed # {}
    OBVIOUS
  <2>2. delta \in TickerFrame
    BY <2>1, DeltaIsFrame DEF StreamTypes
  <2>3. QED
    BY <2>2, TickerFrameFacts DEF OrIdle, Frame
<1> HIDE DEF c, delta
<1> SUFFICES ASSUME NEW w \in watch PROVE SoundRows(w)'
  BY <1>1 DEF RowsInv
<1> DEFINE d == ConnectionOf(w)
<1>4. SoundRows(w)
  BY DEF RowsInv
<1>5. w \in Profile \X Topic /\ d \in Connection
  BY WatchedIsRouted
<1>6. wire[d] \in Seq(OrIdle) /\ Owed(w, wire[d]) \in Seq(Nat)
  BY RowsLeftTypes
<1> HIDE DEF d
<1>7. Owed(w, Append(wire[d], delta)) = Owed(w, wire[d])
  <2>1. OwedBy(w, delta) = <<>>
    BY <1>3, OtherTopicOwesNothing
  <2>2. Owed(w, Append(wire[d], delta)) = Owed(w, wire[d]) \o OwedBy(w, delta)
    BY <1>3, <1>5, <1>6, OwedAppend
  <2>3. QED
    BY <1>6, <2>1, <2>2, EmptyJoins
<1>8. wire'[d] = wire[d] \/ wire'[d] = Append(wire[d], delta)
  BY <1>1, <1>2, <1>5, SMTT(30)
<1>9. RowsLeft(w)' = RowsLeft(w)
  BY <1>1, <1>7, <1>8 DEF RowsLeft, d, ConnectionOf
<1>10. QED
  BY <1>1, <1>4, <1>9, SameRows

\* Ids are joined in any order.
LEMMA CountsJoin == \A x, y, z \in Seq(Nat) : x \o (y \o z) = (x \o y) \o z
  BY JoinIsAssociative

\* What comes to the end of what is left comes to the end of the whole.
AddsUp(a, b, e, f) == a \o (b \o (e \o f)) = (a \o (b \o e)) \o f

\* ... whatever the ids.
LEMMA CountsAddUp ==
  ASSUME NEW a \in Seq(Nat), NEW b \in Seq(Nat), NEW e \in Seq(Nat), NEW f \in Seq(Nat)
  PROVE  AddsUp(a, b, e, f)
<1>1. b \o (e \o f) = (b \o e) \o f
  BY CountsJoin, Zenon
<1> DEFINE be == b \o e
<1>2. be \in Seq(Nat)
  OBVIOUS
<1> HIDE DEF be
<1>3. a \o (be \o f) = (a \o be) \o f
  BY CountsJoin, <1>2, ZenonT(60)
<1>4. QED
  BY <1>1, <1>3, Zenon DEF be, AddsUp

\* Rows that are pushed are owed to each handler, and come last on its connection.
LEMMA PushKeepsRows ==
  ASSUME QuietInv, StreamTypes, RowsInv, NEW t \in Topic \ {"tickers"},
         NEW categories \in Categories(t), PushRows(t, categories)
  PROVE  RowsInv'
<1> DEFINE frame == RowsFrame(t, categories)
<1>1. /\ wire' = [c \in Connection |-> IF t \in server[c] THEN Append(wire[c], frame) ELSE wire[c]]
      /\ owed' = [w \in watch |->
                     IF w[2] = t /\ {c \in Connection : c[1] = w[1] /\ t \in server[c]} # {}
                     THEN owed[w] \o RowsOf(w, frame) ELSE owed[w]]
      /\ UNCHANGED <<watch, subs, server, hand, heard>> /\ pushes > 0
  BY PushRowsStep, Zenon
<1>2. frame \in RowFrame /\ frame.topic = t
  BY <1>1, RowsFrameIsFrame DEF StreamTypes, TickerTypes
<1>3. frame \in OrIdle
  BY <1>2 DEF OrIdle, Frame
<1> HIDE DEF frame
<1> SUFFICES ASSUME NEW w \in watch PROVE SoundRows(w)'
  BY <1>1 DEF RowsInv
<1> DEFINE d == ConnectionOf(w)
<1>4. SoundRows(w)
  BY DEF RowsInv
<1>5. /\ w \in Profile \X Topic /\ w[2] \in Topic
      /\ d = <<w[1], Route(w[2])>> /\ d \in Connection /\ d[1] = w[1]
  BY WatchedIsRouted
<1>6. /\ wire[d] \in Seq(OrIdle) /\ Owed(w, wire[d]) \in Seq(Nat)
      /\ OwedBy(w, hand[d]) \in Seq(Nat) /\ heard[w] \in Seq(Nat)
  BY RowsLeftTypes
<1>7. Owed(w, Append(wire[d], frame)) = Owed(w, wire[d]) \o OwedBy(w, frame)
  BY <1>3, <1>5, <1>6, OwedAppend
<1>8. CASE w[2] # t
  <2>1. OwedBy(w, frame) = <<>>
    BY <1>2, <1>8, OtherTopicOwesNothing
  <2>2. Owed(w, Append(wire[d], frame)) = Owed(w, wire[d])
    BY <1>6, <1>7, <2>1, EmptyJoins
  <2> HIDE DEF d
  <2>3. wire'[d] = wire[d] \/ wire'[d] = Append(wire[d], frame)
    BY <1>1, <1>5
  <2>4. owed'[w] = owed[w]
    BY <1>1, <1>8
  <2>5. RowsLeft(w)' = RowsLeft(w)
    BY <1>1, <2>2, <2>3 DEF RowsLeft, d, ConnectionOf
  <2>6. QED
    BY <1>1, <1>4, <2>4, <2>5, SameRows
<1>9. CASE w[2] = t /\ t \notin server[d]
  <2>1. \A c \in Connection : ~ (c[1] = w[1] /\ t \in server[c])
    <3> SUFFICES ASSUME NEW c \in Connection, c[1] = w[1], t \in server[c] PROVE FALSE
      OBVIOUS
    <3>1. t \in subs[c]
      BY DEF StreamTypes, LinkTypes
    <3>2. c = <<c[1], Route(t)>>
      BY <3>1 DEF QuietInv
    <3>3. c = d
      BY <1>5, <1>9, <3>2
    <3>4. QED
      BY <1>9, <3>3
  <2>2. owed'[w] = owed[w]
    BY <1>1, <2>1
  <2> HIDE DEF d
  <2>3. wire'[d] = wire[d]
    BY <1>1, <1>5, <1>9
  <2>4. RowsLeft(w)' = RowsLeft(w)
    BY <1>1, <2>3 DEF RowsLeft, d, ConnectionOf
  <2>5. QED
    BY <1>1, <1>4, <2>2, <2>4, SameRows
<1>10. CASE w[2] = t /\ t \in server[d]
  <2> HIDE DEF d
  <2>1. {c \in Connection : c[1] = w[1] /\ t \in server[c]} # {}
    BY <1>5, <1>10
  <2>2. OwedBy(w, frame) = RowsOf(w, frame)
    BY <1>2, <1>10 DEF OwedBy
  <2>3. owed'[w] = owed[w] \o OwedBy(w, frame)
    BY <1>1, <1>10, <2>1, <2>2
  <2>4. wire'[d] = Append(wire[d], frame)
    BY <1>1, <1>5, <1>10
  <2> DEFINE past == heard[w]
             held == OwedBy(w, hand[d])
             coming == Owed(w, wire[d])
             more == OwedBy(w, frame)
  <2>5. RowsLeft(w) = held \o coming /\ RowsLeft(w)' = held \o (coming \o more)
    BY <1>1, <1>7, <2>4 DEF RowsLeft, d, ConnectionOf
  <2>6. past \in Seq(Nat) /\ held \in Seq(Nat) /\ coming \in Seq(Nat) /\ more \in Seq(Nat)
    BY <1>3, <1>5, <1>6, OwedByIsSeq
  <2>7. heard'[w] = past /\ owed'[w] = owed[w] \o more
    BY <1>1, <2>3
  <2>8. ASSUME w[2] \in subs'[ConnectionOf(w)'] \ {"tickers"}
        PROVE  heard'[w] \o RowsLeft(w)' = owed'[w]
    <3>1. past \o (held \o coming) = owed[w]
      BY <1>1, <1>4, <2>5, <2>8 DEF SoundRows, ConnectionOf
    <3> HIDE DEF past, held, coming, more
    <3>2. AddsUp(past, held, coming, more)
      BY <2>6, CountsAddUp, Zenon
    <3>3. QED
      BY <2>5, <2>7, <3>1, <3>2, Zenon DEF AddsUp
  <2>9. QED
    BY <2>8 DEF SoundRows
<1>11. QED
  BY <1>8, <1>9, <1>10

\* Every step keeps heard and left together what is owed.
LEMMA RowsStep ==
  ASSUME QuietInv, StreamTypes, RowsInv, [StreamNext]_streamVars
  PROVE  RowsInv'
<1>1. ASSUME UNCHANGED <<watch, subs, wire, hand, rowVars>>
      PROVE  RowsInv'
  BY <1>1 DEF RowsInv, SoundRows, RowsLeft, ConnectionOf, rowVars
<1>2. CASE UNCHANGED streamVars
  BY <1>1, <1>2 DEF streamVars, clientVars
<1>3. CASE RoutedWatchStep
  BY <1>3, WatchKeepsRows DEF RoutedWatchStep
<1>4. CASE QuietStep
  <2>1. ASSUME NEW p \in Profile, Accessor(p)
        PROVE  RowsInv'
    BY <1>1, <2>1 DEF Accessor
  <2>2. QED
    BY <1>4, <2>1, ReadKeepsRows, ChangeKeepsRows, PushKeepsRows DEF QuietStep
<1>5. CASE LinkStep
  BY <1>5, LinkStepKeepsRows
<1>6. QED
  BY <1>2, <1>3, <1>4, <1>5, UnsubscribeKeepsRows, ConnectKeepsRows, HandleKeepsRows, WatchIsRouted

\* The invariant says what RowsReachTheirWatch says.
LEMMA RowsInvSuffices ==
  ASSUME QuietInv, StreamTypes, RowsInv
  PROVE  RowsReachTheirWatch
<1> SUFFICES ASSUME NEW w \in watch, w[2] \in subs[ConnectionOf(w)] \ {"tickers"}
    PROVE  heard[w] \o Owed(w, <<hand[ConnectionOf(w)]>> \o wire[ConnectionOf(w)]) = owed[w]
  BY DEF RowsReachTheirWatch
<1>1. w \in Profile \X Topic
  BY WatchedIsRouted
<1>2. hand[ConnectionOf(w)] \in OrIdle /\ wire[ConnectionOf(w)] \in Seq(OrIdle)
  BY RowsLeftTypes
<1>3. Owed(w, <<hand[ConnectionOf(w)]>> \o wire[ConnectionOf(w)]) = RowsLeft(w)
  BY <1>1, <1>2, OwedPrepend DEF RowsLeft
<1>4. QED
  BY <1>3 DEF RowsInv, SoundRows

\* Every row pushed for a handler reaches it, once, in the order of the exchange, as long as
\* its topic stays registered and its connection up: rows of a frame are told apart by
\* category, and no handler gets another's. (WatchOrders, WatchPositions, WatchExecutions,
\* WatchWallet, WatchTrades and WatchKline of both profiles)
THEOREM RowsReachTheirHandlers == StreamSpec => []RowsReachTheirWatch
<1> DEFINE Inv == QuietInv /\ StreamTypes /\ RowsInv
<1>1. StreamInit => Inv
  BY QuietInit, StreamTypesInit, RowsInit
<1>2. Inv /\ [StreamNext]_streamVars => Inv'
  BY QuietStepwise, StreamTypesStep, RowsStep
<1>3. Inv => RowsReachTheirWatch
  BY RowsInvSuffices
<1>4. QED
  BY <1>1, <1>2, <1>3, PTL DEF StreamSpec

-------------------------------------------------------------------------------
(* Types.                                                                  *)

\* Every URL of the configuration is that of an environment or the program's own.
LEMMA ConfigTypes ==
  ASSUME KeysInv
  PROVE  config.url \in [Place -> {"production", "testnet", "demo", Own}]
<1>1. given.url \in [Place -> {Unset, "production", Own}]
  BY DEF KeysInv, GivenConfig
<1>2. config.url = [place \in Place |->
                       ResolveEndpoint(given.url[place], DefaultURL[place],
                                       EndpointsFor(given.testnet, given.demo)[place])]
  BY DEF KeysInv, WithDefaults, GivenConfig
<1>3. \A place \in Place : EndpointsFor(given.testnet, given.demo)[place]
                               \in {"production", "testnet", "demo"}
  BY DEF EndpointsFor, DefaultURL, TestnetURL, DemoURL
<1>4. QED
  BY <1>1, <1>2, <1>3 DEF ResolveEndpoint

\* What a handler has in hand is a frame of a topic that is registered.
LEMMA HandTypes ==
  ASSUME QuietInv, NEW c \in Connection
  PROVE  hand[c].topic \in subs[c] \union {Idle.topic}
  BY DEF QuietInv

\* The type invariant of the stream clients, whatever is watched and however often.
THEOREM StreamTypeCorrect == StreamSpec => []StreamTypeOK
<1>1. StreamInit => KeysInv /\ QuietInv /\ StreamTypes
  BY KeysInit, QuietInit, StreamTypesInit
<1>2. KeysInv /\ [StreamNext]_streamVars => KeysInv'
  BY KeysStep
<1>3. QuietInv /\ StreamTypes /\ [StreamNext]_streamVars => QuietInv' /\ StreamTypes'
  BY QuietStepwise, StreamTypesStep
<1>4. KeysInv /\ QuietInv /\ StreamTypes => StreamTypeOK
  <2> SUFFICES ASSUME KeysInv, QuietInv, StreamTypes
               PROVE  StreamTypeOK
    OBVIOUS
  <2>1. \A c \in Connection : hand[c].topic \in subs[c] \union {Idle.topic}
    BY HandTypes
  <2>2. subs \in [Connection -> SUBSET Topic]
    BY DEF QuietInv
  <2>3. QED
    BY <2>1, <2>2, ConfigTypes DEF StreamTypeOK, StreamTypes, LinkTypes, TickerTypes, RowTypes
<1>5. QED
  BY <1>1, <1>2, <1>3, <1>4, PTL DEF StreamSpec

===============================================================================
