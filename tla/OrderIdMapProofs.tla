--------------------------- MODULE OrderIdMapProofs ---------------------------
(***************************************************************************)
(* Theorems about OrderIdMap for any number of callers, orders and         *)
(* symbols: the type invariant, and that the cache is consistent with the  *)
(* orders of the exchange however the answers are interleaved.             *)
(***************************************************************************)
EXTENDS OrderIdMap, FiniteSetTheorems, SequenceTheorems, TLAPS

-------------------------------------------------------------------------------
(* Lemmas about sequences and requests. *)

LEMMA ImageIsFinite ==
  ASSUME NEW S, IsFiniteSet(S), NEW f, DOMAIN f = S
  PROVE  IsFiniteSet({f[x] : x \in S})
  <1> DEFINE T == {f[x] : x \in S}
             g == [x \in S |-> f[x]]
  <1>1. g \in Surjection(S, T)
    BY DEF Surjection
  <1> HIDE DEF T, g
  <1>2. IsFiniteSet(T)
    BY <1>1, FS_Surjection
  <1> QED
    BY <1>2 DEF T

\* SetToSeq lists the members of a finite set.
LEMMA SetToSeqIsSeq ==
  ASSUME NEW S, IsFiniteSet(S)
  PROVE  SetToSeq(S) \in Seq(S)
  <1>1. Cardinality(S) \in Nat /\ ExistsBijection(1 .. Cardinality(S), S)
    BY FS_CardinalityType
  <1>2. \E f \in [1 .. Cardinality(S) -> S] : IsInjective(f)
    BY <1>1 DEF ExistsBijection, Bijection, Injection
  <1>3. SetToSeq(S) \in [1 .. Cardinality(S) -> S]
    BY <1>2 DEF SetToSeq
  <1> QED
    BY <1>1, <1>3

LEMMA RowTypes ==
  ASSUME NEW l \in Link \union {None}, NEW o \in OrderId \union {None}
  PROVE  Remember(l, o) \in Row /\ Forget(l, o) \in Row
  BY DEF Remember, Forget, Row

LEMMA RequestIsCall ==
  ASSUME NEW op \in Op, NEW l \in Link \union {None}, NEW o \in OrderId \union {None},
         NEW s \in Symbol \union {None}
  PROVE  /\ Request(op, l, o, s) \in Call
         /\ Request(op, l, o, s).rows = <<>>
         /\ Request(op, l, o, s).op = op
         /\ Request(op, l, o, s).link = l
         /\ Request(op, l, o, s).id = o
  BY DEF Request, Call

LEMMA IdleIsCall == Idle \in Call /\ Idle.rows = <<>> /\ Idle.op = "idle"
  <1>1. "idle" \in Op
    BY DEF Op
  <1> QED
    BY <1>1, RequestIsCall DEF Idle

\* The rows that CancelAll and List make of the orders they found.
LEMMA ListedRows ==
  ASSUME TypeOK, NEW S \in SUBSET OrderId
  PROVE  /\ SetToSeq({Forget(placed[o], o) : o \in S}) \in Seq({Forget(placed[o], o) : o \in S})
         /\ SetToSeq({Remember(placed[o], o) : o \in S}) \in Seq({Remember(placed[o], o) : o \in S})
  <1>1. IsFiniteSet(S)
    BY IdAssumption, FS_Subset
  <1> DEFINE f == [o \in S |-> Forget(placed[o], o)]
             r == [o \in S |-> Remember(placed[o], o)]
  <1>2. IsFiniteSet({f[o] : o \in S}) /\ IsFiniteSet({r[o] : o \in S})
    <2>1. DOMAIN f = S /\ DOMAIN r = S
      OBVIOUS
    <2> HIDE DEF f, r
    <2> QED
      BY <1>1, <2>1, ImageIsFinite
  <1>3. /\ {f[o] : o \in S} = {Forget(placed[o], o) : o \in S}
        /\ {r[o] : o \in S} = {Remember(placed[o], o) : o \in S}
    OBVIOUS
  <1> QED
    BY <1>2, <1>3, SetToSeqIsSeq

LEMMA ListedRowsAreRows ==
  ASSUME TypeOK, NEW S \in SUBSET OrderId
  PROVE  /\ SetToSeq({Forget(placed[o], o) : o \in S}) \in Seq(Row)
         /\ SetToSeq({Remember(placed[o], o) : o \in S}) \in Seq(Row)
  <1>1. \A o \in S : Forget(placed[o], o) \in Row /\ Remember(placed[o], o) \in Row
    BY RowTypes DEF TypeOK
  <1>2. /\ {Forget(placed[o], o) : o \in S} \subseteq Row
        /\ {Remember(placed[o], o) : o \in S} \subseteq Row
    BY <1>1
  <1> QED
    BY <1>2, ListedRows

-------------------------------------------------------------------------------
(* Type correctness. *)

LEMMA TypeInit == Init => TypeOK
  BY IdleIsCall DEF Init, TypeOK

\* The calls stay calls when one of them is replaced, answered or shortened.
LEMMA CallChange ==
  ASSUME TypeOK, NEW c \in Caller, NEW k \in Call
  PROVE  [call EXCEPT ![c] = k] \in [Caller -> Call]
  BY DEF TypeOK

LEMMA AnswerIsCall ==
  ASSUME TypeOK, NEW c \in Caller, NEW rows \in Seq(Row), NEW seen \in SUBSET Link,
         Answer(c, rows, seen)
  PROVE  call' \in [Caller -> Call]
  <1> DEFINE k == [call[c] EXCEPT !.phase = "answered", !.rows = rows, !.seen = seen]
  <1>1. k \in Call
    BY DEF TypeOK, Call
  <1>2. call' = [call EXCEPT ![c] = k]
    BY DEF Answer
  <1> HIDE DEF k
  <1> QED
    BY <1>1, <1>2, CallChange

LEMMA TypeSend ==
  ASSUME TypeOK, NEW c \in Caller, NEW k \in Call, Send(c, k)
  PROVE  TypeOK'
  BY CallChange DEF Send, TypeOK, cache

LEMMA TypeNext == TypeOK /\ OpenIsPlaced /\ [Next]_vars => TypeOK'
  <1> SUFFICES ASSUME TypeOK, OpenIsPlaced, [Next]_vars
               PROVE  TypeOK'
    OBVIOUS
  <1> USE DEF TypeOK, cache
  <1>0. ASSUME NEW c \in Caller, Fail(c) \/ ReturnEmpty(c)
        PROVE  TypeOK'
    BY <1>0, IdleIsCall DEF Fail, ReturnEmpty
  <1>1. ASSUME NEW c \in Caller, NEW l \in Link, CreateOrder(c, l)
        PROVE  TypeOK'
    <2>1. Of[l] \in Symbol /\ "create" \in Op
      BY IdAssumption DEF Op
    <2>2. Request("create", l, None, Of[l]) \in Call
      BY <2>1, RequestIsCall
    <2> QED
      BY <1>1, <2>2, TypeSend DEF CreateOrder
  <1>2. ASSUME NEW c \in Caller, NEW o \in OrderId, CancelOrder(c, o)
        PROVE  TypeOK'
    <2>1. Of[placed[o]] \in Symbol /\ placed[o] \in Link /\ "cancel" \in Op
      BY <1>2, IdAssumption DEF Op, CancelOrder
    <2>2. /\ Request("cancel", None, o, Of[placed[o]]) \in Call
          /\ Request("cancel", placed[o], None, Of[placed[o]]) \in Call
      BY <2>1, RequestIsCall
    <2> QED
      BY <1>2, <2>2, TypeSend DEF CancelOrder
  <1>3. ASSUME NEW c \in Caller, NEW s \in Symbol,
               CancelAllOrders(c, s) \/ SyncOrderMappings(c, s)
        PROVE  TypeOK'
    <2>1. "cancelAll" \in Op /\ "sync" \in Op
      BY DEF Op
    <2>2. /\ Request("cancelAll", None, None, s) \in Call
          /\ Request("sync", None, None, s) \in Call
      BY <2>1, RequestIsCall
    <2> QED
      BY <1>3, <2>2, TypeSend DEF CancelAllOrders, SyncOrderMappings
  <1>4. ASSUME NEW c \in Caller, Place(c)
        PROVE  TypeOK'
    <2>1. PICK o \in OrderId :
            /\ placed' = [placed EXCEPT ![o] = call[c].link]
            /\ open' = open \union {o}
            /\ Answer(c, <<Remember(call[c].link, o)>>, {})
      BY <1>4 DEF Place
    <2>2. call[c].link \in Link \union {None}
      BY DEF Call
    <2> DEFINE rows == <<Remember(call[c].link, o)>>
    <2>3. rows \in Seq(Row)
      BY <2>2, RowTypes
    <2>4. Answer(c, rows, {})
      BY <2>1
    <2>5. call' \in [Caller -> Call]
      <3> HIDE DEF rows
      <3> QED
        BY <2>3, <2>4, AnswerIsCall
    <2> QED
      BY <1>4, <2>1, <2>2, <2>5 DEF Place
  <1>5. ASSUME NEW c \in Caller, Cancel(c)
        PROVE  TypeOK'
    <2>1. PICK o \in open :
            /\ open' = open \ {o}
            /\ Answer(c, <<Forget(placed[o], o), Forget(call[c].link, call[c].id)>>, {})
      BY <1>5 DEF Cancel
    <2> DEFINE rows == <<Forget(placed[o], o), Forget(call[c].link, call[c].id)>>
    <2>2. call[c].link \in Link \union {None} /\ call[c].id \in OrderId \union {None}
      BY DEF Call
    <2>3. Forget(placed[o], o) \in Row /\ Forget(call[c].link, call[c].id) \in Row
      BY <2>2, RowTypes
    <2>4. rows \in Seq(Row)
      BY <2>3
    <2>5. Answer(c, rows, {})
      BY <2>1
    <2>6. call' \in [Caller -> Call]
      <3> HIDE DEF rows
      <3> QED
        BY <2>4, <2>5, AnswerIsCall
    <2> QED
      BY <1>5, <2>1, <2>6 DEF Cancel
  <1>6. ASSUME NEW c \in Caller, CancelAll(c)
        PROVE  TypeOK'
    <2> DEFINE gone == OpenOf(call[c].symbol)
               rows == SetToSeq({Forget(placed[o], o) : o \in gone})
    <2>1. gone \in SUBSET OrderId
      BY DEF OpenOf
    <2>2. rows \in Seq(Row)
      BY <2>1, ListedRowsAreRows
    <2>3. Answer(c, rows, {}) /\ open' = open \ gone
      BY <1>6 DEF CancelAll
    <2>4. call' \in [Caller -> Call]
      <3> HIDE DEF rows
      <3> QED
        BY <2>2, <2>3, AnswerIsCall
    <2> QED
      BY <1>6, <2>3, <2>4 DEF CancelAll
  <1>7. ASSUME NEW c \in Caller, List(c)
        PROVE  TypeOK'
    <2> DEFINE listed == OpenOf(call[c].symbol)
               rows == SetToSeq({Remember(placed[o], o) : o \in listed})
               seen == {placed[o] : o \in listed}
    <2>1. listed \in SUBSET OrderId
      BY DEF OpenOf
    <2>2. rows \in Seq(Row)
      BY <2>1, ListedRowsAreRows
    <2>3. seen \in SUBSET Link
      BY IdAssumption DEF OpenOf, OpenIsPlaced
    <2>4. Answer(c, rows, seen)
      BY <1>7 DEF List
    <2>5. call' \in [Caller -> Call]
      <3> HIDE DEF rows, seen
      <3> QED
        BY <2>2, <2>3, <2>4, AnswerIsCall
    <2> QED
      BY <1>7, <2>5 DEF List
  <1>8. ASSUME NEW c \in Caller, Return(c)
        PROVE  TypeOK'
    <2>1. call[c].rows \in Seq(Row) /\ call[c].rows # <<>>
      BY <1>8 DEF Return, Call
    <2>2. Head(call[c].rows) \in Row /\ Tail(call[c].rows) \in Seq(Row)
      BY <2>1, HeadTailProperties
    <2> DEFINE k == [call[c] EXCEPT !.phase = "returning", !.rows = Tail(call[c].rows)]
    <2>3. k \in Call
      BY <2>2 DEF Call
    <2>5. call' = [call EXCEPT ![c] = Idle] \/ call' = [call EXCEPT ![c] = k]
      BY <1>8 DEF Return
    <2>6. call' \in [Caller -> Call]
      <3> HIDE DEF k
      <3> QED
        BY <2>3, <2>5, IdleIsCall, CallChange
    <2>4. /\ clOrdToOrd' \in [Link -> OrderId \union {None}]
          /\ ordToClOrd' \in [OrderId -> Link \union {None}]
      BY <1>8, <2>2 DEF Return, Apply, RememberMapping, ForgetMapping, Row
    <2> QED
      BY <1>8, <2>4, <2>6 DEF Return
  <1>9. ASSUME NEW c \in Caller, Sweep(c)
        PROVE  TypeOK'
    <2>1. call' \in [Caller -> Call]
      BY <1>9, IdleIsCall, CallChange DEF Sweep
    <2>2. /\ clOrdToOrd' \in [Link -> OrderId \union {None}]
          /\ ordToClOrd' \in [OrderId -> Link \union {None}]
      BY <1>9 DEF Sweep
    <2> QED
      BY <1>9, <2>1, <2>2 DEF Sweep
  <1>10. ASSUME NEW o \in OrderId, Fill(o)
         PROVE  TypeOK'
    BY <1>10 DEF Fill
  <1>11. CASE UNCHANGED vars
    BY <1>11 DEF vars
  <1> QED
    BY <1>0, <1>1, <1>2, <1>3, <1>4, <1>5, <1>6, <1>7, <1>8, <1>9, <1>10, <1>11 DEF Next

LEMMA PlacedNext == TypeOK /\ OpenIsPlaced /\ RequestsAreWhole /\ [Next]_vars => OpenIsPlaced'
  <1> SUFFICES ASSUME TypeOK, OpenIsPlaced, RequestsAreWhole, [Next]_vars
               PROVE  OpenIsPlaced'
    OBVIOUS
  <1> USE DEF OpenIsPlaced
  <1>1. ASSUME NEW c \in Caller, Place(c)
        PROVE  OpenIsPlaced'
    <2>1. call[c].link # None
      BY <1>1, IdAssumption DEF Place, Sent, RequestsAreWhole
    <2> QED
      BY <1>1, <2>1 DEF Place, TypeOK
  <1>2. ASSUME UNCHANGED placed, open' \subseteq open
        PROVE  OpenIsPlaced'
    BY <1>2
  <1>3. ASSUME NEW c \in Caller, Cancel(c) \/ CancelAll(c)
        PROVE  OpenIsPlaced'
    BY <1>2, <1>3 DEF Cancel, CancelAll
  <1>4. ASSUME NEW o \in OrderId, Fill(o)
        PROVE  OpenIsPlaced'
    BY <1>2, <1>4 DEF Fill
  <1>5. CASE UNCHANGED <<placed, open>>
    BY <1>2, <1>5
  <1> QED
    BY <1>1, <1>3, <1>4, <1>5
       DEF Next, vars, CreateOrder, CancelOrder, CancelAllOrders, SyncOrderMappings, Send,
           List, Fail, Return, ReturnEmpty, Sweep

LEMMA LinkNext == TypeOK /\ LinkTakenOnce /\ [Next]_vars => LinkTakenOnce'
  <1> SUFFICES ASSUME TypeOK, LinkTakenOnce, [Next]_vars
               PROVE  LinkTakenOnce'
    OBVIOUS
  <1>1. ASSUME NEW c \in Caller, Place(c)
        PROVE  LinkTakenOnce'
    <2>1. PICK o \in OrderId : placed' = [placed EXCEPT ![o] = call[c].link]
      BY <1>1 DEF Place
    <2>2. \A p \in OrderId : placed[p] # call[c].link
      BY <1>1 DEF Place
    <2> QED
      BY <2>1, <2>2 DEF TypeOK, LinkTakenOnce
  <1>2. CASE UNCHANGED placed
    BY <1>2 DEF LinkTakenOnce
  <1> QED
    BY <1>1, <1>2
       DEF Next, vars, CreateOrder, CancelOrder, CancelAllOrders, SyncOrderMappings, Send,
           Cancel, CancelAll, List, Fail, Return, ReturnEmpty, Sweep, Fill

-------------------------------------------------------------------------------
(* What the callers have to work off. *)

\* Orders keep their client order ids.
LEMMA PlacedStays ==
  ASSUME TypeOK, [Next]_vars, NEW o \in OrderId, placed[o] # None
  PROVE  placed'[o] = placed[o]
  BY DEF TypeOK, Next, vars, Place, CreateOrder, CancelOrder, CancelAllOrders,
         SyncOrderMappings, Send, Cancel, CancelAll, List, Fail, Return, ReturnEmpty,
         Sweep, Fill

LEMMA RememberIsTrue ==
  ASSUME NEW orders, NEW live, NEW o \in OrderId, NEW l, orders[o] = l, l # None
  PROVE  TrueRow(orders, live, Remember(l, o))
  <1>1. /\ Remember(l, o).do = "remember"
        /\ Remember(l, o).link = l /\ Remember(l, o).id = o
    BY DEF Remember
  <1> QED
    BY <1>1 DEF TrueRow

LEMMA ForgetIsTrue ==
  ASSUME NEW orders, NEW live, NEW o \in OrderId, orders[o] # None, o \notin live,
         NEW l, NEW p,
         (l = orders[o] /\ p \in {o, None}) \/ (l = None /\ p = o)
  PROVE  TrueRow(orders, live, Forget(l, p))
  <1>1. /\ Forget(l, p).do = "forget"
        /\ Forget(l, p).link = l /\ Forget(l, p).id = p
    BY DEF Forget
  <1> QED
    BY <1>1 DEF TrueRow

\* An order that is not live does not come back.
LEMMA DoneStays ==
  ASSUME TypeOK, [Next]_vars, NEW o \in OrderId, placed[o] # None, o \notin open
  PROVE  o \notin open'
  BY DEF TypeOK, Next, vars, Place, CreateOrder, CancelOrder, CancelAllOrders,
         SyncOrderMappings, Send, Cancel, CancelAll, List, Fail, Return, ReturnEmpty,
         Sweep, Fill

LEMMA TrueRowStays ==
  ASSUME TypeOK, [Next]_vars, NEW row, TrueRow(placed, open, row)
  PROVE  TrueRow(placed', open', row)
  BY PlacedStays, DoneStays DEF TrueRow

\* A step changes one call at most.
CallsNow(c, k) == call' = [call EXCEPT ![c] = k]

LEMMA CallsStay ==
  ASSUME TypeOK, [Next]_vars, RowsAreTrue, RequestsAreWhole,
         NEW c \in Caller, NEW k, CallsNow(c, k),
         \A i \in 1 .. Len(k.rows) : TrueRow(placed', open', k.rows[i]),
         k.op = "create" => k.link \in Link,
         k.op = "cancel" => \/ k.link \in Link /\ k.id = None
                            \/ k.link = None /\ k.id \in OrderId
  PROVE  RowsAreTrue' /\ RequestsAreWhole'
  <1>1. \A d \in Caller : call'[d] = IF d = c THEN k ELSE call[d]
    BY DEF CallsNow, TypeOK
  <1>2. \A d \in Caller \ {c} : \A i \in 1 .. Len(call[d].rows) :
            TrueRow(placed', open', call[d].rows[i])
    BY TrueRowStays DEF RowsAreTrue
  <1>3. RowsAreTrue'
    BY <1>1, <1>2 DEF RowsAreTrue
  <1>4. RequestsAreWhole'
    BY <1>1 DEF RequestsAreWhole
  <1> QED
    BY <1>3, <1>4

\* Only the steps that answer a call give it rows, and these are true.
LEMMA RowsNext ==
    TypeOK /\ OpenIsPlaced /\ RowsAreTrue /\ RequestsAreWhole /\ [Next]_vars
        => RowsAreTrue' /\ RequestsAreWhole'
  <1> SUFFICES ASSUME TypeOK, OpenIsPlaced, RowsAreTrue, RequestsAreWhole, [Next]_vars
               PROVE  RowsAreTrue' /\ RequestsAreWhole'
    OBVIOUS
  <1>0. ASSUME NEW c \in Caller, call' = [call EXCEPT ![c] = Idle]
        PROVE  RowsAreTrue' /\ RequestsAreWhole'
    <2>1. Idle.rows = <<>> /\ Idle.op # "create" /\ Idle.op # "cancel"
      BY IdleIsCall
    <2>2. \A i \in 1 .. Len(Idle.rows) : TrueRow(placed', open', Idle.rows[i])
      BY <2>1
    <2>3. CallsNow(c, Idle)
      BY <1>0 DEF CallsNow
    <2> QED
      BY <2>1, <2>2, <2>3, CallsStay
  <1>1. ASSUME NEW c \in Caller, NEW op \in Op, NEW l \in Link \union {None},
               NEW o \in OrderId \union {None}, NEW s \in Symbol,
               Send(c, Request(op, l, o, s)),
               op = "create" => l \in Link,
               op = "cancel" => \/ l \in Link /\ o = None
                                \/ l = None /\ o \in OrderId
        PROVE  RowsAreTrue' /\ RequestsAreWhole'
    <2> DEFINE k == Request(op, l, o, s)
    <2>1. k.rows = <<>> /\ k.op = op /\ k.link = l /\ k.id = o
      BY DEF Request
    <2>2. CallsNow(c, k)
      BY <1>1 DEF Send, CallsNow
    <2> HIDE DEF k
    <2> QED
      BY <1>1, <2>1, <2>2, CallsStay
  <1>2. ASSUME NEW c \in Caller, NEW rows \in Seq(Row), NEW seen,
               Answer(c, rows, seen),
               \A i \in 1 .. Len(rows) : TrueRow(placed', open', rows[i])
        PROVE  RowsAreTrue' /\ RequestsAreWhole'
    <2> DEFINE k == [call[c] EXCEPT !.phase = "answered", !.rows = rows, !.seen = seen]
    <2>1. /\ k.rows = rows /\ k.op = call[c].op
          /\ k.link = call[c].link /\ k.id = call[c].id
      BY DEF TypeOK, Call
    <2>2. CallsNow(c, k)
      BY <1>2 DEF Answer, CallsNow
    <2> HIDE DEF k
    <2> QED
      BY <1>2, <2>1, <2>2, CallsStay DEF RequestsAreWhole
  <1>3. ASSUME NEW c \in Caller, Place(c)
        PROVE  RowsAreTrue' /\ RequestsAreWhole'
    <2>1. PICK o \in OrderId :
            /\ placed' = [placed EXCEPT ![o] = call[c].link]
            /\ Answer(c, <<Remember(call[c].link, o)>>, {})
      BY <1>3 DEF Place
    <2> DEFINE rows == <<Remember(call[c].link, o)>>
    <2>2. call[c].link \in Link
      BY <1>3 DEF Place, Sent, RequestsAreWhole
    <2>3. Remember(call[c].link, o) \in Row
      BY <2>2, RowTypes
    <2>4. TrueRow(placed', open', Remember(call[c].link, o))
      <3>1. placed'[o] = call[c].link /\ call[c].link # None
        BY <2>1, <2>2, IdAssumption DEF TypeOK
      <3> QED
        BY <3>1, RememberIsTrue
    <2>5. rows \in Seq(Row) /\ \A i \in 1 .. Len(rows) : TrueRow(placed', open', rows[i])
      BY <2>3, <2>4
    <2>6. Answer(c, rows, {})
      BY <2>1
    <2> HIDE DEF rows
    <2> QED
      BY <1>2, <2>5, <2>6
  <1>4. ASSUME NEW c \in Caller, Cancel(c)
        PROVE  RowsAreTrue' /\ RequestsAreWhole'
    <2>1. PICK o \in open :
            /\ o = call[c].id \/ placed[o] = call[c].link
            /\ open' = open \ {o}
            /\ Answer(c, <<Forget(placed[o], o), Forget(call[c].link, call[c].id)>>, {})
      BY <1>4 DEF Cancel
    <2> DEFINE rows == <<Forget(placed[o], o), Forget(call[c].link, call[c].id)>>
    <2>2. o \in OrderId /\ placed[o] \in Link /\ placed[o] # None
      BY DEF OpenIsPlaced, TypeOK
    <2>3. \/ call[c].link = placed[o] /\ call[c].id = None
          \/ call[c].link = None /\ call[c].id = o
      BY <1>4, <2>1, <2>2, IdAssumption DEF Cancel, Sent, RequestsAreWhole
    <2>4. Forget(placed[o], o) \in Row /\ Forget(call[c].link, call[c].id) \in Row
      BY <2>2, <2>3, RowTypes
    <2>5. UNCHANGED placed
      BY <1>4 DEF Cancel
    <2>6. /\ TrueRow(placed', open', Forget(placed[o], o))
          /\ TrueRow(placed', open', Forget(call[c].link, call[c].id))
      BY <2>1, <2>2, <2>3, <2>5, ForgetIsTrue
    <2>7. rows \in Seq(Row) /\ \A i \in 1 .. Len(rows) : TrueRow(placed', open', rows[i])
      BY <2>4, <2>6
    <2>8. Answer(c, rows, {})
      BY <2>1
    <2> HIDE DEF rows
    <2> QED
      BY <1>2, <2>7, <2>8
  <1>5. ASSUME NEW c \in Caller, CancelAll(c) \/ List(c)
        PROVE  RowsAreTrue' /\ RequestsAreWhole'
    <2> DEFINE found == OpenOf(call[c].symbol)
               forgets == {Forget(placed[o], o) : o \in found}
               remembers == {Remember(placed[o], o) : o \in found}
               seen == {placed[o] : o \in found}
    <2>1. found \in SUBSET OrderId /\ \A o \in found : placed[o] \in Link
      BY DEF OpenOf, OpenIsPlaced, TypeOK
    <2>2. UNCHANGED placed
      BY <1>5 DEF CancelAll, List
    <2>3. /\ CancelAll(c) => \A row \in forgets : TrueRow(placed', open', row)
          /\ \A row \in remembers : TrueRow(placed', open', row)
      <3>1. ASSUME CancelAll(c), NEW o \in found
            PROVE  TrueRow(placed', open', Forget(placed[o], o))
        <4>1. placed'[o] = placed[o] /\ placed[o] # None /\ o \in OrderId /\ o \notin open'
          BY <2>1, <2>2, <3>1, IdAssumption DEF CancelAll
        <4> QED
          BY <4>1, ForgetIsTrue
      <3>2. ASSUME NEW o \in found
            PROVE  TrueRow(placed', open', Remember(placed[o], o))
        <4>1. placed'[o] = placed[o] /\ placed[o] # None /\ o \in OrderId
          BY <2>1, <2>2, IdAssumption
        <4> QED
          BY <4>1, RememberIsTrue
      <3> QED
        BY <3>1, <3>2
    <2>4. /\ SetToSeq(forgets) \in Seq(forgets) /\ SetToSeq(forgets) \in Seq(Row)
          /\ SetToSeq(remembers) \in Seq(remembers) /\ SetToSeq(remembers) \in Seq(Row)
      BY <2>1, ListedRows, ListedRowsAreRows
    <2>5. \/ CancelAll(c) /\ Answer(c, SetToSeq(forgets), {})
          \/ Answer(c, SetToSeq(remembers), seen)
      BY <1>5 DEF CancelAll, List
    <2> HIDE DEF forgets, remembers, seen
    <2>6. /\ CancelAll(c) => \A i \in 1 .. Len(SetToSeq(forgets)) :
                               TrueRow(placed', open', SetToSeq(forgets)[i])
          /\ \A i \in 1 .. Len(SetToSeq(remembers)) :
                 TrueRow(placed', open', SetToSeq(remembers)[i])
      BY <2>3, <2>4
    <2> QED
      BY <1>2, <2>4, <2>5, <2>6
  <1>6. ASSUME NEW c \in Caller, Return(c)
        PROVE  RowsAreTrue' /\ RequestsAreWhole'
    <2> DEFINE k == [call[c] EXCEPT !.phase = "returning", !.rows = Tail(call[c].rows)]
    <2>1. call' = [call EXCEPT ![c] = Idle] \/ CallsNow(c, k)
      BY <1>6 DEF Return, CallsNow
    <2>2. call[c].rows \in Seq(Row) /\ call[c].rows # <<>>
      BY <1>6 DEF Return, TypeOK, Call
    <2>3. /\ k.rows = Tail(call[c].rows) /\ k.op = call[c].op
          /\ k.link = call[c].link /\ k.id = call[c].id
      BY DEF TypeOK, Call
    <2>4. \A i \in 1 .. Len(Tail(call[c].rows)) :
             /\ i + 1 \in 1 .. Len(call[c].rows)
             /\ Tail(call[c].rows)[i] = call[c].rows[i + 1]
      BY <2>2, HeadTailProperties
    <2>5. \A i \in 1 .. Len(k.rows) : TrueRow(placed, open, k.rows[i])
      BY <2>3, <2>4 DEF RowsAreTrue
    <2>6. UNCHANGED <<placed, open>>
      BY <1>6 DEF Return
    <2> HIDE DEF k
    <2> QED
      BY <1>0, <2>1, <2>3, <2>5, <2>6, CallsStay DEF RequestsAreWhole
  <1>7. ASSUME NEW c \in Caller, NEW l \in Link, CreateOrder(c, l)
        PROVE  RowsAreTrue' /\ RequestsAreWhole'
    <2>1. Of[l] \in Symbol /\ "create" \in Op
      BY IdAssumption DEF Op
    <2> QED
      BY <1>1, <1>7, <2>1 DEF CreateOrder
  <1>8. ASSUME NEW c \in Caller, NEW o \in OrderId, CancelOrder(c, o)
        PROVE  RowsAreTrue' /\ RequestsAreWhole'
    <2>1. placed[o] \in Link
      BY <1>8 DEF CancelOrder, TypeOK
    <2>2. Of[placed[o]] \in Symbol /\ "cancel" \in Op
      BY <2>1, IdAssumption DEF Op
    <2> QED
      BY <1>1, <1>8, <2>1, <2>2 DEF CancelOrder
  <1>9. ASSUME NEW c \in Caller, NEW s \in Symbol,
               CancelAllOrders(c, s) \/ SyncOrderMappings(c, s)
        PROVE  RowsAreTrue' /\ RequestsAreWhole'
    <2>1. "cancelAll" \in Op /\ "sync" \in Op
      BY DEF Op
    <2> QED
      BY <1>1, <1>9, <2>1 DEF CancelAllOrders, SyncOrderMappings
  <1>10. ASSUME NEW c \in Caller, Fail(c) \/ ReturnEmpty(c) \/ Sweep(c)
         PROVE  RowsAreTrue' /\ RequestsAreWhole'
    BY <1>0, <1>10 DEF Fail, ReturnEmpty, Sweep
  <1>11. CASE UNCHANGED call
    <2>1. RowsAreTrue'
      BY <1>11, TrueRowStays DEF RowsAreTrue
    <2> QED
      BY <1>11, <2>1 DEF RequestsAreWhole
  <1> QED
    BY <1>3, <1>4, <1>5, <1>6, <1>7, <1>8, <1>9, <1>10, <1>11 DEF Next, vars, Fill

-------------------------------------------------------------------------------
(* The cache. *)

LEMMA RememberKeepsCache ==
  ASSUME TypeOK, LinkTakenOnce, CacheIsConsistent, NEW l \in Link, NEW o \in OrderId,
         placed[o] = l, RememberMapping(l, o), UNCHANGED placed
  PROVE  CacheIsConsistent'
  <1>1. /\ \A k \in Link : clOrdToOrd'[k] = IF k = l THEN o ELSE clOrdToOrd[k]
        /\ \A p \in OrderId : ordToClOrd'[p] = IF p = o THEN l ELSE ordToClOrd[p]
    BY DEF RememberMapping, TypeOK
  <1>2. \A k \in Link : clOrdToOrd[k] = o => k = l
    BY IdAssumption DEF CacheIsConsistent
  <1>3. \A p \in OrderId : ordToClOrd[p] = l => p = o
    BY IdAssumption DEF CacheIsConsistent, LinkTakenOnce, TypeOK
  <1> QED
    BY <1>1, <1>2, <1>3 DEF CacheIsConsistent, TypeOK

LEMMA ForgetKeepsCache ==
  ASSUME TypeOK, LinkTakenOnce, CacheIsConsistent, NEW row, row.do = "forget",
         TrueRow(placed, open, row), ForgetMapping(row.link, row.id), UNCHANGED placed
  PROVE  CacheIsConsistent'
  <1> DEFINE link == IF row.link = None THEN ordToClOrd[row.id] ELSE row.link
             id == IF row.id = None THEN clOrdToOrd[link] ELSE row.id
  <1>1. /\ clOrdToOrd' = [k \in Link |-> IF k = link THEN None ELSE clOrdToOrd[k]]
        /\ ordToClOrd' = [p \in OrderId |-> IF p = id THEN None ELSE ordToClOrd[p]]
    BY DEF ForgetMapping
  <1>2. \A k \in Link, p \in OrderId : clOrdToOrd[k] = p => (k = link <=> p = id)
    BY IdAssumption DEF TrueRow, CacheIsConsistent, LinkTakenOnce, TypeOK
  <1> HIDE DEF link, id
  <1> QED
    BY <1>1, <1>2, IdAssumption DEF CacheIsConsistent

LEMMA SweepKeepsCache ==
  ASSUME TypeOK, CacheIsConsistent, NEW c \in Caller, Sweep(c)
  PROVE  CacheIsConsistent'
  <1> DEFINE dropped == {l \in Link : clOrdToOrd[l] # None /\ l \notin call[c].seen}
  <1>1. /\ clOrdToOrd' = [l \in Link |-> IF l \in dropped THEN None ELSE clOrdToOrd[l]]
        /\ ordToClOrd' = [o \in OrderId |->
                             IF \E l \in dropped : clOrdToOrd[l] = o
                             THEN None ELSE ordToClOrd[o]]
        /\ UNCHANGED placed
    BY DEF Sweep
  <1>2. dropped \subseteq Link
    OBVIOUS
  <1> HIDE DEF dropped
  <1> QED
    BY <1>1, <1>2, IdAssumption DEF CacheIsConsistent

LEMMA CacheNext ==
    TypeOK /\ IdInv /\ [Next]_vars => CacheIsConsistent'
  <1> SUFFICES ASSUME TypeOK, IdInv, [Next]_vars
               PROVE  CacheIsConsistent'
    OBVIOUS
  <1>1. ASSUME NEW c \in Caller, Return(c)
        PROVE  CacheIsConsistent'
    <2> DEFINE row == Head(call[c].rows)
    <2>1. call[c].rows \in Seq(Row) /\ call[c].rows # <<>>
      BY <1>1 DEF Return, TypeOK, Call
    <2>2. row \in Row /\ row = call[c].rows[1] /\ 1 \in 1 .. Len(call[c].rows)
      BY <2>1, HeadTailProperties
    <2>3. TrueRow(placed, open, row)
      BY <2>2 DEF IdInv, RowsAreTrue
    <2>4. Apply(row) /\ UNCHANGED placed
      BY <1>1 DEF Return
    <2> HIDE DEF row
    <2>5. CASE row.do = "remember" /\ RememberMapping(row.link, row.id)
      <3>1. placed[row.id] = row.link /\ row.id \in OrderId /\ row.link \in Link
        BY <2>3, <2>5 DEF TrueRow, TypeOK
      <3> QED
        BY <2>4, <2>5, <3>1, RememberKeepsCache DEF IdInv
    <2>6. CASE row.do = "forget" /\ ForgetMapping(row.link, row.id)
      BY <2>3, <2>4, <2>6, ForgetKeepsCache DEF IdInv
    <2> QED
      BY <2>4, <2>5, <2>6 DEF Apply
  <1>2. ASSUME NEW c \in Caller, Sweep(c)
        PROVE  CacheIsConsistent'
    BY <1>2, SweepKeepsCache DEF IdInv
  <1>3. ASSUME UNCHANGED cache
        PROVE  CacheIsConsistent'
    <2>1. \A o \in OrderId : placed[o] # None => placed'[o] = placed[o]
      BY PlacedStays
    <2> QED
      BY <1>3, <2>1, IdAssumption DEF cache, IdInv, CacheIsConsistent, TypeOK
  <1> QED
    BY <1>1, <1>2, <1>3
       DEF Next, vars, cache, CreateOrder, CancelOrder, CancelAllOrders,
           SyncOrderMappings, Send, Place, Cancel, CancelAll, List, Fail, ReturnEmpty, Fill

LEMMA IdInvInit == Init => IdInv
  BY IdleIsCall, IdAssumption
     DEF Init, IdInv, OpenIsPlaced, LinkTakenOnce, RowsAreTrue, RequestsAreWhole,
         CacheIsConsistent

-------------------------------------------------------------------------------

\* The maps, the orders and the calls in progress keep their types, and what the
\* callers have still to work off stays true of the orders of the exchange.
THEOREM IdInvariant == Spec => [](TypeOK /\ IdInv)
  <1>1. Init => TypeOK /\ IdInv
    BY TypeInit, IdInvInit
  <1>2. TypeOK /\ IdInv /\ [Next]_vars => TypeOK' /\ IdInv'
    BY TypeNext, PlacedNext, LinkNext, RowsNext, CacheNext DEF IdInv
  <1> QED
    BY <1>1, <1>2, PTL DEF Spec

\* The maps name orders and client order ids, and every call in progress is a request
\* with rows still to be worked off.
THEOREM IdTypeCorrect == Spec => []TypeOK
  BY IdInvariant, PTL

\* Whatever the order in which the answers of any number of callers are worked off,
\* an entry of the cache names an order by its own ids and has its inverse.
THEOREM CacheIsCorrect == Spec => []CacheIsConsistent
  <1>1. IdInv => CacheIsConsistent
    BY DEF IdInv
  <1> QED
    BY <1>1, IdInvariant, PTL

LEMMA ForgottenIsDone ==
  ASSUME TypeOK, IdInv, NEW row, TrueRow(placed, open, row), Apply(row),
         NEW l \in Link, clOrdToOrd[l] # None, clOrdToOrd'[l] = None
  PROVE  clOrdToOrd[l] \notin open
  <1>1. PICK o \in OrderId :
          /\ placed[o] # None
          /\ row.do = "forget" => o \notin open
          /\ \/ row.link = placed[o] /\ row.id = o
             \/ row.do = "forget" /\ row.link = placed[o] /\ row.id = None
             \/ row.do = "forget" /\ row.link = None /\ row.id = o
    BY DEF TrueRow
  <1>2. CASE row.do = "remember" /\ RememberMapping(row.link, row.id)
    BY <1>1, <1>2, IdAssumption DEF RememberMapping, TypeOK
  <1>3. CASE row.do = "forget" /\ ForgetMapping(row.link, row.id)
    <2>1. l = IF row.link = None THEN ordToClOrd[row.id] ELSE row.link
      BY <1>3 DEF ForgetMapping
    <2>2. clOrdToOrd[l] \in OrderId /\ placed[clOrdToOrd[l]] = l
      BY DEF TypeOK, IdInv, CacheIsConsistent
    <2>3. CASE row.link = None
      <3>1. row.id = o /\ ordToClOrd[o] = l
        BY <1>1, <2>1, <2>3
      <3>2. clOrdToOrd[l] = o
        BY <3>1 DEF IdInv, CacheIsConsistent
      <3> QED
        BY <1>1, <1>3, <3>2
    <2>4. CASE row.link = placed[o] /\ row.link # None
      <3>1. placed[o] = l
        BY <2>1, <2>4
      <3>2. clOrdToOrd[l] = o
        BY <1>1, <2>2, <3>1 DEF IdInv, LinkTakenOnce
      <3> QED
        BY <1>1, <1>3, <3>2
    <2> QED
      BY <1>1, <2>3, <2>4
  <1> QED
    BY <1>2, <1>3 DEF Apply

\* No answer to a cancel, late or overtaken as it may be, makes the client forget the
\* ids of an order that is live; only the sweep of a sync may.
THEOREM CancelsForgetOnlyDone == Spec => CancelForgetsOnlyDone
  <1> DEFINE Forgets ==
        \A l \in Link :
           (clOrdToOrd[l] # None /\ clOrdToOrd'[l] = None) =>
              \/ clOrdToOrd[l] \notin open
              \/ \E c \in Caller : call[c].op = "sync" /\ call'[c] = Idle
  <1>1. TypeOK /\ IdInv /\ [Next]_vars => [Forgets]_vars
    <2> SUFFICES ASSUME TypeOK, IdInv, Next
                 PROVE  Forgets
      OBVIOUS
    <2>1. CASE UNCHANGED clOrdToOrd
      BY <2>1
    <2>2. ASSUME NEW c \in Caller, Return(c)
          PROVE  Forgets
      <3> DEFINE row == Head(call[c].rows)
      <3>1. call[c].rows \in Seq(Row) /\ call[c].rows # <<>>
        BY <2>2 DEF Return, TypeOK, Call
      <3>2. row = call[c].rows[1] /\ 1 \in 1 .. Len(call[c].rows)
        BY <3>1, HeadTailProperties
      <3>3. TrueRow(placed, open, row)
        BY <3>2 DEF IdInv, RowsAreTrue
      <3>4. Apply(row)
        BY <2>2 DEF Return
      <3> HIDE DEF row
      <3> QED
        BY <3>3, <3>4, ForgottenIsDone
    <2>3. ASSUME NEW c \in Caller, Sweep(c)
          PROVE  Forgets
      <3>1. call[c].op = "sync" /\ call'[c] = Idle
        BY <2>3 DEF Sweep, TypeOK
      <3> QED
        BY <3>1
    <2> QED
      BY <2>1, <2>2, <2>3
         DEF Next, cache, CreateOrder, CancelOrder, CancelAllOrders, SyncOrderMappings, Send,
             Place, Cancel, CancelAll, List, Fail, ReturnEmpty, Fill
  <1> QED
    BY <1>1, IdInvariant, PTL DEF Spec, CancelForgetsOnlyDone

===============================================================================
