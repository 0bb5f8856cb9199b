------------------------------ MODULE BatchProofs ------------------------------
(***************************************************************************)
(* Proofs about BatchOrders: for any number of requests and any size of    *)
(* the chunks, results stay with their requests, every valid request is    *)
(* sent once, and the error and the id cache tell what happened.           *)
(***************************************************************************)
EXTENDS BatchOrders, FiniteSetTheorems, SequenceTheorems, WellFoundedInduction, TLAPS

-------------------------------------------------------------------------------
(* Chunks.                                                                 *)

LEMMA ChunkIsCut ==
  ASSUME BatchAssumption, valid \in Seq(BOOLEAN), chunkStart \in Nat, chunkStart < Len(valid)
  PROVE  /\ ChunkEnd \in Nat /\ chunkStart < ChunkEnd /\ ChunkEnd <= Len(valid)
         /\ ChunkEnd = IF chunkStart + MaxBatchSize > Len(valid) THEN Len(valid)
                       ELSE chunkStart + MaxBatchSize
         /\ Chunk \in Seq(BOOLEAN) /\ DOMAIN Chunk = 1 .. ChunkEnd - chunkStart
         /\ Len(Chunk) = ChunkEnd - chunkStart /\ Len(Chunk) \in 1 .. MaxBatchSize
         /\ \A i \in DOMAIN Chunk : Chunk[i] = valid[chunkStart + i]
         /\ Kept \subseteq DOMAIN Chunk /\ IsFiniteSet(Kept)
<1>1. /\ ChunkEnd \in Nat /\ chunkStart < ChunkEnd /\ ChunkEnd <= Len(valid)
      /\ ChunkEnd = IF chunkStart + MaxBatchSize > Len(valid) THEN Len(valid)
                    ELSE chunkStart + MaxBatchSize
      /\ ChunkEnd - chunkStart \in 1 .. MaxBatchSize
  BY DEF ChunkEnd, BatchAssumption
<1>2. /\ Chunk \in Seq(BOOLEAN) /\ Len(Chunk) = ChunkEnd - chunkStart
      /\ DOMAIN Chunk = 1 .. ChunkEnd - chunkStart
      /\ \A i \in DOMAIN Chunk : Chunk[i] = valid[chunkStart + i]
  <2>1. chunkStart + 1 \in 1 .. Len(valid) + 1 /\ ChunkEnd \in chunkStart .. Len(valid)
    BY <1>1
  <2>2. /\ Chunk \in Seq(BOOLEAN)
        /\ Len(Chunk) = ChunkEnd - chunkStart
        /\ \A i \in 1 .. ChunkEnd - chunkStart : Chunk[i] = valid[chunkStart + i]
    BY <2>1, <1>1, Z3T(30) DEF Chunk
  <2>3. QED
    BY <2>2
<1>3. Kept \subseteq DOMAIN Chunk
  BY DEF Kept
<1>4. IsFiniteSet(Kept)
  <2>1. IsFiniteSet(1 .. ChunkEnd - chunkStart)
    <3>1. ChunkEnd - chunkStart \in Int
      BY <1>1
    <3>2. QED
      BY <3>1, FS_Interval
  <2>2. QED
    BY <2>1, <1>2, <1>3, FS_Subset
<1>5. QED
  BY <1>1, <1>2, <1>3, <1>4

\* The rows of a chunk are its valid requests, each once.
LEMMA RowsAreKept ==
  ASSUME IsFiniteSet(Kept), keptIdx \in InOrder(Kept), Kept \subseteq Nat
  PROVE  /\ keptIdx \in [Rows -> Kept]
         /\ Rows = 1 .. Cardinality(Kept) /\ Cardinality(Kept) \in Nat
         /\ \A i \in Kept : \E r \in Rows : keptIdx[r] = i
         /\ \A r, q \in Rows : keptIdx[r] = keptIdx[q] => r = q
<1>1. Cardinality(Kept) \in Nat
  BY FS_CardinalityType
<1>2. /\ keptIdx \in [1 .. Cardinality(Kept) -> Kept] /\ Rows = 1 .. Cardinality(Kept)
      /\ \A r, q \in Rows : r < q => keptIdx[r] < keptIdx[q]
  BY DEF InOrder, Rows
<1>3. \A r, q \in Rows : keptIdx[r] = keptIdx[q] => r = q
  <2> TAKE r, q \in Rows
  <2>1. r \in Nat /\ q \in Nat /\ keptIdx[r] \in Nat /\ keptIdx[q] \in Nat
    <3>1. r \in 1 .. Cardinality(Kept) /\ q \in 1 .. Cardinality(Kept)
      BY <1>2
    <3>2. keptIdx[r] \in Kept /\ keptIdx[q] \in Kept
      BY <3>1, <1>2
    <3>3. r \in Nat /\ q \in Nat
      BY <1>1, <3>1
    <3>4. \A x \in Kept : x \in Nat
      OBVIOUS
    <3>5. QED
      BY <3>2, <3>3, <3>4
  <2>2. CASE r < q
    BY <2>1, <2>2, <1>2
  <2>3. CASE q < r
    BY <2>1, <2>3, <1>2
  <2>4. QED
    BY <2>1, <2>2, <2>3
<1>4. keptIdx \in Injection(Rows, Kept)
  BY <1>2, <1>3 DEF Injection, IsInjective
<1>5. Cardinality(Rows) = Cardinality(Kept)
  BY <1>1, <1>2, FS_Interval
<1>6. keptIdx \in Surjection(Rows, Kept)
  BY <1>4, <1>5, FS_Injection
<1>7. QED
  BY <1>1, <1>2, <1>3, <1>6 DEF Surjection

-------------------------------------------------------------------------------
(* The invariant.                                                          *)

Upto(m) == IF m < Len(valid) THEN m ELSE Len(valid)

\* Where the call is: the chunks before are over, and have their results.
PlaceInv ==
    /\ TypeOK
    /\ phase \in {"sent", "answered"} => chunkStart < Len(valid)
    /\ phase = "returned" => chunkStart >= Len(valid)
    /\ Len(out) = Upto(chunkStart)

\* Valid requests of the chunks before, and of this one once it is sent, are sent once.
SentInv ==
    sent = [i \in Request |->
               IF /\ valid[i]
                  /\ i <= IF phase \in {"sent", "answered"} THEN ChunkEnd ELSE chunkStart
               THEN 1 ELSE 0]

\* What the caller has sent, and what the answer to it says.
AnswerInv ==
    /\ phase \in {"sent", "answered"} => keptIdx \in InOrder(Kept)
    /\ phase = "answered" /\ reply.is = "rows" =>
           /\ \A r \in Rows :
                 /\ RowCode(r) \in Code
                 /\ \/ verdict[RequestOf(r)] = RowCode(r)
                    \/ verdict[RequestOf(r)] = "silent" /\ RowCode(r) = "0"
                 /\ RowOrder(r) = IF RequestOf(r) \in named THEN RequestOf(r) ELSE 0
           /\ \A i \in Mine : ~ valid[i] => verdict[i] = "none"
    /\ phase = "answered" /\ reply.is # "rows" => \A i \in Mine : verdict[i] = "none"

\* The exchange has said nothing of what it has not been asked, and tells no lies: it has
\* executed what it answers with 0, and what it names an order for.
VerdictInv ==
    /\ \A i \in Request :
           i > (IF phase = "answered" THEN ChunkEnd ELSE chunkStart) => verdict[i] = "none"
    /\ \A i \in Request : verdict[i] = "0" => i \in done
    /\ \A i \in named : i \in done /\ verdict[i] \in {"0", "silent"}

\* What the exchange has said of a request that is over is in its result.
Matches(i, result) ==
    result = [order |-> IF i \in named THEN i ELSE 0,
              code |-> IF verdict[i] \in Code THEN verdict[i] ELSE "0"]

MatchInv == \A i \in DOMAIN out : Matches(i, out[i])

\* Requests taken for executed.
Taken == {i \in Request : verdict[i] \in {"0", "silent"}}

CacheInv ==
    /\ kind = "create" => mapped = DOMAIN out \intersect named
    /\ kind = "cancel" => mapped = Request \ (DOMAIN out \intersect Taken)

\* The errors so far tell of the requests that failed, and of no others.
ErrInv ==
    /\ \A k \in DOMAIN aggErrs :
           aggErrs[k].tells # {} /\ aggErrs[k].tells \subseteq DOMAIN out \intersect Failed
    /\ \A i \in DOMAIN out \intersect Failed : \E k \in DOMAIN aggErrs : i \in aggErrs[k].tells
    /\ phase = "returned" => err = FilterOrderNotModified(aggErrs)

CallInv ==
    PlaceInv /\ SentInv /\ AnswerInv /\ VerdictInv /\ MatchInv /\ CacheInv /\ ErrInv

-------------------------------------------------------------------------------
(* It holds.                                                               *)

LEMMA BatchInit == Init => CallInv
<1> SUFFICES ASSUME Init PROVE CallInv
  OBVIOUS
<1>1. valid \in Seq(BOOLEAN) /\ Len(valid) \in Nat /\ Len(valid) <= MaxRequests
  BY BatchAssumption DEF Init, BoundedSeq, SeqOf
<1>2. Request = 1 .. Len(valid)
  BY <1>1 DEF Request
<1>3. Len(<<>>) = 0 /\ DOMAIN out = {} /\ DOMAIN aggErrs = {}
  BY DEF Init
<1>4. TypeOK
  <2>1. /\ market \in Market /\ kind \in Kind
        /\ valid \in Seq(BOOLEAN) /\ Len(valid) <= MaxRequests
        /\ phase \in {"build", "sent", "answered", "returned"}
        /\ keptIdx \in Seq(1 .. MaxBatchSize)
        /\ out \in Seq(Result) /\ Len(out) <= Len(valid)
        /\ aggErrs \in Seq(ChunkErr)
        /\ err \subseteq DOMAIN aggErrs
        /\ mapped \in SUBSET Request
        /\ done \in SUBSET Request
    BY <1>1 DEF Init
  <2>2. chunkStart \in 0 .. MaxRequests + MaxBatchSize
    BY BatchAssumption DEF Init
  <2>3. reply \in Reply
    BY DEF Init, Reply, NoReply
  <2>4. sent \in [Request -> Nat] /\ verdict \in [Request -> Verdict] /\ named \in SUBSET Request
    BY DEF Init, Verdict
  <2>5. QED
    BY <2>1, <2>2, <2>3, <2>4 DEF TypeOK
<1>5. PlaceInv
  BY <1>1, <1>3, <1>4 DEF PlaceInv, Init, Upto
<1>6. SentInv
  BY <1>1, <1>2 DEF SentInv, Init
<1>7. AnswerInv /\ VerdictInv /\ MatchInv
  BY <1>3 DEF AnswerInv, VerdictInv, MatchInv, Init
<1>8. CacheInv
  BY <1>3 DEF CacheInv, Init
<1>9. ErrInv
  BY <1>3 DEF ErrInv, Init
<1>10. QED
  BY <1>5, <1>6, <1>7, <1>8, <1>9 DEF CallInv

\* Errors that are appended to others are behind them.
LEMMA ErrorsAreJoined ==
  ASSUME NEW a \in Seq(ChunkErr), NEW b \in Seq(ChunkErr)
  PROVE  /\ a \o b \in Seq(ChunkErr) /\ DOMAIN a \subseteq DOMAIN (a \o b)
         /\ \A k \in DOMAIN (a \o b) :
               \/ k \in DOMAIN a /\ (a \o b)[k] = a[k]
               \/ \E n \in DOMAIN b : (a \o b)[k] = b[n]
         /\ \A k \in DOMAIN a : (a \o b)[k] = a[k]
         /\ \A n \in DOMAIN b : \E k \in DOMAIN (a \o b) : (a \o b)[k] = b[n]
<1> DEFINE c == a \o b
<1>1. /\ c \in Seq(ChunkErr) /\ Len(c) = Len(a) + Len(b)
      /\ \A k \in 1 .. Len(a) + Len(b) : c[k] = IF k <= Len(a) THEN a[k] ELSE b[k - Len(a)]
  BY ConcatProperties
<1>2. /\ Len(a) \in Nat /\ Len(b) \in Nat /\ DOMAIN a = 1 .. Len(a) /\ DOMAIN b = 1 .. Len(b)
      /\ DOMAIN c = 1 .. Len(a) + Len(b)
  BY <1>1
<1> HIDE DEF c
<1>3. \A k \in DOMAIN a : k \in DOMAIN c /\ c[k] = a[k]
  <2> TAKE k \in DOMAIN a
  <2>1. k \in 1 .. Len(a) + Len(b) /\ k <= Len(a)
    BY <1>2
  <2>2. QED
    BY <2>1, <1>1, <1>2
<1>4. ASSUME NEW k \in DOMAIN c
      PROVE  k \in DOMAIN a \/ (k - Len(a) \in DOMAIN b /\ c[k] = b[k - Len(a)])
  <2>1. k \in 1 .. Len(a) + Len(b)
    BY <1>2, <1>4
  <2>2. CASE k <= Len(a)
    BY <2>1, <2>2, <1>2
  <2>3. CASE ~ (k <= Len(a))
    <3>1. k - Len(a) \in 1 .. Len(b)
      BY <2>1, <2>3, <1>2
    <3>2. QED
      BY <3>1, <2>1, <2>3, <1>1, <1>2
  <2>4. QED
    BY <2>2, <2>3
<1>5. \A n \in DOMAIN b : Len(a) + n \in DOMAIN c /\ c[Len(a) + n] = b[n]
  <2> TAKE n \in DOMAIN b
  <2>1. /\ Len(a) + n \in 1 .. Len(a) + Len(b) /\ ~ (Len(a) + n <= Len(a))
        /\ (Len(a) + n) - Len(a) = n
    BY <1>2
  <2>2. c[Len(a) + n] = b[(Len(a) + n) - Len(a)]
    BY <2>1, <1>1
  <2>3. QED
    BY <2>1, <2>2, <1>2
<1>6. \A k \in DOMAIN c :
         (k \in DOMAIN a /\ c[k] = a[k]) \/ \E n \in DOMAIN b : c[k] = b[n]
  BY <1>3, <1>4
<1>7. \A n \in DOMAIN b : \E k \in DOMAIN c : c[k] = b[n]
  BY <1>5
<1>8. c \in Seq(ChunkErr) /\ DOMAIN a \subseteq DOMAIN c /\ \A k \in DOMAIN a : c[k] = a[k]
  BY <1>1, <1>3
<1>9. QED
  BY <1>6, <1>7, <1>8 DEF c

\* What FinishChunk does to the results, for any results and error of the chunk.
LEMMA ChunkIsOver ==
  ASSUME PlaceInv, chunkStart < Len(valid), UNCHANGED callVars,
         NEW results \in Seq(Result), Len(results) = Len(Chunk),
         NEW errors \in Seq(ChunkErr), FinishChunk(results, errors)
  PROVE  /\ chunkStart' \in 0 .. MaxRequests + MaxBatchSize
         /\ out' \in Seq(Result) /\ Len(out') = ChunkEnd /\ Len(out) = chunkStart
         /\ ChunkEnd = Upto(chunkStart') /\ ChunkEnd <= chunkStart'
         /\ \A i \in 1 .. chunkStart : out'[i] = out[i]
         /\ \A i \in Mine : i - chunkStart \in 1 .. Len(Chunk) /\ out'[i] = results[i - chunkStart]
         /\ aggErrs' \in Seq(ChunkErr) /\ DOMAIN aggErrs \subseteq DOMAIN aggErrs'
         /\ \A k \in DOMAIN aggErrs' :
               \/ k \in DOMAIN aggErrs /\ aggErrs'[k] = aggErrs[k]
               \/ \E n \in DOMAIN errors : aggErrs'[k] = errors[n]
         /\ \A k \in DOMAIN aggErrs : aggErrs'[k] = aggErrs[k]
         /\ \A n \in DOMAIN errors : \E k \in DOMAIN aggErrs' : aggErrs'[k] = errors[n]
<1>1. /\ valid \in Seq(BOOLEAN) /\ Len(valid) \in Nat /\ Len(valid) <= MaxRequests
      /\ chunkStart \in Nat /\ out \in Seq(Result) /\ aggErrs \in Seq(ChunkErr)
      /\ MaxRequests \in Nat /\ MaxBatchSize \in Nat
  BY BatchAssumption DEF PlaceInv, TypeOK
<1>2. /\ ChunkEnd \in Nat /\ chunkStart < ChunkEnd /\ ChunkEnd <= Len(valid)
      /\ ChunkEnd = IF chunkStart + MaxBatchSize > Len(valid) THEN Len(valid)
                    ELSE chunkStart + MaxBatchSize
      /\ Len(Chunk) = ChunkEnd - chunkStart
  BY <1>1, ChunkIsCut, BatchAssumption
<1>3. Len(out) = chunkStart
  BY <1>1 DEF PlaceInv, Upto
<1>4. chunkStart' = chunkStart + MaxBatchSize /\ out' = out \o results
  BY DEF FinishChunk
<1>5. chunkStart' \in 0 .. MaxRequests + MaxBatchSize
  BY <1>1, <1>4
<1>6. ChunkEnd = Upto(chunkStart') /\ ChunkEnd <= chunkStart'
  <2>1. chunkStart' \in Nat
    BY <1>1, <1>4
  <2>2. CASE chunkStart + MaxBatchSize > Len(valid)
    <3>1. ChunkEnd = Len(valid) /\ ~ (chunkStart' < Len(valid)) /\ ChunkEnd <= chunkStart'
      BY <2>1, <2>2, <1>1, <1>2, <1>4
    <3>2. QED
      BY <3>1 DEF Upto
  <2>3. CASE ~ (chunkStart + MaxBatchSize > Len(valid))
    <3>1. ChunkEnd = chunkStart' /\ chunkStart' <= Len(valid)
      BY <2>3, <1>1, <1>2, <1>4
    <3>2. QED
      BY <3>1, <2>1, <1>1 DEF Upto
  <2>4. QED
    BY <2>2, <2>3
<1>7. /\ out' \in Seq(Result) /\ Len(out') = Len(out) + Len(results)
      /\ \A i \in 1 .. Len(out) + Len(results) :
             out'[i] = IF i <= Len(out) THEN out[i] ELSE results[i - Len(out)]
  BY <1>1, <1>4, ConcatProperties
<1>8. Len(out') = ChunkEnd
  BY <1>1, <1>2, <1>3, <1>7
<1>9. \A i \in 1 .. chunkStart : out'[i] = out[i]
  <2> TAKE i \in 1 .. chunkStart
  <2>1. Len(results) \in Nat /\ i <= Len(out)
    BY <1>1, <1>2, <1>3
  <2>2. i \in 1 .. Len(out) + Len(results)
    BY <2>1, <1>1, <1>3
  <2>3. QED
    BY <2>1, <2>2, <1>7
<1>10. \A i \in Mine : i - chunkStart \in 1 .. Len(Chunk) /\ out'[i] = results[i - chunkStart]
  BY <1>1, <1>2, <1>3, <1>7 DEF Mine
<1>11. /\ aggErrs' \in Seq(ChunkErr) /\ DOMAIN aggErrs \subseteq DOMAIN aggErrs'
       /\ \A k \in DOMAIN aggErrs' :
             \/ k \in DOMAIN aggErrs /\ aggErrs'[k] = aggErrs[k]
             \/ \E n \in DOMAIN errors : aggErrs'[k] = errors[n]
       /\ \A k \in DOMAIN aggErrs : aggErrs'[k] = aggErrs[k]
       /\ \A n \in DOMAIN errors : \E k \in DOMAIN aggErrs' : aggErrs'[k] = errors[n]
  <2> DEFINE joined == aggErrs \o errors
  <2>1. aggErrs' = joined
    BY DEF FinishChunk
  <2>2. /\ joined \in Seq(ChunkErr) /\ DOMAIN aggErrs \subseteq DOMAIN joined
        /\ \A k \in DOMAIN joined :
              \/ k \in DOMAIN aggErrs /\ joined[k] = aggErrs[k]
              \/ \E n \in DOMAIN errors : joined[k] = errors[n]
        /\ \A k \in DOMAIN aggErrs : joined[k] = aggErrs[k]
        /\ \A n \in DOMAIN errors : \E k \in DOMAIN joined : joined[k] = errors[n]
    BY <1>1, ErrorsAreJoined, Zenon
  <2> HIDE DEF joined
  <2>3. QED
    BY <2>1, <2>2
<1>12. QED
  BY <1>3, <1>5, <1>6, <1>7, <1>8, <1>9, <1>10, <1>11

\* The end of a chunk keeps the invariant, if the results and the error of the chunk tell
\* of its requests what the exchange has said of them.
LEMMA AfterChunk ==
  ASSUME CallInv, chunkStart < Len(valid), UNCHANGED <<callVars, keptIdx, reply, err, ghostVars>>,
         phase \in {"build", "answered"},
         NEW results \in Seq(Result), Len(results) = Len(Chunk),
         NEW errors \in Seq(ChunkErr), FinishChunk(results, errors),
         \A i \in Mine : Matches(i, results[i - chunkStart]),
         \A i \in Mine : valid[i] => phase = "answered",
         \A n \in DOMAIN errors :
             errors[n].tells # {} /\ errors[n].tells \subseteq Mine \intersect Failed,
         \A i \in Mine \intersect Failed : \E n \in DOMAIN errors : i \in errors[n].tells,
         kind = "create" => mapped' = mapped \union (Mine \intersect named),
         kind = "cancel" => mapped' = mapped \ (Mine \intersect Taken),
         mapped' \in SUBSET Request
  PROVE  CallInv'
<1> USE BatchAssumption
<1>1. /\ valid \in Seq(BOOLEAN) /\ Len(valid) \in Nat /\ Len(valid) <= MaxRequests
      /\ chunkStart \in Nat /\ out \in Seq(Result) /\ aggErrs \in Seq(ChunkErr)
      /\ Request = 1 .. Len(valid) /\ PlaceInv
  BY DEF CallInv, PlaceInv, TypeOK, Request
<1>2. /\ ChunkEnd \in Nat /\ chunkStart < ChunkEnd /\ ChunkEnd <= Len(valid)
  BY <1>1, ChunkIsCut
<1>3. /\ valid' = valid /\ kind' = kind /\ market' = market /\ sent' = sent /\ done' = done
      /\ verdict' = verdict /\ named' = named /\ keptIdx' = keptIdx /\ reply' = reply /\ err' = err
  BY DEF callVars, ghostVars
<1>4. /\ chunkStart' \in 0 .. MaxRequests + MaxBatchSize
      /\ out' \in Seq(Result) /\ Len(out') = ChunkEnd /\ Len(out) = chunkStart
      /\ ChunkEnd = Upto(chunkStart') /\ ChunkEnd <= chunkStart'
      /\ \A i \in 1 .. chunkStart : out'[i] = out[i]
      /\ \A i \in Mine : i - chunkStart \in 1 .. Len(Chunk) /\ out'[i] = results[i - chunkStart]
      /\ aggErrs' \in Seq(ChunkErr) /\ DOMAIN aggErrs \subseteq DOMAIN aggErrs'
      /\ \A k \in DOMAIN aggErrs' :
            \/ k \in DOMAIN aggErrs /\ aggErrs'[k] = aggErrs[k]
            \/ \E n \in DOMAIN errors : aggErrs'[k] = errors[n]
      /\ \A k \in DOMAIN aggErrs : aggErrs'[k] = aggErrs[k]
      /\ \A n \in DOMAIN errors : \E k \in DOMAIN aggErrs' : aggErrs'[k] = errors[n]
  BY <1>1, <1>3, ChunkIsOver DEF callVars
<1>5. phase' = "build" /\ Request' = Request /\ chunkStart' \in Nat
  BY <1>1, <1>3, <1>4 DEF FinishChunk, Request
<1>6. /\ DOMAIN out = 1 .. chunkStart /\ DOMAIN out' = 1 .. ChunkEnd
      /\ \A i \in 1 .. ChunkEnd : i \in 1 .. chunkStart \/ i \in Mine
      /\ Mine \subseteq 1 .. ChunkEnd /\ 1 .. chunkStart \subseteq 1 .. ChunkEnd
      /\ 1 .. ChunkEnd \subseteq Request
      /\ \A i \in Request : i <= chunkStart' => i \in 1 .. ChunkEnd
  BY <1>1, <1>2, <1>4, <1>5 DEF Mine, Upto
<1>7. TypeOK'
  <2>1. /\ market' \in Market /\ kind' \in Kind
        /\ valid' \in Seq(BOOLEAN) /\ Len(valid') <= MaxRequests
        /\ phase' \in {"build", "sent", "answered", "returned"}
        /\ keptIdx' \in Seq(1 .. MaxBatchSize)
        /\ Len(out') <= Len(valid')
        /\ err' \subseteq DOMAIN aggErrs'
    BY <1>1, <1>2, <1>3, <1>4, <1>5 DEF CallInv, PlaceInv, TypeOK
  <2>2. reply' \in Reply' /\ done' \in SUBSET Request' /\ sent' \in [Request' -> Nat]
        /\ verdict' \in [Request' -> Verdict'] /\ named' \in SUBSET Request'
    BY <1>3, <1>5 DEF CallInv, PlaceInv, TypeOK, Reply, Error, Code, Verdict
  <2>3. QED
    BY <2>1, <2>2, <1>4, <1>5 DEF TypeOK, Result, Code, Error, Kind, ChunkErr
<1>8. PlaceInv'
  BY <1>3, <1>4, <1>5, <1>7 DEF PlaceInv, Upto
<1>9. SentInv'
  <2>1. \A i \in Request : /\ valid[i] /\ i <= chunkStart' => sent[i] = 1
                           /\ ~ (valid[i] /\ i <= chunkStart') => sent[i] = 0
    <3> TAKE i \in Request
    <3>1. sent[i] = IF /\ valid[i]
                       /\ i <= IF phase = "answered" THEN ChunkEnd ELSE chunkStart
                    THEN 1 ELSE 0
      BY DEF CallInv, SentInv
    <3>2. i \in Nat /\ i >= 1
      BY <1>1
    <3>3. CASE i <= chunkStart
      BY <3>1, <3>2, <3>3, <1>1, <1>2, <1>4, <1>5
    <3>4. CASE i \in Mine
      BY <3>1, <3>2, <3>4, <1>1, <1>2, <1>4, <1>5 DEF Mine
    <3>5. CASE i > ChunkEnd
      BY <3>1, <3>2, <3>5, <1>1, <1>2, <1>4, <1>5, <1>6
    <3>6. QED
      BY <3>2, <3>3, <3>4, <3>5, <1>1, <1>2 DEF Mine
  <2>2. sent = [i \in Request |-> sent[i]]
    BY DEF CallInv, PlaceInv, TypeOK
  <2>3. sent = [i \in Request |-> IF valid[i] /\ i <= chunkStart' THEN 1 ELSE 0]
    BY <2>1, <2>2
  <2>4. QED
    BY <2>3, <1>3, <1>5 DEF SentInv
<1>10. AnswerInv'
  BY <1>5 DEF AnswerInv
<1>11. VerdictInv'
  <2>1. \A i \in Request : i > chunkStart' => verdict[i] = "none"
    <3> SUFFICES ASSUME NEW i \in Request, i > chunkStart' PROVE verdict[i] = "none"
      OBVIOUS
    <3>1. i > ChunkEnd /\ i > chunkStart
      BY <1>1, <1>2, <1>4, <1>5
    <3>2. QED
      BY <3>1 DEF CallInv, VerdictInv
  <2>2. QED
    BY <2>1, <1>3, <1>5 DEF VerdictInv, CallInv
<1>12. MatchInv'
  <2>1. \A i \in 1 .. ChunkEnd : Matches(i, out'[i])
    <3> TAKE i \in 1 .. ChunkEnd
    <3>1. CASE i \in 1 .. chunkStart
      BY <3>1, <1>4, <1>6 DEF CallInv, MatchInv
    <3>2. CASE i \in Mine
      BY <3>2, <1>4
    <3>3. QED
      BY <3>1, <3>2, <1>6
  <2>2. QED
    BY <2>1, <1>3, <1>6 DEF MatchInv, Matches, Code
<1>13. CacheInv'
  <2>1. Taken' = Taken /\ DOMAIN out' = DOMAIN out \union Mine
    BY <1>3, <1>5, <1>6 DEF Taken
  <2>2. kind = "create" => mapped' = DOMAIN out' \intersect named
    BY <2>1 DEF CallInv, CacheInv
  <2>3. kind = "cancel" => mapped' = Request \ (DOMAIN out' \intersect Taken)
    BY <2>1 DEF CallInv, CacheInv
  <2>4. QED
    BY <2>1, <2>2, <2>3, <1>3, <1>5 DEF CacheInv
<1>14. ErrInv'
  <2>1. /\ Failed' = Failed /\ DOMAIN out' = DOMAIN out \union Mine
    BY <1>3, <1>5, <1>6 DEF Failed, IsOrderNotModified, Code
  <2>2. ASSUME NEW k \in DOMAIN aggErrs'
        PROVE  /\ aggErrs'[k].tells # {}
               /\ aggErrs'[k].tells \subseteq DOMAIN out' \intersect Failed
    <3>1. CASE k \in DOMAIN aggErrs /\ aggErrs'[k] = aggErrs[k]
      BY <2>1, <3>1 DEF CallInv, ErrInv
    <3>2. CASE \E n \in DOMAIN errors : aggErrs'[k] = errors[n]
      BY <2>1, <3>2
    <3>3. QED
      BY <2>2, <3>1, <3>2, <1>4
  <2>3. ASSUME NEW i \in DOMAIN out' \intersect Failed
        PROVE  \E k \in DOMAIN aggErrs' : i \in aggErrs'[k].tells
    <3>1. CASE i \in DOMAIN out
      <4>1. PICK k \in DOMAIN aggErrs : i \in aggErrs[k].tells
        BY <3>1 DEF CallInv, ErrInv
      <4>2. QED
        BY <4>1, <1>4
    <3>2. CASE i \in Mine
      <4>1. PICK n \in DOMAIN errors : i \in errors[n].tells
        BY <3>2
      <4>2. PICK k \in DOMAIN aggErrs' : aggErrs'[k] = errors[n]
        BY <1>4
      <4>3. QED
        BY <4>1, <4>2
    <3>3. QED
      BY <2>1, <3>1, <3>2
  <2>4. QED
    BY <2>1, <2>2, <2>3, <1>5 DEF ErrInv
<1>15. QED
  BY <1>8, <1>9, <1>10, <1>11, <1>12, <1>13, <1>14 DEF CallInv

\* What every step may rely on.
LEMMA Here ==
  ASSUME CallInv
  PROVE  /\ valid \in Seq(BOOLEAN) /\ Len(valid) \in Nat /\ Len(valid) <= MaxRequests
         /\ chunkStart \in Nat /\ Request = 1 .. Len(valid)
         /\ chunkStart < Len(valid) =>
                /\ ChunkEnd \in Nat /\ chunkStart < ChunkEnd /\ ChunkEnd <= Len(valid)
                /\ Mine \subseteq Request /\ chunkStart + 1 \in Mine
                /\ DOMAIN Chunk = 1 .. Len(Chunk) /\ Len(Chunk) \in 1 .. MaxBatchSize
                /\ \A i \in Mine : i - chunkStart \in DOMAIN Chunk
                                   /\ Chunk[i - chunkStart] = valid[i]
                /\ \A i \in DOMAIN Chunk : chunkStart + i \in Mine
                                           /\ (chunkStart + i) - chunkStart = i
                /\ Kept \subseteq DOMAIN Chunk /\ Kept \subseteq Nat /\ IsFiniteSet(Kept)
<1> USE BatchAssumption
<1>1. /\ valid \in Seq(BOOLEAN) /\ Len(valid) \in Nat /\ Len(valid) <= MaxRequests
      /\ chunkStart \in Nat /\ Request = 1 .. Len(valid)
  BY DEF CallInv, PlaceInv, TypeOK, Request
<1>2. SUFFICES ASSUME chunkStart < Len(valid)
               PROVE  /\ ChunkEnd \in Nat /\ chunkStart < ChunkEnd /\ ChunkEnd <= Len(valid)
                      /\ Mine \subseteq Request /\ chunkStart + 1 \in Mine
                      /\ DOMAIN Chunk = 1 .. Len(Chunk) /\ Len(Chunk) \in 1 .. MaxBatchSize
                      /\ \A i \in Mine : i - chunkStart \in DOMAIN Chunk
                                         /\ Chunk[i - chunkStart] = valid[i]
                      /\ \A i \in DOMAIN Chunk : chunkStart + i \in Mine
                                                 /\ (chunkStart + i) - chunkStart = i
                      /\ Kept \subseteq DOMAIN Chunk /\ Kept \subseteq Nat /\ IsFiniteSet(Kept)
  BY <1>1
<1>3. /\ ChunkEnd \in Nat /\ chunkStart < ChunkEnd /\ ChunkEnd <= Len(valid)
      /\ DOMAIN Chunk = 1 .. ChunkEnd - chunkStart /\ Len(Chunk) = ChunkEnd - chunkStart
      /\ Len(Chunk) \in 1 .. MaxBatchSize
      /\ \A i \in DOMAIN Chunk : Chunk[i] = valid[chunkStart + i]
      /\ Kept \subseteq DOMAIN Chunk /\ IsFiniteSet(Kept)
  BY <1>1, <1>2, ChunkIsCut
<1>4. Mine \subseteq Request /\ chunkStart + 1 \in Mine
  BY <1>1, <1>3 DEF Mine
<1>5. \A i \in Mine : i - chunkStart \in DOMAIN Chunk /\ Chunk[i - chunkStart] = valid[i]
  <2> TAKE i \in Mine
  <2>1. i \in Nat /\ i - chunkStart \in 1 .. ChunkEnd - chunkStart
        /\ chunkStart + (i - chunkStart) = i
    BY <1>1, <1>3 DEF Mine
  <2>2. QED
    BY <2>1, <1>3
<1>6. \A i \in DOMAIN Chunk : chunkStart + i \in Mine /\ (chunkStart + i) - chunkStart = i
  BY <1>1, <1>3 DEF Mine
<1>7. Kept \subseteq Nat
  BY <1>1, <1>3
<1>8. QED
  BY <1>3, <1>4, <1>5, <1>6, <1>7

\* A request nothing was said of keeps its placeholder, and no order was named for it.
LEMMA Unsaid ==
  ASSUME CallInv, NEW i \in Request, verdict[i] = "none"
  PROVE  i \notin named /\ Matches(i, Placeholder)
<1>1. i \notin named
  BY DEF CallInv, VerdictInv
<1>2. QED
  BY <1>1 DEF Matches, Placeholder, Code

LEMMA SkipStep ==
  ASSUME CallInv, SkipChunk
  PROVE  CallInv'
<1> USE BatchAssumption
<1> DEFINE errors == <<[code |-> BodyErr, tells |-> LeftOut]>>
<1>1. phase = "build" /\ chunkStart < Len(valid) /\ Kept = {} /\ FinishChunk(Placeholders, errors)
      /\ mapped' = mapped /\ UNCHANGED <<callVars, keptIdx, reply, err, ghostVars>>
  BY DEF SkipChunk
<1>2. \A i \in Mine : ~ valid[i]
  BY <1>1, Here DEF Kept
<1>3. \A i \in Mine : verdict[i] = "none" /\ i \in Failed
  <2> TAKE i \in Mine
  <2>1. i \in Request /\ i > chunkStart
    BY <1>1, Here DEF Mine
  <2>2. verdict[i] = "none"
    BY <1>1, <2>1 DEF CallInv, VerdictInv
  <2>3. QED
    BY <2>1, <2>2 DEF Failed, IsOrderNotModified
<1>4. Placeholders \in Seq(Result) /\ Len(Placeholders) = Len(Chunk)
      /\ \A i \in DOMAIN Chunk : Placeholders[i] = Placeholder
  <2>1. Placeholder \in Result
    BY DEF Placeholder, Result, Code
  <2>2. Len(Chunk) \in Nat /\ DOMAIN Chunk = 1 .. Len(Chunk)
    BY <1>1, Here
  <2>3. QED
    BY <2>1, <2>2 DEF Placeholders
<1>5. \A i \in Mine : Matches(i, Placeholders[i - chunkStart])
  BY <1>1, <1>3, <1>4, Here, Unsaid
<1>6. /\ errors \in Seq(ChunkErr) /\ DOMAIN errors = {1} /\ errors[1].tells = Mine
      /\ Mine # {} /\ Mine \subseteq Failed
  <2>1. LeftOut = Mine /\ Mine # {} /\ Mine \subseteq Failed
    BY <1>1, <1>2, <1>3, Here DEF LeftOut
  <2>2. [code |-> BodyErr, tells |-> LeftOut] \in ChunkErr
    <3>1. LeftOut \subseteq 1 .. MaxRequests
      BY <2>1, <1>1, Here, BatchAssumption
    <3>2. BodyErr \in Error
      BY DEF BodyErr, Error
    <3>3. QED
      BY <3>1, <3>2 DEF ChunkErr
  <2>3. QED
    BY <2>1, <2>2
<1>7. Mine \intersect Taken = {} /\ Mine \intersect named = {} /\ mapped' \in SUBSET Request
  BY <1>1, <1>3, Unsaid DEF CallInv, PlaceInv, TypeOK, Taken
<1> HIDE DEF errors
<1>8. QED
  BY <1>1, <1>2, <1>4, <1>5, <1>6, <1>7, AfterChunk

LEMMA FailStep ==
  ASSUME CallInv, ChunkFails
  PROVE  CallInv'
<1> USE BatchAssumption
<1> DEFINE error == IF reply.is = "error" THEN reply.code ELSE ""
           errors == <<[code |-> error, tells |-> Mine]>>
<1>1. phase = "answered" /\ reply.is \in {"error", "garbled"} /\ FinishChunk(Placeholders, errors)
      /\ mapped' = mapped /\ UNCHANGED <<callVars, keptIdx, reply, err, ghostVars>>
  BY DEF ChunkFails
<1>2. chunkStart < Len(valid)
  BY <1>1 DEF CallInv, PlaceInv
<1>3. \A i \in Mine : verdict[i] = "none" /\ i \in Failed
  BY <1>1, <1>2, Here DEF CallInv, AnswerInv, Failed, IsOrderNotModified
<1>4. Placeholders \in Seq(Result) /\ Len(Placeholders) = Len(Chunk)
      /\ \A i \in DOMAIN Chunk : Placeholders[i] = Placeholder
  <2>1. Placeholder \in Result
    BY DEF Placeholder, Result, Code
  <2>2. Len(Chunk) \in Nat /\ DOMAIN Chunk = 1 .. Len(Chunk)
    BY <1>2, Here
  <2>3. QED
    BY <2>1, <2>2 DEF Placeholders
<1>5. \A i \in Mine : Matches(i, Placeholders[i - chunkStart])
  BY <1>2, <1>3, <1>4, Here, Unsaid
<1>6. /\ errors \in Seq(ChunkErr) /\ DOMAIN errors = {1} /\ errors[1].tells = Mine
      /\ Mine # {} /\ Mine \subseteq Failed
  <2>1. error \in Error
    <3>1. reply \in Reply
      BY DEF CallInv, PlaceInv, TypeOK
    <3>2. QED
      BY <3>1 DEF Reply, Error
  <2>2. Mine # {} /\ Mine \subseteq Failed
    BY <1>2, <1>3, Here
  <2> HIDE DEF error
  <2>3. [code |-> error, tells |-> Mine] \in ChunkErr
    BY <2>1, <1>2, Here DEF ChunkErr
  <2>4. QED
    BY <2>2, <2>3
<1>7. Mine \intersect Taken = {} /\ Mine \intersect named = {} /\ mapped' \in SUBSET Request
  BY <1>1, <1>3, Unsaid DEF CallInv, PlaceInv, TypeOK, Taken
<1> HIDE DEF errors, error
<1>8. QED
  BY <1>1, <1>2, <1>4, <1>5, <1>6, <1>7, AfterChunk

\* Every row that was sent is a valid request of the chunk, and every such request a row.
LEMMA RowsAreRequests ==
  ASSUME CallInv, phase \in {"sent", "answered"}
  PROVE  /\ chunkStart < Len(valid)
         /\ Rows = 1 .. Cardinality(Kept) /\ Cardinality(Kept) \in Nat
         /\ \A r \in Rows : keptIdx[r] \in Kept /\ RequestOf(r) \in Mine /\ valid[RequestOf(r)]
         /\ \A i \in DOMAIN Chunk : valid[chunkStart + i] => \E r \in Rows : keptIdx[r] = i
         /\ \A i \in Mine : valid[i] => \E r \in Rows : RequestOf(r) = i
         /\ \A r, q \in Rows : RequestOf(r) = RequestOf(q) => r = q
         /\ \A r \in Rows, i \in DOMAIN Chunk : keptIdx[r] = i <=> RequestOf(r) = chunkStart + i
<1> USE BatchAssumption
<1>1. chunkStart < Len(valid) /\ keptIdx \in InOrder(Kept)
  BY DEF CallInv, PlaceInv, AnswerInv
<1>2. /\ keptIdx \in [Rows -> Kept]
      /\ Rows = 1 .. Cardinality(Kept) /\ Cardinality(Kept) \in Nat
      /\ \A i \in Kept : \E r \in Rows : keptIdx[r] = i
      /\ \A r, q \in Rows : keptIdx[r] = keptIdx[q] => r = q
  BY <1>1, Here, RowsAreKept
<1>3. /\ chunkStart \in Nat /\ Kept \subseteq DOMAIN Chunk /\ \A i \in DOMAIN Chunk : i \in Nat
      /\ \A i \in DOMAIN Chunk : chunkStart + i \in Mine /\ (chunkStart + i) - chunkStart = i
      /\ \A i \in Mine : i - chunkStart \in DOMAIN Chunk /\ Chunk[i - chunkStart] = valid[i]
  BY <1>1, Here
<1>4. \A i \in DOMAIN Chunk : i \in Kept <=> valid[chunkStart + i]
  <2> TAKE i \in DOMAIN Chunk
  <2>1. Chunk[i] = valid[chunkStart + i]
    BY <1>3
  <2>2. QED
    BY <2>1 DEF Kept
<1>5. \A r \in Rows : keptIdx[r] \in Kept /\ RequestOf(r) \in Mine /\ valid[RequestOf(r)]
  BY <1>2, <1>3, <1>4 DEF RequestOf
<1>6. \A r \in Rows, i \in DOMAIN Chunk : keptIdx[r] = i <=> RequestOf(r) = chunkStart + i
  <2> TAKE r \in Rows, i \in DOMAIN Chunk
  <2>1. keptIdx[r] \in Nat /\ i \in Nat
    BY <1>3, <1>5
  <2>2. QED
    BY <2>1, <1>3 DEF RequestOf
<1>7. \A i \in DOMAIN Chunk : valid[chunkStart + i] => \E r \in Rows : keptIdx[r] = i
  BY <1>2, <1>4
<1>8. \A i \in Mine : valid[i] => \E r \in Rows : RequestOf(r) = i
  <2> SUFFICES ASSUME NEW i \in Mine, valid[i] PROVE \E r \in Rows : RequestOf(r) = i
    OBVIOUS
  <2>1. i - chunkStart \in DOMAIN Chunk /\ chunkStart + (i - chunkStart) = i
    BY <1>3 DEF Mine
  <2>2. QED
    BY <2>1, <1>6, <1>7
<1>9. \A r, q \in Rows : RequestOf(r) = RequestOf(q) => r = q
  <2> SUFFICES ASSUME NEW r \in Rows, NEW q \in Rows, RequestOf(r) = RequestOf(q) PROVE r = q
    OBVIOUS
  <2>1. keptIdx[q] \in DOMAIN Chunk /\ keptIdx[r] \in DOMAIN Chunk
    BY <1>3, <1>5
  <2>2. keptIdx[r] = keptIdx[q]
    BY <2>1, <1>6 DEF RequestOf
  <2>3. QED
    BY <2>2, <1>2
<1>10. QED
  BY <1>1, <1>2, <1>5, <1>6, <1>7, <1>8, <1>9

\* Steps within a chunk leave alone what is known of the chunks before.
LEMMA PastIsKept ==
  ASSUME CallInv, UNCHANGED <<callVars, out, mapped, aggErrs, err>>, phase' # "returned",
         \A i \in DOMAIN out : verdict'[i] = verdict[i] /\ (i \in named' <=> i \in named)
  PROVE  MatchInv' /\ CacheInv' /\ ErrInv'
<1>1. /\ valid' = valid /\ kind' = kind /\ market' = market /\ Request' = Request
      /\ \A e : IsOrderNotModified(e)' <=> IsOrderNotModified(e)
  BY DEF callVars, Request, IsOrderNotModified
<1>2. MatchInv'
  BY <1>1 DEF CallInv, MatchInv, Matches, Code
<1>3. DOMAIN out \intersect Taken' = DOMAIN out \intersect Taken
  BY <1>1 DEF Taken
<1>4. CacheInv'
  BY <1>1, <1>3 DEF CallInv, CacheInv
<1>5. DOMAIN out \intersect Failed' = DOMAIN out \intersect Failed
  BY <1>1 DEF Failed, Code
<1>6. ErrInv'
  BY <1>1, <1>5 DEF CallInv, ErrInv
<1>7. QED
  BY <1>2, <1>4, <1>6

LEMMA SendStep ==
  ASSUME CallInv, SendChunk
  PROVE  CallInv'
<1> USE BatchAssumption
<1>1. /\ phase = "build" /\ chunkStart < Len(valid) /\ keptIdx' \in InOrder(Kept)
      /\ phase' = "sent"
      /\ sent' = [i \in Request |-> IF i - chunkStart \in Kept THEN sent[i] + 1 ELSE sent[i]]
      /\ UNCHANGED <<callVars, chunkStart, reply, out, aggErrs, err, mapped, done, verdict,
                     named>>
  BY DEF SendChunk
<1>2. /\ valid' = valid /\ kind' = kind /\ market' = market /\ Request' = Request
      /\ ChunkEnd' = ChunkEnd /\ Chunk' = Chunk /\ Kept' = Kept
  BY <1>1 DEF callVars, Request, ChunkEnd, Chunk, Kept
<1>3. keptIdx' \in Seq(1 .. MaxBatchSize)
  <2>1. Kept \subseteq 1 .. MaxBatchSize
    BY <1>1, Here
  <2>2. Cardinality(Kept) \in Nat
    BY <1>1, Here, FS_CardinalityType
  <2>3. keptIdx' \in [1 .. Cardinality(Kept) -> 1 .. MaxBatchSize]
    BY <1>1, <2>1 DEF InOrder
  <2>4. QED
    BY <2>2, <2>3
<1>4. \A i \in Request : sent'[i] =
          IF valid[i] /\ i <= ChunkEnd THEN 1 ELSE 0
  <2> TAKE i \in Request
  <2>1. /\ chunkStart \in Nat /\ ChunkEnd \in Nat /\ chunkStart < ChunkEnd /\ i \in Nat /\ i >= 1
    BY <1>1, Here
  <2>2. sent[i] = IF valid[i] /\ i <= chunkStart THEN 1 ELSE 0
    BY <1>1 DEF CallInv, SentInv
  <2>3. i - chunkStart \in Kept <=> i \in Mine /\ valid[i]
    <3>1. CASE i \in Mine
      BY <3>1, <1>1, Here DEF Kept
    <3>2. CASE i \notin Mine
      <4>1. i - chunkStart \notin 1 .. ChunkEnd - chunkStart
        BY <3>2, <2>1 DEF Mine
      <4>2. DOMAIN Chunk = 1 .. ChunkEnd - chunkStart
        BY <1>1, Here, ChunkIsCut
      <4>3. QED
        BY <3>2, <4>1, <4>2 DEF Kept
    <3>3. QED
      BY <3>1, <3>2
  <2>4. sent'[i] = IF i - chunkStart \in Kept THEN sent[i] + 1 ELSE sent[i]
    BY <1>1
  <2>5. CASE i \in Mine
    BY <2>1, <2>2, <2>3, <2>4, <2>5 DEF Mine
  <2>6. CASE i \notin Mine
    BY <2>1, <2>2, <2>3, <2>4, <2>6 DEF Mine
  <2>7. QED
    BY <2>5, <2>6
<1>5. sent' = [i \in Request |-> IF valid[i] /\ i <= ChunkEnd THEN 1 ELSE 0]
  BY <1>1, <1>4
<1>6. SentInv'
  BY <1>1, <1>2, <1>5 DEF SentInv
<1>7. TypeOK'
  <2>1. sent' \in [Request' -> Nat]
    BY <1>2, <1>5
  <2>2. /\ market' \in Market /\ kind' \in Kind
        /\ valid' \in Seq(BOOLEAN) /\ Len(valid') <= MaxRequests
        /\ phase' \in {"build", "sent", "answered", "returned"}
        /\ chunkStart' \in 0 .. MaxRequests + MaxBatchSize
        /\ out' \in Seq(Result) /\ Len(out') <= Len(valid')
        /\ aggErrs' \in Seq(ChunkErr)
        /\ err' \subseteq DOMAIN aggErrs'
        /\ mapped' \in SUBSET Request' /\ done' \in SUBSET Request'
        /\ reply' \in Reply /\ verdict' \in [Request' -> Verdict] /\ named' \in SUBSET Request'
    BY <1>1, <1>2 DEF CallInv, PlaceInv, TypeOK
  <2>3. QED
    BY <1>3, <2>1, <2>2 DEF TypeOK, Reply, Result, Code, Error, Kind, ChunkErr, Verdict
<1>8. PlaceInv'
  BY <1>1, <1>2, <1>7 DEF PlaceInv, CallInv, Upto
<1>9. AnswerInv'
  BY <1>1, <1>2 DEF AnswerInv, InOrder
<1>10. VerdictInv'
  BY <1>1, <1>2 DEF VerdictInv, CallInv
<1>11. QED
  BY <1>1, <1>6, <1>8, <1>9, <1>10, PastIsKept DEF CallInv

\* An answer, whatever it says, is about this chunk only.
LEMMA AnswerKeepsPlace ==
  ASSUME CallInv, phase = "sent", phase' = "answered",
         UNCHANGED <<callVars, chunkStart, keptIdx, out, aggErrs, err, mapped, sent>>,
         reply' \in Reply, done' \in SUBSET Request, verdict' \in [Request -> Verdict],
         named' \in SUBSET Request
  PROVE  PlaceInv' /\ SentInv' /\ keptIdx' \in InOrder(Kept')
<1>1. /\ valid' = valid /\ kind' = kind /\ market' = market /\ Request' = Request
      /\ ChunkEnd' = ChunkEnd /\ Chunk' = Chunk /\ Kept' = Kept
  BY DEF callVars, Request, ChunkEnd, Chunk, Kept
<1>2. /\ market' \in Market /\ kind' \in Kind
      /\ valid' \in Seq(BOOLEAN) /\ Len(valid') <= MaxRequests
      /\ phase' \in {"build", "sent", "answered", "returned"}
      /\ chunkStart' \in 0 .. MaxRequests + MaxBatchSize
      /\ keptIdx' \in Seq(1 .. MaxBatchSize)
      /\ out' \in Seq(Result) /\ Len(out') <= Len(valid')
      /\ aggErrs' \in Seq(ChunkErr)
      /\ err' \subseteq DOMAIN aggErrs'
      /\ mapped' \in SUBSET Request' /\ done' \in SUBSET Request'
      /\ sent' \in [Request' -> Nat]
      /\ verdict' \in [Request' -> Verdict] /\ named' \in SUBSET Request'
  BY <1>1 DEF CallInv, PlaceInv, TypeOK
<1>3. TypeOK'
  BY <1>2 DEF TypeOK, Reply, Result, Code, Error, Kind, ChunkErr, Verdict
<1>4. PlaceInv'
  BY <1>1, <1>3 DEF PlaceInv, CallInv, Upto
<1>5. SentInv'
  BY <1>1 DEF SentInv, CallInv
<1>6. QED
  BY <1>1, <1>4, <1>5 DEF CallInv, AnswerInv

\* What holds of the chunks before holds, and the exchange has said nothing of the chunk.
LEMMA Unjudged ==
  ASSUME CallInv, phase = "sent"
  PROVE  /\ \A i \in Mine : verdict[i] = "none"
         /\ \A i \in DOMAIN out : i \notin Mine /\ i \in Request
<1>1. chunkStart < Len(valid) /\ Len(out) = Upto(chunkStart) /\ out \in Seq(Result)
  BY DEF CallInv, PlaceInv, TypeOK
<1>2. \A i \in Mine : i \in Request /\ i > chunkStart
  BY <1>1, Here, BatchAssumption DEF Mine
<1>3. DOMAIN out = 1 .. chunkStart
  BY <1>1, Here DEF Upto
<1>4. \A i \in DOMAIN out : i \notin Mine /\ i \in Request
  BY <1>1, <1>3, Here DEF Mine
<1>5. QED
  BY <1>2, <1>4 DEF CallInv, VerdictInv

LEMMA RefuseStep ==
  ASSUME CallInv, Refuse
  PROVE  CallInv'
<1>1. PICK c \in Error : reply' = [is |-> "error", code |-> c]
  BY DEF Refuse, Answered
<1>2. /\ phase = "sent" /\ phase' = "answered"
      /\ UNCHANGED <<callVars, chunkStart, keptIdx, out, aggErrs, err, mapped, ghostVars>>
  BY DEF Refuse, Answered
<1>3. /\ valid' = valid /\ Request' = Request /\ ChunkEnd' = ChunkEnd /\ Mine' = Mine
      /\ sent' = sent /\ done' = done /\ verdict' = verdict /\ named' = named
  BY <1>2 DEF callVars, ghostVars, Request, ChunkEnd, Mine
<1>4. reply' \in Reply
  BY <1>1 DEF Reply
<1>5. done' \in SUBSET Request /\ verdict' \in [Request -> Verdict] /\ named' \in SUBSET Request
  BY <1>3 DEF CallInv, PlaceInv, TypeOK
<1>6. PlaceInv' /\ SentInv' /\ keptIdx' \in InOrder(Kept')
  BY <1>2, <1>3, <1>4, <1>5, AnswerKeepsPlace
<1>7. AnswerInv'
  BY <1>1, <1>2, <1>3, <1>6, Unjudged DEF AnswerInv
<1>8. VerdictInv'
  <2>1. \A i \in Request : i > ChunkEnd => verdict[i] = "none"
    <3> SUFFICES ASSUME NEW i \in Request, i > ChunkEnd PROVE verdict[i] = "none"
      OBVIOUS
    <3>1. i > chunkStart
      BY <1>2, Here DEF CallInv, PlaceInv
    <3>2. QED
      BY <3>1, <1>2 DEF CallInv, VerdictInv
  <2>2. QED
    BY <2>1, <1>2, <1>3 DEF VerdictInv, CallInv
<1>9. QED
  BY <1>2, <1>3, <1>6, <1>7, <1>8, PastIsKept DEF CallInv

LEMMA ExecuteStep ==
  ASSUME CallInv, Execute
  PROVE  CallInv'
<1> DEFINE executed(codes) == {RequestOf(r) : r \in {k \in Rows : codes[k] = "0"}}
<1>1. PICK codes \in [Rows -> Code] :
          /\ done' = done \union executed(codes)
          /\ \/ \E n, m \in 0 .. Len(keptIdx) : AnswerRows(codes, n, m)
             \/ /\ \E r \in {[is |-> "error", code |-> ""], [is |-> "garbled"]} : Answered(r)
                /\ UNCHANGED <<verdict, named>>
  BY DEF Execute
<1>2. /\ phase = "sent" /\ phase' = "answered"
      /\ UNCHANGED <<callVars, chunkStart, keptIdx, out, aggErrs, err, mapped, sent>>
  BY DEF Execute, Answered, AnswerRows
<1>3. /\ valid' = valid /\ Request' = Request /\ ChunkEnd' = ChunkEnd /\ Mine' = Mine
      /\ Rows' = Rows /\ \A r : RequestOf(r)' = RequestOf(r)
  BY <1>2 DEF callVars, Request, ChunkEnd, Mine, Rows, RequestOf
<1>4. /\ chunkStart < Len(valid) /\ Rows = 1 .. Cardinality(Kept) /\ Cardinality(Kept) \in Nat
      /\ \A r \in Rows : RequestOf(r) \in Mine /\ valid[RequestOf(r)]
      /\ \A r, q \in Rows : RequestOf(r) = RequestOf(q) => r = q
  BY <1>2, RowsAreRequests
<1>5. /\ Mine \subseteq Request /\ Request = 1 .. Len(valid) /\ Len(valid) <= MaxRequests
      /\ chunkStart \in Nat /\ ChunkEnd \in Nat /\ chunkStart < ChunkEnd /\ Len(valid) \in Nat
      /\ MaxRequests \in Nat /\ Request \subseteq 0 .. MaxRequests
  <2>1. /\ Mine \subseteq Request /\ Request = 1 .. Len(valid) /\ Len(valid) <= MaxRequests
        /\ chunkStart \in Nat /\ ChunkEnd \in Nat /\ chunkStart < ChunkEnd /\ Len(valid) \in Nat
    BY <1>4, Here
  <2>2. MaxRequests \in Nat
    BY BatchAssumption
  <2>3. QED
    BY <2>1, <2>2
<1>6. executed(codes) \subseteq Mine /\ executed(codes) \subseteq done' /\ done \subseteq done'
  <2>1. executed(codes) \subseteq Mine
    BY <1>4
  <2>2. QED
    BY <1>1, <2>1
<1>7. done' \in SUBSET Request
  <2>1. done \in SUBSET Request
    BY DEF CallInv, PlaceInv, TypeOK
  <2>2. QED
    BY <1>1, <1>5, <1>6, <2>1
<1>8. /\ \A i \in Request : verdict[i] = "0" => i \in done'
      /\ \A i \in named : i \in done' /\ verdict[i] \in {"0", "silent"}
  BY <1>6 DEF CallInv, VerdictInv
<1>9. ASSUME NEW n \in 0 .. Len(keptIdx), NEW m \in 0 .. Len(keptIdx), AnswerRows(codes, n, m)
      PROVE  CallInv'
  <2> DEFINE orders == [r \in 1 .. n |-> IF codes[r] = "0" THEN RequestOf(r) ELSE 0]
             told == [r \in 1 .. m |-> codes[r]]
             said(r) == IF r \in 1 .. m THEN codes[r] ELSE "silent"
             names == {RequestOf(r) : r \in {k \in 1 .. n : codes[k] = "0"}}
  <2>1. /\ reply' = [is |-> "rows", orders |-> orders, codes |-> told]
        /\ named' = named \union names
        /\ verdict' = [i \in Request |->
                          IF \E r \in Rows : RequestOf(r) = i
                          THEN said(CHOOSE r \in Rows : RequestOf(r) = i)
                          ELSE verdict[i]]
    BY <1>9 DEF AnswerRows, Answered
  <2>2. n \in Nat /\ m \in Nat /\ 1 .. n \subseteq Rows /\ 1 .. m \subseteq Rows
    <3>1. keptIdx \in Seq(1 .. MaxBatchSize)
      BY DEF CallInv, PlaceInv, TypeOK
    <3>2. Len(keptIdx) \in Nat /\ Rows = 1 .. Len(keptIdx)
      BY <3>1 DEF Rows
    <3>3. QED
      BY <3>2
  <2>3. reply' \in Reply
    <3>1. orders \in [1 .. n -> 0 .. MaxRequests]
      <4>1. \A r \in 1 .. n : RequestOf(r) \in 0 .. MaxRequests
        BY <2>2, <1>4, <1>5
      <4>2. 0 \in 0 .. MaxRequests
        BY <1>5
      <4>3. QED
        BY <4>1, <4>2
    <3>2. told \in [1 .. m -> Code]
      BY <2>2
    <3> HIDE DEF orders, told
    <3> DEFINE orderIds == 0 .. MaxRequests
    <3> HIDE DEF orderIds
    <3>3. orders \in Seq(orderIds) /\ told \in Seq(Code)
      <4>1. orders \in Seq(orderIds)
        BY <3>1, <2>2, SeqDef DEF orderIds
      <4>2. told \in Seq(Code)
        BY <3>2, <2>2, SeqDef
      <4>3. QED
        BY <4>1, <4>2
    <3>4. QED
      BY <3>3, <2>1 DEF Reply, orderIds
  <2>4. \A r \in Rows : verdict'[RequestOf(r)] = said(r)
    <3> TAKE r \in Rows
    <3>1. r = CHOOSE q \in Rows : RequestOf(q) = RequestOf(r)
      BY <1>4
    <3>2. RequestOf(r) \in Request
      BY <1>4, <1>5
    <3>3. QED
      BY <3>1, <3>2, <2>1
  <2>5. \A r \in Rows : said(r) \in Verdict
    BY DEF Verdict
  <2>6. \A i \in Request : (\A r \in Rows : RequestOf(r) # i) => verdict'[i] = verdict[i]
    BY <2>1
  <2>7. \A i \in Request : i \notin Mine \/ ~ valid[i] => verdict'[i] = verdict[i]
    BY <1>4, <2>6
  <2>8. \A r \in Rows : RequestOf(r) \in names <=> r \in 1 .. n /\ codes[r] = "0"
    BY <1>4, <2>2
  <2>9. names \subseteq executed(codes)
    BY <2>2
  <2>10. verdict' \in [Request -> Verdict]
    <3>1. \A i \in Request : verdict'[i] \in Verdict
      <4> TAKE i \in Request
      <4>1. CASE \E r \in Rows : RequestOf(r) = i
        BY <4>1, <2>4, <2>5
      <4>2. CASE \A r \in Rows : RequestOf(r) # i
        BY <4>2, <2>6 DEF CallInv, PlaceInv, TypeOK
      <4>3. QED
        BY <4>1, <4>2
    <3>2. verdict' = [i \in Request |-> verdict'[i]]
      BY <2>1
    <3>3. QED
      BY <3>1, <3>2
  <2>11. named' \in SUBSET Request
    <3>1. named \in SUBSET Request
      BY DEF CallInv, PlaceInv, TypeOK
    <3>2. QED
      BY <3>1, <2>1, <2>9, <1>5, <1>6
  <2>12. PlaceInv' /\ SentInv' /\ keptIdx' \in InOrder(Kept')
    BY <1>2, <1>7, <2>3, <2>10, <2>11, AnswerKeepsPlace
  <2>13. \A i \in Mine : verdict[i] = "none" /\ i \notin named
    BY <1>2, <1>5, Unjudged, Unsaid
  <2>14. AnswerInv'
    <3>1. \A i \in Mine : ~ valid[i] => verdict'[i] = "none"
      BY <1>5, <2>7, <2>13
    <3>2. \A r : /\ RowCode(r)' = IF r \in 1 .. m THEN codes[r] ELSE "0"
                 /\ RowOrder(r)' = IF r \in 1 .. n
                                   THEN IF codes[r] = "0" THEN RequestOf(r) ELSE 0
                                   ELSE 0
      BY <2>1 DEF RowCode, RowOrder
    <3>3. \A r \in Rows : /\ RowCode(r)' \in Code
                          /\ \/ verdict'[RequestOf(r)] = RowCode(r)'
                             \/ verdict'[RequestOf(r)] = "silent" /\ RowCode(r)' = "0"
      BY <3>2, <2>4 DEF Code
    <3>4. \A r \in Rows : RowOrder(r)' = IF RequestOf(r) \in named' THEN RequestOf(r) ELSE 0
      <4> TAKE r \in Rows
      <4>1. RequestOf(r) \in named' <=> r \in 1 .. n /\ codes[r] = "0"
        BY <1>4, <2>1, <2>8, <2>13
      <4>2. QED
        BY <4>1, <3>2
    <3>5. reply'.is = "rows"
      BY <2>1
    <3>6. QED
      BY <1>2, <1>3, <2>12, <3>1, <3>3, <3>4, <3>5 DEF AnswerInv
  <2>15. VerdictInv'
    <3>1. \A i \in Request : i > ChunkEnd => verdict'[i] = "none"
      <4> SUFFICES ASSUME NEW i \in Request, i > ChunkEnd PROVE verdict'[i] = "none"
        OBVIOUS
      <4>1. i > chunkStart /\ i \notin Mine
        BY <1>5 DEF Mine
      <4>2. QED
        BY <4>1, <2>7, <1>2 DEF CallInv, VerdictInv
    <3>2. \A i \in Request : verdict'[i] = "0" => i \in done'
      <4> SUFFICES ASSUME NEW i \in Request, verdict'[i] = "0" PROVE i \in done'
        OBVIOUS
      <4>1. CASE \E r \in Rows : RequestOf(r) = i
        <5>1. PICK r \in Rows : RequestOf(r) = i
          BY <4>1
        <5>2. codes[r] = "0"
          BY <5>1, <2>4
        <5>3. QED
          BY <5>1, <5>2, <1>6
      <4>2. CASE \A r \in Rows : RequestOf(r) # i
        BY <4>2, <2>6, <1>8
      <4>3. QED
        BY <4>1, <4>2
    <3>3. \A i \in named' : i \in done' /\ verdict'[i] \in {"0", "silent"}
      <4> TAKE i \in named'
      <4>1. CASE i \in named
        <5>1. i \notin Mine /\ i \in Request
          BY <4>1, <2>13 DEF CallInv, PlaceInv, TypeOK
        <5>2. QED
          BY <4>1, <5>1, <2>7, <1>8
      <4>2. CASE i \in names
        <5>1. PICK r \in Rows : RequestOf(r) = i /\ codes[r] = "0"
          BY <4>2, <2>2
        <5>2. QED
          BY <4>2, <5>1, <2>4, <2>9, <1>6
      <4>3. QED
        BY <4>1, <4>2, <2>1
    <3>4. QED
      BY <1>2, <1>3, <3>1, <3>2, <3>3 DEF VerdictInv
  <2>16. \A i \in DOMAIN out : verdict'[i] = verdict[i] /\ (i \in named' <=> i \in named)
    <3> TAKE i \in DOMAIN out
    <3>1. i \notin Mine /\ i \in Request
      BY <1>2, Unjudged
    <3>2. i \notin names
      BY <3>1, <2>9, <1>6
    <3>3. QED
      BY <3>1, <3>2, <2>1, <2>7
  <2> HIDE DEF orders, told, said, names
  <2>17. QED
    BY <1>2, <2>12, <2>14, <2>15, <2>16, PastIsKept DEF CallInv
<1>10. CASE /\ \E r \in {[is |-> "error", code |-> ""], [is |-> "garbled"]} : Answered(r)
            /\ UNCHANGED <<verdict, named>>
  <2>1. reply' \in Reply /\ reply'.is # "rows"
    <3>1. reply' = [is |-> "error", code |-> ""] \/ reply' = [is |-> "garbled"]
      BY <1>10 DEF Answered
    <3>2. CASE reply' = [is |-> "error", code |-> ""]
      BY <3>2 DEF Reply, Error
    <3>3. CASE reply' = [is |-> "garbled"]
      BY <3>3 DEF Reply
    <3>4. QED
      BY <3>1, <3>2, <3>3
  <2>2. verdict' \in [Request -> Verdict] /\ named' \in SUBSET Request
    BY <1>10 DEF CallInv, PlaceInv, TypeOK
  <2>3. PlaceInv' /\ SentInv' /\ keptIdx' \in InOrder(Kept')
    BY <1>2, <1>7, <2>1, <2>2, AnswerKeepsPlace
  <2>4. AnswerInv'
    BY <1>2, <1>3, <1>10, <2>1, <2>3, Unjudged DEF AnswerInv
  <2>5. VerdictInv'
    <3>1. \A i \in Request : i > ChunkEnd => verdict[i] = "none"
      <4> SUFFICES ASSUME NEW i \in Request, i > ChunkEnd PROVE verdict[i] = "none"
        OBVIOUS
      <4>1. i > chunkStart
        BY <1>5
      <4>2. QED
        BY <4>1, <1>2 DEF CallInv, VerdictInv
    <3>2. QED
      BY <3>1, <1>2, <1>3, <1>8, <1>10 DEF VerdictInv
  <2>6. QED
    BY <1>2, <1>10, <2>3, <2>4, <2>5, PastIsKept DEF CallInv
<1>11. QED
  BY <1>1, <1>9, <1>10

\* A row that failed comes first among those that did.
LEMMA FirstFailure ==
  ASSUME FailedRows # {}, FailedRows \subseteq Nat
  PROVE  (CHOOSE r \in FailedRows : \A q \in FailedRows : r <= q) \in FailedRows
<1>1. PICK r \in FailedRows : \A q \in FailedRows : <<q, r>> \notin OpToRel(<, Nat)
  BY NatLessThanWellFounded, WFMin, Zenon
<1>2. \A q \in FailedRows : ~ (q < r)
  BY <1>1 DEF OpToRel
<1>3. \A q \in FailedRows : r <= q
  BY <1>2
<1>4. QED
  BY <1>3

LEMMA SucceedStep ==
  ASSUME CallInv, ChunkSucceeds
  PROVE  CallInv'
<1> DEFINE results == [i \in 1 .. Len(Chunk) |-> RowResult(i)]
<1>1. /\ phase = "answered" /\ reply.is = "rows" /\ FinishChunk(results, ChunkErrors)
      /\ UNCHANGED <<callVars, keptIdx, reply, err, ghostVars>>
  BY DEF ChunkSucceeds
<1>2. /\ chunkStart < Len(valid) /\ Rows = 1 .. Cardinality(Kept) /\ Cardinality(Kept) \in Nat
      /\ \A r \in Rows : keptIdx[r] \in Kept /\ RequestOf(r) \in Mine /\ valid[RequestOf(r)]
      /\ \A i \in DOMAIN Chunk : valid[chunkStart + i] => \E r \in Rows : keptIdx[r] = i
      /\ \A i \in Mine : valid[i] => \E r \in Rows : RequestOf(r) = i
      /\ \A r, q \in Rows : RequestOf(r) = RequestOf(q) => r = q
      /\ \A r \in Rows, i \in DOMAIN Chunk : keptIdx[r] = i <=> RequestOf(r) = chunkStart + i
  BY <1>1, RowsAreRequests
<1>3. /\ \A r \in Rows :
            /\ RowCode(r) \in Code
            /\ \/ verdict[RequestOf(r)] = RowCode(r)
               \/ verdict[RequestOf(r)] = "silent" /\ RowCode(r) = "0"
            /\ RowOrder(r) = IF RequestOf(r) \in named THEN RequestOf(r) ELSE 0
      /\ \A i \in Mine : ~ valid[i] => verdict[i] = "none"
  BY <1>1 DEF CallInv, AnswerInv
<1>4. /\ Mine \subseteq Request /\ Request = 1 .. Len(valid) /\ Len(valid) <= MaxRequests
      /\ Len(valid) \in Nat
      /\ DOMAIN Chunk = 1 .. Len(Chunk) /\ Len(Chunk) \in Nat
      /\ \A i \in Mine : i - chunkStart \in DOMAIN Chunk /\ Chunk[i - chunkStart] = valid[i]
      /\ \A i \in DOMAIN Chunk : chunkStart + i \in Mine /\ (chunkStart + i) - chunkStart = i
      /\ Kept \subseteq DOMAIN Chunk
  BY <1>2, Here
<1>5. \A i \in DOMAIN Chunk : RowResult(i) \in Result /\ Matches(chunkStart + i, RowResult(i))
  <2> TAKE i \in DOMAIN Chunk
  <2>1. chunkStart + i \in Mine /\ chunkStart + i \in 0 .. MaxRequests
    <3>1. chunkStart + i \in Mine
      BY <1>4
    <3>2. chunkStart + i \in 1 .. Len(valid) /\ MaxRequests \in Nat
      BY <3>1, <1>4, BatchAssumption
    <3>3. QED
      BY <3>1, <3>2, <1>4
  <2>2. CASE \E r \in Rows : keptIdx[r] = i
    <3> DEFINE row == CHOOSE k \in Rows : keptIdx[k] = i
    <3>1. row \in Rows /\ keptIdx[row] = i
      BY <2>2
    <3>2. RequestOf(row) = chunkStart + i
      BY <1>2, <3>1
    <3>3. RowResult(i) = [order |-> RowOrder(row), code |-> RowCode(row)]
      BY <2>2 DEF RowResult
    <3> HIDE DEF row
    <3>4. RowOrder(row) = IF chunkStart + i \in named THEN chunkStart + i ELSE 0
      BY <1>3, <3>1, <3>2
    <3>5. /\ RowCode(row) \in Code
          /\ RowCode(row) = IF verdict[chunkStart + i] \in Code
                            THEN verdict[chunkStart + i] ELSE "0"
      BY <1>3, <3>1, <3>2 DEF Code
    <3>6. RowResult(i) \in Result
      BY <3>3, <3>4, <3>5, <2>1, BatchAssumption DEF Result
    <3>7. QED
      BY <3>3, <3>4, <3>5, <3>6 DEF Matches
  <2>3. CASE \A r \in Rows : keptIdx[r] # i
    <3>1. ~ valid[chunkStart + i]
      BY <2>3, <1>2
    <3>2. verdict[chunkStart + i] = "none"
      BY <2>1, <3>1, <1>3
    <3>3. RowResult(i) = Placeholder
      BY <2>3 DEF RowResult
    <3>4. Placeholder \in Result
      BY BatchAssumption DEF Placeholder, Result, Code
    <3>5. QED
      BY <1>4, <2>1, <3>2, <3>3, <3>4, Unsaid
  <2>4. QED
    BY <2>2, <2>3
<1>6. results \in Seq(Result) /\ Len(results) = Len(Chunk)
  BY <1>4, <1>5
<1>7. \A i \in Mine : Matches(i, results[i - chunkStart])
  <2> TAKE i \in Mine
  <2>1. i - chunkStart \in DOMAIN Chunk /\ chunkStart + (i - chunkStart) = i
    BY <1>2, <1>4, Here DEF Mine
  <2>2. QED
    BY <2>1, <1>4, <1>5
<1>8. \A i \in Mine : i \in Failed <=> i \in LeftOut \/ \E r \in FailedRows : RequestOf(r) = i
  <2> TAKE i \in Mine
  <2>1. i \in Failed <=>
          (verdict[i] = "none"
             \/ (verdict[i] \in Code \ {"0"} /\ ~ IsOrderNotModified(verdict[i])))
    BY <1>4 DEF Failed
  <2>2. CASE ~ valid[i]
    BY <2>1, <2>2, <1>3 DEF LeftOut
  <2>3. CASE valid[i]
    <3>1. PICK r \in Rows : RequestOf(r) = i
      BY <2>3, <1>2
    <3>2. \A q \in Rows : RequestOf(q) = i => q = r
      BY <3>1, <1>2
    <3>3. /\ RowCode(r) \in Code
          /\ verdict[i] = RowCode(r) \/ (verdict[i] = "silent" /\ RowCode(r) = "0")
      BY <3>1, <1>3
    <3>4. i \in Failed <=> RowCode(r) # "0" /\ ~ IsOrderNotModified(RowCode(r))
      BY <2>1, <3>3 DEF Code
    <3>5. i \notin LeftOut
      BY <2>3 DEF LeftOut
    <3>6. QED
      BY <3>1, <3>2, <3>4, <3>5 DEF FailedRows
  <2>4. QED
    BY <2>2, <2>3
<1>9. FailedRows \subseteq Rows /\ FailedRows \subseteq Nat /\ LeftOut \subseteq Mine
  BY <1>2 DEF FailedRows, LeftOut
<1> DEFINE tells == LeftOut \union {RequestOf(r) : r \in FailedRows}
<1>10. tells = Mine \intersect Failed
  <2>1. ASSUME NEW i \in tells PROVE i \in Mine \intersect Failed
    BY <1>2, <1>8, <1>9
  <2>2. ASSUME NEW i \in Mine \intersect Failed PROVE i \in tells
    BY <1>8
  <2>3. QED
    BY <2>1, <2>2
<1>11. tells # {} => FirstCode \in Error
  <2>1. CASE LeftOut # {}
    BY <2>1 DEF FirstCode, BodyErr, Error
  <2>2. CASE LeftOut = {} /\ FailedRows # {}
    <3> DEFINE first == CHOOSE r \in FailedRows : \A q \in FailedRows : r <= q
    <3>1. first \in FailedRows
      BY <2>2, <1>9, FirstFailure
    <3>2. FirstCode = RowCode(first)
      BY <2>2 DEF FirstCode
    <3> HIDE DEF first
    <3>3. RowCode(first) \in Code /\ RowCode(first) # "0"
      BY <3>1, <1>3 DEF FailedRows
    <3>4. QED
      BY <3>2, <3>3 DEF Code, Error
  <2>3. QED
    BY <2>1, <2>2
<1>12. /\ ChunkErrors \in Seq(ChunkErr)
       /\ \A n \in DOMAIN ChunkErrors :
             ChunkErrors[n].tells # {} /\ ChunkErrors[n].tells \subseteq Mine \intersect Failed
       /\ \A i \in Mine \intersect Failed : \E n \in DOMAIN ChunkErrors : i \in ChunkErrors[n].tells
  <2>1. CASE tells = {}
    <3>1. ChunkErrors = <<>>
      BY <2>1 DEF ChunkErrors
    <3>2. QED
      BY <2>1, <3>1, <1>10
  <2>2. CASE tells # {}
    <3>1. ChunkErrors = <<[code |-> FirstCode, tells |-> tells]>>
      BY <2>2 DEF ChunkErrors
    <3> HIDE DEF tells
    <3>2. tells \subseteq 1 .. MaxRequests
      <4>1. Request \subseteq 1 .. MaxRequests
        BY <1>4, BatchAssumption
      <4>2. QED
        BY <4>1, <1>4, <1>10
    <3>3. [code |-> FirstCode, tells |-> tells] \in ChunkErr
      BY <2>2, <3>2, <1>11 DEF ChunkErr
    <3>4. ChunkErrors \in Seq(ChunkErr) /\ DOMAIN ChunkErrors = {1} /\ ChunkErrors[1].tells = tells
      BY <3>1, <3>3
    <3>5. QED
      BY <2>2, <3>4, <1>10
  <2>3. QED
    BY <2>1, <2>2
<1> HIDE DEF tells
<1>13. Named = Mine \intersect named
  <2>1. 0 \notin Mine
    BY <1>4
  <2>2. \A r \in Rows : RequestOf(r) \in named => RowCode(r) = "0"
    <3>1. \A i \in named : verdict[i] \in {"0", "silent"}
      BY DEF CallInv, VerdictInv
    <3> TAKE r \in Rows
    <3>2. RowCode(r) # "0" => verdict[RequestOf(r)] = RowCode(r) /\ RowCode(r) \in Code
      BY <1>3
    <3>3. RowCode(r) # "0" => verdict[RequestOf(r)] \notin {"0", "silent"}
      BY <3>2 DEF Code
    <3>4. QED
      BY <3>1, <3>3
  <2>3. ASSUME NEW i \in Named PROVE i \in Mine \intersect named
    <3>1. PICK r \in Rows : i = RowOrder(r) /\ i # 0
      BY <2>3 DEF Named, Accepted
    <3>2. QED
      BY <3>1, <1>2, <1>3
  <2>4. ASSUME NEW i \in Mine \intersect named PROVE i \in Named
    <3>1. valid[i]
      BY <1>3 DEF CallInv, VerdictInv
    <3>2. PICK r \in Rows : RequestOf(r) = i
      BY <3>1, <1>2
    <3>3. r \in Accepted /\ RowOrder(r) = i
      BY <3>2, <2>2, <1>3 DEF Accepted
    <3>4. QED
      BY <3>3, <2>1 DEF Named
  <2>5. QED
    BY <2>3, <2>4
<1>14. Asked = Mine \intersect Taken
  <2>1. ASSUME NEW i \in Asked PROVE i \in Mine \intersect Taken
    <3>1. PICK r \in Rows : RequestOf(r) = i /\ RowCode(r) = "0"
      BY <2>1 DEF Asked, Accepted
    <3>2. QED
      BY <3>1, <1>2, <1>3, <1>4 DEF Taken
  <2>2. ASSUME NEW i \in Mine \intersect Taken PROVE i \in Asked
    <3>1. valid[i]
      BY <1>3 DEF Taken
    <3>2. PICK r \in Rows : RequestOf(r) = i
      BY <3>1, <1>2
    <3>3. RowCode(r) = "0"
      BY <3>2, <1>3 DEF Taken, Code
    <3>4. QED
      BY <3>2, <3>3 DEF Asked, Accepted
  <2>3. QED
    BY <2>1, <2>2
<1>15. Named \subseteq Asked
  BY <1>4, <1>13, <1>14 DEF CallInv, VerdictInv, Taken
<1>16. /\ kind = "create" => mapped' = mapped \union (Mine \intersect named)
       /\ kind = "cancel" => mapped' = mapped \ (Mine \intersect Taken)
       /\ mapped' \in SUBSET Request
  <2>1. mapped \in SUBSET Request /\ Named \subseteq Request
    BY <1>4, <1>13 DEF CallInv, PlaceInv, TypeOK
  <2>2. mapped' = CASE kind = "create" -> mapped \union Named
                    [] kind = "cancel" -> mapped \ (Named \union Asked)
                    [] OTHER -> mapped
    BY DEF ChunkSucceeds
  <2>3. QED
    BY <2>1, <2>2, <1>13, <1>14, <1>15
<1> HIDE DEF results
<1>17. QED
  BY <1>1, <1>2, <1>6, <1>7, <1>12, <1>16, AfterChunk

LEMMA ReturnStep ==
  ASSUME CallInv, Return
  PROVE  CallInv'
<1>1. /\ phase = "build" /\ phase' = "returned" /\ chunkStart >= Len(valid)
      /\ valid' = valid /\ kind' = kind /\ market' = market
      /\ UNCHANGED <<chunkStart, keptIdx, reply, out, aggErrs, mapped>>
      /\ sent' = sent /\ done' = done /\ verdict' = verdict /\ named' = named
      /\ Request' = Request /\ err' = FilterOrderNotModified(aggErrs)
  BY DEF Return, callVars, ghostVars, Request
<1>2. TypeOK'
  <2>1. err' \subseteq DOMAIN aggErrs'
    BY <1>1 DEF FilterOrderNotModified
  <2>2. phase' \in {"build", "sent", "answered", "returned"}
    BY <1>1
  <2>3. /\ market' \in Market /\ kind' \in Kind
        /\ valid' \in Seq(BOOLEAN) /\ Len(valid') <= MaxRequests
        /\ chunkStart' \in 0 .. MaxRequests + MaxBatchSize
        /\ keptIdx' \in Seq(1 .. MaxBatchSize)
        /\ reply' \in Reply
        /\ out' \in Seq(Result) /\ Len(out') <= Len(valid')
        /\ aggErrs' \in Seq(ChunkErr)
        /\ mapped' \in SUBSET Request' /\ done' \in SUBSET Request'
        /\ sent' \in [Request' -> Nat]
        /\ verdict' \in [Request' -> Verdict] /\ named' \in SUBSET Request'
    BY <1>1 DEF CallInv, PlaceInv, TypeOK
  <2>4. QED
    BY <2>1, <2>2, <2>3 DEF TypeOK, Reply, Result, Code, Error, Kind, ChunkErr, Verdict
<1>3. PlaceInv'
  BY <1>1, <1>2 DEF PlaceInv, CallInv, Upto
<1>4. SentInv'
  BY <1>1 DEF SentInv, CallInv
<1>5. AnswerInv' /\ VerdictInv'
  BY <1>1 DEF AnswerInv, VerdictInv, CallInv
<1>6. MatchInv' /\ CacheInv'
  BY <1>1 DEF MatchInv, Matches, CacheInv, Taken, CallInv, Code
<1>7. ErrInv'
  <2>1. FilterOrderNotModified(aggErrs)' = FilterOrderNotModified(aggErrs)
    BY <1>1 DEF FilterOrderNotModified, IsOrderNotModified
  <2>2. Failed' = Failed
    BY <1>1 DEF Failed, IsOrderNotModified, Code
  <2>3. QED
    BY <1>1, <2>1, <2>2 DEF ErrInv, CallInv, IsOrderNotModified
<1>8. QED
  BY <1>3, <1>4, <1>5, <1>6, <1>7 DEF CallInv

LEMMA StutterStep ==
  ASSUME CallInv, UNCHANGED vars
  PROVE  CallInv'
<1>1. /\ valid' = valid /\ kind' = kind /\ market' = market /\ phase' = phase
      /\ UNCHANGED <<chunkStart, keptIdx, reply, out, aggErrs, err, mapped>>
      /\ sent' = sent /\ done' = done /\ verdict' = verdict /\ named' = named
      /\ Request' = Request /\ ChunkEnd' = ChunkEnd /\ Kept' = Kept /\ Mine' = Mine
      /\ Rows' = Rows /\ \A r : RequestOf(r)' = RequestOf(r)
  BY DEF vars, callVars, ghostVars, Request, ChunkEnd, Kept, Chunk, Mine, Rows, RequestOf
<1>2. PlaceInv'
  <2>1. TypeOK'
    BY <1>1 DEF CallInv, PlaceInv, TypeOK, Reply, Result, Code, Error, Kind, ChunkErr, Verdict
  <2>2. QED
    BY <1>1, <2>1 DEF PlaceInv, CallInv, Upto
<1>3. SentInv' /\ VerdictInv'
  BY <1>1 DEF SentInv, VerdictInv, CallInv
<1>4. AnswerInv'
  BY <1>1 DEF AnswerInv, CallInv, InOrder, RowCode, RowOrder, Code
<1>5. MatchInv' /\ CacheInv'
  BY <1>1 DEF MatchInv, Matches, CacheInv, Taken, CallInv, Code
<1>6. ErrInv'
  <2>1. FilterOrderNotModified(aggErrs)' = FilterOrderNotModified(aggErrs)
    BY <1>1 DEF FilterOrderNotModified, IsOrderNotModified
  <2>2. Failed' = Failed
    BY <1>1 DEF Failed, IsOrderNotModified, Code
  <2>3. QED
    BY <1>1, <2>1, <2>2 DEF ErrInv, CallInv, IsOrderNotModified
<1>7. QED
  BY <1>2, <1>3, <1>4, <1>5, <1>6 DEF CallInv

LEMMA BatchStep == CallInv /\ [Next]_vars => CallInv'
<1> SUFFICES ASSUME CallInv, [Next]_vars PROVE CallInv'
  OBVIOUS
<1>1. CASE SkipChunk
  BY <1>1, SkipStep
<1>2. CASE SendChunk
  BY <1>2, SendStep
<1>3. CASE Execute
  BY <1>3, ExecuteStep
<1>4. CASE Refuse
  BY <1>4, RefuseStep
<1>5. CASE ChunkFails
  BY <1>5, FailStep
<1>6. CASE ChunkSucceeds
  BY <1>6, SucceedStep
<1>7. CASE Return
  BY <1>7, ReturnStep
<1>8. CASE UNCHANGED vars
  BY <1>8, StutterStep
<1>9. QED
  BY <1>1, <1>2, <1>3, <1>4, <1>5, <1>6, <1>7, <1>8 DEF Next

\* CallInv is an invariant: of every step of a call, for any requests.
LEMMA BatchHolds == Spec => []CallInv
<1>1. Init => CallInv
  BY BatchInit
<1>2. CallInv /\ [Next]_vars => CallInv'
  BY BatchStep
<1>3. QED
  BY <1>1, <1>2, PTL DEF Spec

-------------------------------------------------------------------------------
(* What the callers rely on.                                               *)

\* A batch call keeps to the types of its variables: chunkStart never runs further than a
\* chunk past the requests, and there are never more results than requests.
THEOREM BatchTypeCorrect == Spec => []TypeOK
<1>1. CallInv => TypeOK
  BY DEF CallInv, PlaceInv
<1>2. QED
  BY <1>1, BatchHolds, PTL

\* The results of CreateBatchOrders, ModifyBatchOrders and CancelBatchOrders are by
\* request: a row left out or a chunk that fails shifts no other result.
THEOREM ResultsMatchRequests == Spec => []RowsMatchRequests
<1>1. CallInv => RowsMatchRequests
  <2> SUFFICES ASSUME CallInv PROVE RowsMatchRequests
    OBVIOUS
  <2>1. \A i \in DOMAIN out : Matches(i, out[i])
    BY DEF CallInv, MatchInv
  <2>2. phase = "returned" => Len(out) = Len(valid)
    <3>1. chunkStart \in Nat /\ Len(valid) \in Nat
      BY BatchAssumption DEF CallInv, PlaceInv, TypeOK
    <3>2. QED
      BY <3>1 DEF CallInv, PlaceInv, Upto
  <2>3. QED
    BY <2>1, <2>2 DEF RowsMatchRequests, Matches
<1>2. QED
  BY <1>1, BatchHolds, PTL

\* No request of a batch is sent twice, and a call that returns has sent every valid one:
\* a chunk that fails neither ends the call nor is sent again.
THEOREM BatchSendsOnce == Spec => []EachRequestSentOnce
<1>1. CallInv => EachRequestSentOnce
  <2> SUFFICES ASSUME CallInv PROVE EachRequestSentOnce
    OBVIOUS
  <2>1. \A i \in Request : sent[i] = IF /\ valid[i]
                                        /\ i <= IF phase \in {"sent", "answered"}
                                                THEN ChunkEnd ELSE chunkStart
                                     THEN 1 ELSE 0
    BY DEF CallInv, SentInv
  <2>2. Request = 1 .. Len(valid) /\ chunkStart \in Nat /\ Len(valid) \in Nat
    BY BatchAssumption DEF CallInv, PlaceInv, TypeOK, Request
  <2>3. ASSUME NEW i \in Request PROVE sent[i] <= (IF valid[i] THEN 1 ELSE 0)
    BY <2>1
  <2>4. ASSUME phase = "returned", NEW i \in Request, valid[i] PROVE sent[i] = 1
    <3>1. chunkStart >= Len(valid)
      BY <2>4 DEF CallInv, PlaceInv
    <3>2. i <= chunkStart
      BY <2>2, <2>4, <3>1
    <3>3. QED
      BY <2>1, <2>4, <3>2
  <2>5. QED
    BY <2>3, <2>4 DEF EachRequestSentOnce
<1>2. QED
  BY <1>1, BatchHolds, PTL

\* The error a batch call returns tells of every request that was left out, was refused or
\* is in a chunk that failed, and of no other request; but for what
\* filterOrderNotModifiedFromBatchErr hides of a spot amend.
THEOREM BatchErrorIsTrue == Spec => []ErrorTellsOfFailure
<1>1. CallInv => ErrorTellsOfFailure
  <2> SUFFICES ASSUME CallInv, phase = "returned"
               PROVE  /\ \A k \in err : aggErrs[k].tells # {} /\ aggErrs[k].tells \subseteq Failed
                      /\ \A i \in Failed : \E k \in DOMAIN aggErrs :
                             i \in aggErrs[k].tells /\ (k \in err \/ Hidden(k))
    BY DEF ErrorTellsOfFailure
  <2>1. err = {k \in DOMAIN aggErrs : ~ IsOrderNotModified(aggErrs[k].code)}
    BY DEF CallInv, ErrInv, FilterOrderNotModified
  <2>2. Request = DOMAIN out
    <3>1. /\ chunkStart \in Nat /\ Len(valid) \in Nat /\ out \in Seq(Result)
          /\ Request = 1 .. Len(valid) /\ chunkStart >= Len(valid) /\ Len(out) = Upto(chunkStart)
      BY BatchAssumption DEF CallInv, PlaceInv, TypeOK, Request
    <3>2. Len(out) = Len(valid)
      BY <3>1 DEF Upto
    <3>3. QED
      BY <3>1, <3>2
  <2>3. Failed \subseteq DOMAIN out
    BY <2>2 DEF Failed
  <2>4. QED
    BY <2>1, <2>3 DEF CallInv, ErrInv, Hidden
<1>2. QED
  BY <1>1, BatchHolds, PTL

\* The id cache follows the answers to a batch: what a create remembers was named and is
\* placed; what a cancel forgets was executed, or its answer has no code for it, which
\* unmarshalRetExt takes for 0.
THEOREM BatchCacheFollows == Spec => []CacheFollowsAcks
<1>1. CallInv => CacheFollowsAcks
  <2> SUFFICES ASSUME CallInv PROVE CacheFollowsAcks
    OBVIOUS
  <2>1. /\ \A i \in Request : verdict[i] = "0" => i \in done
        /\ \A i \in named : i \in done
    BY DEF CallInv, VerdictInv
  <2>2. DOMAIN out \subseteq Request /\ Request \subseteq Nat \ {0}
    <3>1. /\ Len(valid) \in Nat /\ out \in Seq(Result) /\ Request = 1 .. Len(valid)
          /\ Len(out) <= Len(valid)
      BY DEF CallInv, PlaceInv, TypeOK, Request
    <3>2. QED
      BY <3>1
  <2>3. \A i \in DOMAIN out : out[i].order = i <=> i \in named
    BY <2>2 DEF CallInv, MatchInv, Matches
  <2>4. kind = "create" => mapped = DOMAIN out \intersect named
    BY DEF CallInv, CacheInv
  <2>5. kind = "cancel" => mapped = Request \ (DOMAIN out \intersect Taken)
    BY DEF CallInv, CacheInv
  <2>6. \A i \in Request : i \in Taken <=> verdict[i] \in {"0", "silent"}
    BY DEF Taken
  <2>7. QED
    BY <2>1, <2>2, <2>3, <2>4, <2>5, <2>6 DEF CacheFollowsAcks
<1>2. QED
  BY <1>1, BatchHolds, PTL

===============================================================================
