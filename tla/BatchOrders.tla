------------------------------ MODULE BatchOrders ------------------------------
(***************************************************************************)
(* CreateBatchOrders, ModifyBatchOrders and CancelBatchOrders of the       *)
(* linear and the spot TradingClient: requests are cut into chunks, rows   *)
(* that fail the local validation are left out of a chunk, the answer of   *)
(* the exchange comes as two lists by position, either of which may be     *)
(* shorter than the chunk or absent, and a chunk that fails does not keep  *)
(* the next one from being sent.                                           *)
(*                                                                         *)
(* A request is named by its index and valid or not; the order it places,  *)
(* amends or cancels has the name of the request.                          *)
(***************************************************************************)
EXTENDS Integers, Sequences, FiniteSets, SequencesExt

CONSTANTS
    Market,         \* the packages that are modelled, "linear" and "spot"
    MaxRequests,    \* requests of a batch at most
    MaxBatchSize    \* requests of a chunk at most

ASSUME BatchAssumption ==
    /\ Market \subseteq {"linear", "spot"}
    /\ MaxRequests \in Nat
    /\ MaxBatchSize \in Nat \ {0}

VARIABLES
    market,
    kind,       \* the method that was called
    valid,      \* the requests: each passes its body builder, or does not
    phase,      \* where the call is
    chunkStart,
    keptIdx,    \* per row sent, its index in the chunk
    reply,      \* what Do and the two decoders made of the answer
    out,        \* the results so far, one per request
    aggErrs,    \* the errors of the chunks so far
    err,        \* which of them the returned error joins; it is nil if there is none
    mapped,     \* requests whose ids are in the id cache
    sent,       \* ghost: how often each request was sent
    done,       \* ghost: requests the exchange has executed
    verdict,    \* ghost: what the answer said of each request
    named       \* ghost: requests for which the answer named an order

callVars == <<market, kind, valid>>

ghostVars == <<sent, done, verdict, named>>

vars == <<callVars, phase, chunkStart, keptIdx, reply, out, aggErrs, err, mapped, ghostVars>>

Kind == {"create", "modify", "cancel"}

\* Row codes: success, "order not modified" or a wrong parameter, anything else.
Code == {"0", "10001", "other"}

Request == DOMAIN valid

\* An error of the SDK by its BybitCode, empty unless the exchange refused.
Error == {"", "10001", "other"}

\* The error of a chunk: the code of the first error that is joined in it, and the requests
\* it has an error of. The error of a chunk that fails stands for all requests of the chunk.
ChunkErr == [code : Error, tells : SUBSET (1 .. MaxRequests)]

Reply ==
    [is : {"error"}, code : Error]      \* Do failed
      \union [is : {"garbled"}]         \* result or retExtInfo cannot be decoded
      \union [is : {"rows"}, orders : Seq(0 .. MaxRequests), codes : Seq(Code)]

Result == [order : 0 .. MaxRequests, code : Code]

\* What an answer says of a request: its code, nothing although the chunk was answered, or
\* there is no answer.
Verdict == Code \union {"silent", "none"}

\* The results of a chunk before the answer: no order that the exchange has named (ids
\* that only echo the request do not count), and code 0.
Placeholder == [order |-> 0, code |-> "0"]

NoReply == [is |-> "garbled"]

TypeOK ==
    /\ market \in Market
    /\ kind \in Kind
    /\ valid \in Seq(BOOLEAN) /\ Len(valid) <= MaxRequests
    /\ phase \in {"build", "sent", "answered", "returned"}
    /\ chunkStart \in 0 .. MaxRequests + MaxBatchSize
    /\ keptIdx \in Seq(1 .. MaxBatchSize)
    /\ reply \in Reply
    /\ out \in Seq(Result) /\ Len(out) <= Len(valid)
    /\ aggErrs \in Seq(ChunkErr)
    /\ err \subseteq DOMAIN aggErrs
    /\ mapped \in SUBSET Request
    /\ sent \in [Request -> Nat]
    /\ done \in SUBSET Request
    /\ verdict \in [Request -> Verdict]
    /\ named \in SUBSET Request

\* The orders of a cancel are in the cache; those of a create are not yet.
Init ==
    /\ market \in Market
    /\ kind \in Kind
    /\ valid \in BoundedSeq(BOOLEAN, MaxRequests)
    /\ phase = "build"
    /\ chunkStart = 0
    /\ keptIdx = <<>>
    /\ reply = NoReply
    /\ out = <<>>
    /\ aggErrs = <<>>
    /\ err = {}
    /\ mapped = IF kind = "create" THEN {} ELSE Request
    /\ sent = [i \in Request |-> 0]
    /\ done = {}
    /\ verdict = [i \in Request |-> "none"]
    /\ named = {}

-------------------------------------------------------------------------------

ChunkEnd ==
    IF chunkStart + MaxBatchSize > Len(valid) THEN Len(valid) ELSE chunkStart + MaxBatchSize

Chunk == SubSeq(valid, chunkStart + 1, ChunkEnd)

\* The requests of the chunk whose rows are sent.
Kept == {i \in DOMAIN Chunk : Chunk[i]}

\* A set as it is gone through.
InOrder(S) ==
    {f \in [1 .. Cardinality(S) -> S] : \A r, q \in DOMAIN f : r < q => f[r] < f[q]}

\* Mutant of FinishChunk: the call gives up after the first chunk with an error.
FinishChunkAborting(results, errors) ==
    /\ out' = out \o results
    /\ aggErrs' = aggErrs \o errors
    /\ chunkStart' = IF errors = <<>> THEN chunkStart + MaxBatchSize ELSE MaxRequests
    /\ phase' = "build"

\* The chunk is over: its results are appended, and its error if it has one.
FinishChunk(results, errors) ==
    /\ out' = out \o results
    /\ aggErrs' = aggErrs \o errors
    /\ chunkStart' = chunkStart + MaxBatchSize
    /\ phase' = "build"

\* Mutant of Placeholders: as many as a full chunk has.
PlaceholdersFull == [i \in 1 .. MaxBatchSize |-> Placeholder]

Placeholders == [i \in 1 .. Len(Chunk) |-> Placeholder]

\* The requests of the chunk, and those of them that the body builder refuses; its error
\* has no code of the exchange.
Mine == chunkStart + 1 .. ChunkEnd

LeftOut == {i \in Mine : ~ valid[i]}

BodyErr == ""

\* Nothing of the chunk is valid: nothing is sent.
SkipChunk ==
    /\ phase = "build"
    /\ chunkStart < Len(valid)
    /\ Kept = {}
    /\ FinishChunk(Placeholders, <<[code |-> BodyErr, tells |-> LeftOut]>>)
    /\ UNCHANGED <<callVars, keptIdx, reply, err, mapped, ghostVars>>

SendChunk ==
    /\ phase = "build"
    /\ chunkStart < Len(valid)
    /\ Kept # {}
    /\ keptIdx' \in InOrder(Kept)
    /\ sent' = [i \in Request |->
                   IF i - chunkStart \in Kept THEN sent[i] + 1 ELSE sent[i]]
    /\ phase' = "sent"
    /\ UNCHANGED <<callVars, chunkStart, reply, out, aggErrs, err, mapped,
                   done, verdict, named>>

-------------------------------------------------------------------------------
(* The exchange. *)

Answered(r) == reply' = r /\ phase' = "answered"

RequestOf(row) == chunkStart + keptIdx[row]

Rows == DOMAIN keptIdx

\* The chunk is answered by two lists: result.list names the order of a row that was
\* executed and none of a row that was refused, retExtInfo.list has the codes. The one ends
\* after n rows, the other after m.
AnswerRows(codes, n, m) ==
    /\ Answered([is |-> "rows",
                 orders |-> [r \in 1 .. n |-> IF codes[r] = "0" THEN RequestOf(r) ELSE 0],
                 codes |-> [r \in 1 .. m |-> codes[r]]])
    /\ verdict' = [i \in Request |->
                      IF \E r \in Rows : RequestOf(r) = i
                      THEN LET row == CHOOSE r \in Rows : RequestOf(r) = i
                           IN  IF row \in 1 .. m THEN codes[row] ELSE "silent"
                      ELSE verdict[i]]
    /\ named' = named \union {RequestOf(r) : r \in {k \in 1 .. n : codes[k] = "0"}}

\* The chunk is executed row by row; the answer may be lost, or not be understood.
Execute ==
    /\ phase = "sent"
    /\ \E codes \in [Rows -> Code] :
          /\ done' = done \union {RequestOf(r) : r \in {k \in Rows : codes[k] = "0"}}
          /\ \/ \E n, m \in 0 .. Len(keptIdx) : AnswerRows(codes, n, m)
             \/ /\ \E r \in {[is |-> "error", code |-> ""], [is |-> "garbled"]} : Answered(r)
                /\ UNCHANGED <<verdict, named>>
    /\ UNCHANGED <<callVars, chunkStart, keptIdx, out, aggErrs, err, mapped, sent>>

\* The exchange never sees the chunk, or refuses all of it.
Refuse ==
    /\ phase = "sent"
    /\ \E c \in Error : Answered([is |-> "error", code |-> c])
    /\ UNCHANGED <<callVars, chunkStart, keptIdx, out, aggErrs, err, mapped, ghostVars>>

-------------------------------------------------------------------------------
(* The answer. *)

\* Neither the ids nor the codes of the rows are known.  The errors of the rows left
\* out are dropped.
ChunkFails ==
    /\ phase = "answered"
    /\ reply.is \in {"error", "garbled"}
    /\ FinishChunk(Placeholders,
                   <<[code |-> IF reply.is = "error" THEN reply.code ELSE "", tells |-> Mine]>>)
    /\ UNCHANGED <<callVars, keptIdx, reply, err, mapped, ghostVars>>

\* The code of a row is 0 if retExtInfo.list ends before it or is not there at all.
RowCode(row) == IF row \in DOMAIN reply.codes THEN reply.codes[row] ELSE "0"

RowOrder(row) == IF row \in DOMAIN reply.orders THEN reply.orders[row] ELSE 0

\* Mutant of RowResult: row i of the answer is taken for request i of the chunk.
RowResultByRow(i) ==
    IF i \in Rows THEN [order |-> RowOrder(i), code |-> RowCode(i)] ELSE Placeholder

\* The result at position i of the chunk.
RowResult(i) ==
    IF \E r \in Rows : keptIdx[r] = i
    THEN LET row == CHOOSE r \in Rows : keptIdx[r] = i
         IN  [order |-> RowOrder(row), code |-> RowCode(row)]
    ELSE Placeholder

\* Amending a spot order to what it is already is no error.
IsOrderNotModified(code) == market = "spot" /\ kind = "modify" /\ code = "10001"

\* Mutant of FailedRows: 10001 counts as success for every method and market.
FailedRowsLenient == {r \in Rows : RowCode(r) \notin {"0", "10001"}}

FailedRows == {r \in Rows : RowCode(r) # "0" /\ ~IsOrderNotModified(RowCode(r))}

\* The errors of the rows left out come before those of the rows refused.
FirstCode ==
    IF LeftOut # {} THEN BodyErr
    ELSE RowCode(CHOOSE r \in FailedRows : \A q \in FailedRows : r <= q)

\* The error of a chunk that was answered; there is none if no row has one.
ChunkErrors ==
    LET tells == LeftOut \union {RequestOf(r) : r \in FailedRows}
    IN  IF tells = {} THEN <<>> ELSE <<[code |-> FirstCode, tells |-> tells]>>

\* Mutant of Accepted: the codes of the rows are not looked at.
AcceptedUnchecked == Rows

Accepted == {r \in Rows : RowCode(r) = "0"}

\* A create remembers what the answer names; a cancel forgets that and what was asked for.
Named == {RowOrder(r) : r \in Accepted} \ {0}

Asked == {RequestOf(r) : r \in Accepted}

ChunkSucceeds ==
    /\ phase = "answered"
    /\ reply.is = "rows"
    /\ FinishChunk([i \in 1 .. Len(Chunk) |-> RowResult(i)], ChunkErrors)
    /\ mapped' = CASE kind = "create" -> mapped \union Named
                   [] kind = "cancel" -> mapped \ (Named \union Asked)
                   [] OTHER -> mapped
    /\ UNCHANGED <<callVars, keptIdx, reply, err, ghostVars>>

\* filterOrderNotModifiedFromBatchErr: errors.As finds the first error of a chunk.
FilterOrderNotModified(errors) ==
    {k \in DOMAIN errors : ~IsOrderNotModified(errors[k].code)}

Return ==
    /\ phase = "build"
    /\ chunkStart >= Len(valid)
    /\ err' = FilterOrderNotModified(aggErrs)
    /\ phase' = "returned"
    /\ UNCHANGED <<callVars, chunkStart, keptIdx, reply, out, aggErrs, mapped, ghostVars>>

-------------------------------------------------------------------------------

Next ==
    \/ SkipChunk
    \/ SendChunk
    \/ Execute
    \/ Refuse
    \/ ChunkFails
    \/ ChunkSucceeds
    \/ Return

Spec == Init /\ [][Next]_vars

-------------------------------------------------------------------------------
(* Properties. *)

\* Results are by request, whatever rows were left out, whatever chunks failed and wherever
\* the two lists of an answer end: a result has the order that was named for its own
\* request and the code it was answered with, and code 0 if there was none
\* (linears/trading.go:254-257, "in the same order as the input requests").
RowsMatchRequests ==
    /\ \A i \in DOMAIN out :
          out[i] = [order |-> IF i \in named THEN i ELSE 0,
                    code |-> IF verdict[i] \in Code THEN verdict[i] ELSE "0"]
    /\ phase = "returned" => Len(out) = Len(valid)

\* Every valid request is sent exactly once, across the boundaries of the chunks and
\* whatever became of the chunks before; no other is sent.
EachRequestSentOnce ==
    /\ \A i \in Request : sent[i] <= (IF valid[i] THEN 1 ELSE 0)
    /\ phase = "returned" => \A i \in Request : valid[i] => sent[i] = 1

\* Requests that were left out, of which nothing was heard, or that were refused.  One that
\* an answer is silent about is not among them: for the code it has succeeded.
Failed ==
    {i \in Request :
        \/ verdict[i] = "none"
        \/ verdict[i] \in Code \ {"0"} /\ ~IsOrderNotModified(verdict[i])}

Hidden(k) == IsOrderNotModified(aggErrs[k].code)

\* The error returned tells of every request that failed and of no other, be it left out,
\* refused by row or in a chunk that failed; but for the chunks of a spot amend that the
\* exchange refuses as a whole with 10001, of which it does not tell.
ErrorTellsOfFailure ==
    phase = "returned" =>
        /\ \A k \in err : aggErrs[k].tells # {} /\ aggErrs[k].tells \subseteq Failed
        /\ \A i \in Failed :
              \E k \in DOMAIN aggErrs : i \in aggErrs[k].tells /\ (k \in err \/ Hidden(k))

\* The id cache follows the answers: a create remembers an order exactly if it was named,
\* and then it was placed; a cancel forgets one exactly if its request was not refused and
\* the chunk was answered, and then it was executed or the answer had no code for it.
CacheFollowsAcks ==
    /\ kind = "create" => mapped \subseteq done
    /\ kind = "cancel" => \A i \in Request \ mapped : i \in done \/ verdict[i] = "silent"
    /\ \A i \in DOMAIN out :
          /\ kind = "create" => (i \in mapped <=> out[i].order = i)
          /\ kind = "cancel" => (i \in mapped <=> verdict[i] \notin {"0", "silent"})

\* spot/trading.go:860-863: the filter is for batches where "no real error happened"; a
\* batch without an error was executed, or there was nothing to amend, as far as the
\* answers say.
NilErrorMeansDone ==
    (phase = "returned" /\ err = {}) =>
        \A i \in Request : \/ i \in done
                            \/ IsOrderNotModified(verdict[i])
                            \/ verdict[i] = "silent"

===============================================================================
