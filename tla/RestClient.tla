------------------------------ MODULE RestClient ------------------------------
(***************************************************************************)
(* One REST exchange as internal/rest sees it: what is signed, and which   *)
(* kind of error the caller is told for an answer. Pure operators; the     *)
(* module RestFlows puts time, loss and retries between the two.           *)
(*                                                                         *)
(* A request is the set of its parameters, which go into the query of a    *)
(* GET and into the body of any other method. An answer is its HTTP        *)
(* status, whether its body is cut off or no envelope of Bybit's, and the  *)
(* code and the result of that envelope.                                   *)
(***************************************************************************)
EXTENDS Integers, Sequences

\* The kinds of error; a call that succeeds is told OK.
Kind == {"Unknown", "Network", "RateLimit", "Auth", "InvalidRequest", "Exchange"}

OK == "OK"

\* Kinds that say of a request that the exchange has turned it down.
Refusal == {"RateLimit", "Auth", "InvalidRequest", "Exchange"}

Status == {200, 401, 403, 404, 429, 500, 502}

Body == {"envelope", "other", "cut"}

\* A result: rows, none, one that cannot be decoded, rows of which some are refusals, or rows
\* with a side that the client does not know.
Content == {"rows", "empty", "garbled", "partly", "sideless"}

Answer == [status : Status, body : Body, code : Nat, result : Content]

-------------------------------------------------------------------------------

\* Mutant of MapHTTPStatus: a server that failed has refused.
MapHTTPStatusFinal(status) ==
    CASE status \in {401, 403} -> "Auth"
      [] status = 429          -> "RateLimit"
      [] status \in 400 .. 599 /\ status \notin {401, 403, 429} -> "InvalidRequest"
      [] OTHER                 -> "Unknown"

MapHTTPStatus(status) ==
    CASE status \in {401, 403} -> "Auth"
      [] status = 429          -> "RateLimit"
      [] status \in 400 .. 499 /\ status \notin {401, 403, 429} -> "InvalidRequest"
      [] status \in 500 .. 599 -> "Network"
      [] OTHER                 -> "Unknown"

AuthCode == {10002, 10003, 10004, 10005, 10007, 10009, 10010}

RateLimitCode == {10006, 10018, 10029, 130150}

InvalidRequestCode ==
    {10001, 10017, 110001, 110003, 110008, 110009, 110017, 110020, 110025, 110043,
     110052, 170135, 170140}

ServerErrorCode == 10016

\* Codes the client lists as rejections for business reasons, and one it does not list.
ExchangeCode == {110004, 110007, 110012, 170131, 170210}

MapBybitCode(code) ==
    CASE code \in AuthCode           -> "Auth"
      [] code \in RateLimitCode      -> "RateLimit"
      [] code \in InvalidRequestCode -> "InvalidRequest"
      [] code = ServerErrorCode      -> "Network"
      [] OTHER                       -> "Exchange"

\* classifyTransportError: the call ended, by timeout, cancellation or a broken
\* connection, before there was an answer.
TransportError == "Network"

\* What Do makes of an answer.
DoKind(answer) ==
    LET ok       == answer.status \in 200 .. 299
        envelope == answer.body = "envelope"
    IN  CASE answer.body = "cut"           -> "Network"
          [] answer.body # "cut" /\ envelope /\ answer.code # 0 -> MapBybitCode(answer.code)
          [] ok /\ envelope /\ answer.code = 0 -> OK
          [] ok /\ answer.body = "other"   -> "Unknown"
          [] OTHER                         -> MapHTTPStatus(answer.status)

\* UnmarshalResult: a result that cannot be decoded is an error of its own, a result that
\* is absent is taken for one of zeroes; a call without a use for the result skips both.
Decoded(decodes, answer) ==
    IF decodes /\ answer.result = "garbled" THEN "Unknown" ELSE OK

\* IsKind looks at the first error it finds in the tree of a joined error.
IsKind(err, kind) == err # <<>> /\ Head(err) = kind

-------------------------------------------------------------------------------

NoSignature == [of |-> {}, by |-> FALSE]

\* buildRequest: a GET has its parameters in the query, any other method in the body.
QueryOf(method, params) == IF method = "GET" THEN params ELSE {}

BodyOf(method, params) == IF method = "GET" THEN {} ELSE params

\* Mutant of SignPayload: the body is signed whatever the method.
SignPayloadBody(method, params) == BodyOf(method, params)

\* The bytes the signature covers beside time, key and window.
SignPayload(method, params) ==
    IF method = "GET" THEN QueryOf(method, params) ELSE BodyOf(method, params)

\* applyHeaders: a call that is to be signed goes out unsigned if the signer has no keys.
Signature(signed, enabled, method, params) ==
    IF signed /\ enabled
    THEN [of |-> SignPayload(method, params), by |-> TRUE]
    ELSE NoSignature

===============================================================================
