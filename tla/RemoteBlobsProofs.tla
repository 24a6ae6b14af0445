------------------------- MODULE RemoteBlobsProofs --------------------------
(***************************************************************************)
(* Proofs about the clients of an object service, for any clients, keys,   *)
(* contents and bounds.  What was acknowledged stays, and errors are       *)
(* honest about why; listings put together from pages miss nothing; the    *)
(* values that pass between clients and service keep their types; and an   *)
(* upload in parts completes unless something was given up or refused.     *)
(***************************************************************************)
EXTENDS Blobs, FiniteSetTheorems, NaturalsInduction, WellFoundedInduction, TLAPS

(***************************************************************************)
(* The records of requests and calls have their fields.                    *)
(***************************************************************************)
ReqShape(r) ==
    r \in [kind : {r.kind}, key : {r.key}, data : {r.data}, src : {r.src}, marker : {r.marker},
           id : {r.id}]

Shape(s) ==
    s \in [op : {s.op}, id : {s.id}, req : {s.req}, phase : {s.phase}, tries : {s.tries},
           res : {s.res}, answer : {s.answer}, out : {s.out}, todo : {s.todo}, lasts : {s.lasts},
           since : {s.since}, brief : {s.brief}, dirty : {s.dirty}, absent : {s.absent},
           ever : {s.ever}, always : {s.always}, hollow : {s.hollow}]

\* The kinds of request an operation makes.
Match(op, kind) ==
    \/ op = "none" /\ kind = "none"
    \/ op = "put" /\ kind = "PUT"
    \/ op = "get" /\ kind = "GET"
    \/ op = "delete" /\ kind = "DELETE"
    \/ op = "head" /\ kind = "HEAD"
    \/ op = "list" /\ kind = "LIST"
    \/ op = "list_meta" /\ kind \in {"LIST", "HEAD"}
    \/ op = "copy" /\ kind = "COPY"
    \/ op = "create" /\ kind = "CREATE"
    \/ op = "part" /\ kind = "PART"
    \/ op = "complete" /\ kind = "COMPLETE"
    \/ op = "abort" /\ kind = "ABORT"

Kinds == {"PUT", "GET", "DELETE", "HEAD", "LIST", "COPY", "CREATE", "PART", "COMPLETE", "ABORT"}

\* What the service makes of the object a request names.
Effect(r) ==
    CASE r.kind = "PUT" -> r.data
      [] r.kind = "DELETE" -> Missing
      [] r.kind = "COMPLETE" -> [i \in DOMAIN r.data |-> r.data[i][2]]
      [] OTHER -> Unknown

Success == {200, 201, 202, 204, 206}
Multipart == {"create", "part", "complete", "abort"}
Asked(s) == IF s.op = "copy" THEN s.req.src ELSE s.req.key
Outlived(s) == clock > s.since + Margin \/ s.brief

(***************************************************************************)
(* What holds of a call.  Confirmed: an answer of success without an error *)
(* that no other call's write has overtaken describes the object.  Missed, Denied: an    *)
(* error that has arrived has its reason.                                  *)
(***************************************************************************)
Formed(s) ==
    /\ Shape(s) /\ ReqShape(s.req) /\ Match(s.op, s.req.kind)
    /\ s.phase \in {"idle", "token", "send", "wait"}
    /\ s.id \in 0..calls /\ (s.phase # "idle" => s.id # 0)
    /\ s.phase # "wait" => s.answer = NoAnswer
    /\ s.phase # "idle" => s.res = "none" /\ s.op # "none"
    /\ s.since \in Nat /\ s.lasts \in Nat

Confirmed(s) ==
    (/\ s.phase = "wait" /\ s.op \in {"put", "delete", "complete"}
     /\ s.answer.status \in Success /\ s.answer.body # ErrorCode) =>
        \A k \in Name \ s.dirty : s.req.key = k => object[k] = Effect(s.req)

\* S3 says that the key is missing, and the others that something is.
NoKey(a) == a.status = 404 /\ (service = "s3" => a.body # ErrorCode)

Missed(s) ==
    /\ s.phase = "wait" /\ NoKey(s.answer) /\ s.op \notin Multipart => Asked(s) \in s.absent
    /\ s.res = "not_found" => Asked(s) \in s.absent

Denied(s) ==
    /\ s.phase \in {"send", "wait"} /\ service = "gcs" => s.since + Margin < s.lasts \/ s.brief
    /\ s.phase = "wait" /\ s.answer.status = 401 /\ service = "gcs" => Outlived(s)
    /\ s.res = "denied" => Outlived(s)

CallOK(s) == Formed(s) /\ Confirmed(s) /\ Missed(s) /\ Denied(s)

(***************************************************************************)
(* While a write may still reach a key nothing is predicted of it; and a   *)
(* request on its way belongs to the call whose number it bears.           *)
(***************************************************************************)
Claims(req) == Writes(req) => \A k \in Name : req.key = k => expected[k] = Unknown

RemoteTypes ==
    /\ service \in {"s3", "gcs", "azure"} /\ calls \in Nat /\ clock \in Nat /\ token \in Nat
    /\ DOMAIN client = Client /\ client = [c \in Client |-> client[c]]
    /\ object = [k \in Name |-> object[k]] /\ expected = [k \in Name |-> expected[k]]

NetOK ==
    \A m \in net :
        /\ m.call \in 1..calls /\ m.from \in Client /\ m.req.kind \in Kinds /\ Claims(m.req)
        /\ \A c \in Client : m.call = client[c].id /\ Writes(m.req) => m.req = client[c].req

Distinct == \A c, d \in Client : c # d /\ client[c].id = client[d].id => client[c].id = 0

RemoteInv ==
    /\ RemoteTypes /\ NetOK /\ Distinct /\ AckedWritesStay
    /\ \A c \in Client : CallOK(client[c]) /\ (Busy(c) => Claims(client[c].req))
-----------------------------------------------------------------------------
\* Answers and their statuses.
LEMMA AnswerFacts ==
    ASSUME NEW status, NEW body
    PROVE  NoAnswer.status = 0 /\ Answer(status, body).status = status /\ Answer(status, body).body = body
  BY DEF NoAnswer, Answer

\* A refusal with status 200 or 404 bears an error code.
LEMMA RefusalFacts ==
    ASSUME NEW req, NEW a \in Refusals(req)
    PROVE  /\ a.status \in {200, 404, 500, 503}
           /\ a.status = 200 => a.body = ErrorCode /\ req.kind \in {"COPY", "COMPLETE"}
           /\ a.status = 404 => a.body = ErrorCode /\ service = "s3"
  <1>1. PICK st, body :
           /\ a = Answer(st, body) /\ st \in {200, 404, 500, 503}
           /\ st = 200 => body = ErrorCode /\ req.kind \in {"COPY", "COMPLETE"}
           /\ st = 404 => body = ErrorCode /\ service = "s3"
    BY DEF Refusals
  <1>. QED BY <1>1, AnswerFacts

\* What a status means to the client.
LEMMA ResultFacts ==
    ASSUME NEW s, service \in {"s3", "gcs", "azure"}
    PROVE  /\ Result(s) \in {"ok", "not_found", "denied", "error", "multipart_error"}
           /\ Result(s) = "ok" => s.answer.status \in Success
           /\ Result(s) = "not_found" => NoKey(s.answer) /\ s.op \notin Multipart
           /\ Result(s) = "denied" => s.answer.status = 401 /\ service = "gcs"
  <1>1. \A op : Accepts(op) \subseteq Success
    BY DEF Accepts, s3_accepts, gcs_accepts, azure_accepts, Success
  <1>2. CASE s.answer.status \in Accepts(s.op)
    BY <1>1, <1>2 DEF Result
  <1>3. CASE s.answer.status \notin Accepts(s.op) /\ s.op \in Multipart
    <2>1. Result(s) = "multipart_error"
      BY <1>3 DEF Result, Multipart
    <2>. QED BY <2>1
  <1>4. CASE s.answer.status \notin Accepts(s.op) /\ s.op \notin Multipart
    <2>1. \/ service = "s3" /\ Result(s) = http_error_to_blob_error(s.answer.status, s.answer.body)
          \/ service = "gcs" /\ Result(s) = gcs_status_to_blob_error(s.answer.status)
          \/ service = "azure" /\ Result(s) = azure_error(s.answer.status)
          \/ Result(s) = "error"
      BY <1>4 DEF Result, Multipart
    <2>2. http_error_to_blob_error(s.answer.status, s.answer.body) =
             IF s.answer.status = 404 /\ s.answer.body # ErrorCode THEN "not_found" ELSE "error"
      BY DEF http_error_to_blob_error
    <2>3. azure_error(s.answer.status) = IF s.answer.status = 404 THEN "not_found" ELSE "error"
      BY DEF azure_error
    <2>4. /\ gcs_status_to_blob_error(s.answer.status) \in {"not_found", "denied", "error"}
          /\ gcs_status_to_blob_error(s.answer.status) = "not_found" => s.answer.status = 404
          /\ gcs_status_to_blob_error(s.answer.status) = "denied" => s.answer.status = 401
      BY DEF gcs_status_to_blob_error
    <2>. QED BY <1>4, <2>1, <2>2, <2>3, <2>4 DEF NoKey
  <1>. QED BY <1>2, <1>3, <1>4

\* What the steps of a call leave alone.
Kept(s, r) ==
    /\ r.op = s.op /\ r.id = s.id /\ r.dirty = s.dirty /\ r.absent = s.absent
    /\ r.lasts = s.lasts /\ r.since = s.since /\ r.brief = s.brief

\* The next attempt, or the end of the call.
LEMMA ResendFacts ==
    ASSUME NEW s, Shape(s)
    PROVE  /\ Shape(Resend(s)) /\ Kept(s, Resend(s)) /\ Resend(s).req = s.req
           /\ Resend(s).answer = NoAnswer
           /\ \/ Resend(s).phase = "send" /\ Resend(s).res = s.res
              \/ Resend(s).phase = "idle" /\ Resend(s).res \in {"retry_exhausted", "error"}
  <1>1. CASE s.tries < max_attempts
    <2>1. Resend(s) = [s EXCEPT !.phase = "send", !.answer = NoAnswer]
      BY <1>1 DEF Resend
    <2>. QED BY <2>1 DEF Shape, Kept
  <1>2. CASE ~(s.tries < max_attempts)
    <2>1. PICK e \in {"retry_exhausted", "error"} :
             Resend(s) = [s EXCEPT !.phase = "idle", !.answer = NoAnswer, !.res = e]
      BY <1>2 DEF Resend
    <2>. QED BY <2>1 DEF Shape, Kept
  <1>. QED BY <1>1, <1>2

\* The end of a call.
LEMMA ReturnFacts ==
    ASSUME NEW s, Shape(s), NEW res
    PROVE  LET r == Return(s, res)
           IN  /\ Shape(r) /\ Kept(s, r) /\ r.req = s.req /\ r.answer = NoAnswer
               /\ r.phase = "idle" /\ r.res = res
  BY DEF Return, Shape, Kept

\* A call that makes its next request.
LEMMA AnotherFacts ==
    ASSUME NEW s, Shape(s), NEW phase, NEW req
    PROVE  LET r == Another(s, phase, req)
           IN  /\ Shape(r) /\ Kept(s, r) /\ r.req = req /\ r.answer = NoAnswer
               /\ r.phase = phase /\ r.res = s.res
  BY DEF Another, Shape, Kept

\* A call goes on to r: it ends, or a listing makes its next request.
Advances(s, r) ==
    /\ Shape(r) /\ Kept(s, r) /\ r.answer = NoAnswer
    /\ \/ /\ r.phase = "idle" /\ r.req = s.req /\ r.res \in {"ok", Result(s)}
          /\ Writes(s.req) => r.res = Result(s)
       \/ /\ r.phase \in {"send", "token"} /\ r.res = s.res /\ s.op \in {"list", "list_meta"}
          /\ ReqShape(r.req) /\ Match(s.op, r.req.kind)

\* The bookkeeping of a listing changes nothing else.
Noted(s, x) == Shape(x) /\ Kept(s, x) /\ x.req = s.req /\ x.res = s.res

\* The next HEAD of list_meta, or its end when no key is left.
LEMMA HeadNextFacts ==
    ASSUME NEW s, NEW x, Noted(s, x), s.op = "list_meta", ~Writes(s.req)
    PROVE  Advances(s, HeadNext(x))
  <1>1. CASE x.todo = <<>>
    <2>1. HeadNext(x) = Return(x, "ok")
      BY <1>1 DEF HeadNext
    <2>. QED BY <2>1, ReturnFacts DEF Advances, Noted, Kept
  <1>2. CASE x.todo # <<>>
    <2>1. PICK phase \in {"send", "token"} : HeadNext(x) = Another(x, phase, Req("HEAD", Head(x.todo)))
      BY <1>2 DEF HeadNext
    <2>2. ReqShape(Req("HEAD", Head(x.todo))) /\ Req("HEAD", Head(x.todo)).kind = "HEAD"
      BY DEF Req, NoReq, ReqShape
    <2>3. Match(s.op, "HEAD")
      BY DEF Match
    <2>. QED BY <2>1, <2>2, <2>3, AnotherFacts DEF Advances, Noted, Kept
  <1>. QED BY <1>1, <1>2

\* A page of a listing.
LEMMA PageFacts ==
    ASSUME NEW s, Shape(s), ReqShape(s.req), Match(s.op, s.req.kind), s.req.kind = "LIST"
    PROVE  Advances(s, PageReceived(s))
  <1>1. s.op \in {"list", "list_meta"} /\ ~Writes(s.req)
    BY DEF Match, Writes
  <1>2. ASSUME NEW a, NEW b, NEW d
        PROVE  /\ Noted(s, [s EXCEPT !.out = a, !.hollow = b])
               /\ Noted(s, [[s EXCEPT !.out = a, !.hollow = b] EXCEPT !.todo = d])
    BY DEF Shape, Noted, Kept
  <1> DEFINE a == s.answer
             got == [s EXCEPT !.out = @ \o a.body, !.hollow = @ \/ (a.body = <<>> /\ a.more)]
             last == CASE service = "s3" -> parse_list_objects_v2_page(a)
                       [] service = "gcs" -> parse_list_page(a)
                       [] service = "azure" -> parse_list_response(a)
  <1>3. /\ Noted(s, got) /\ Noted(s, [got EXCEPT !.todo = got.out])
        /\ PageReceived(s) =
              IF ~last THEN Another(got, "send", [s.req EXCEPT !.marker = s.answer.marker])
              ELSE IF s.op = "list" THEN Return(got, "ok")
              ELSE HeadNext([got EXCEPT !.todo = got.out])
    <2>1. Noted(s, got)
      BY <1>2
    <2>2. Noted(s, [got EXCEPT !.todo = got.out])
      BY <1>2
    <2>3. PageReceived(s) =
              IF ~last THEN Another(got, "send", [s.req EXCEPT !.marker = s.answer.marker])
              ELSE IF s.op = "list" THEN Return(got, "ok")
              ELSE HeadNext([got EXCEPT !.todo = got.out])
      BY DEF PageReceived
    <2>. QED BY <2>1, <2>2, <2>3
  <1> HIDE DEF got, last
  <1>4. /\ ReqShape([s.req EXCEPT !.marker = s.answer.marker])
        /\ [s.req EXCEPT !.marker = s.answer.marker].kind = "LIST"
    BY DEF ReqShape
  <1>5. CASE ~last
    <2>1. PageReceived(s) = Another(got, "send", [s.req EXCEPT !.marker = s.answer.marker])
      BY <1>3, <1>5
    <2>2. LET r == PageReceived(s)
          IN  /\ Shape(r) /\ Kept(got, r) /\ r.req = [s.req EXCEPT !.marker = s.answer.marker]
              /\ r.answer = NoAnswer /\ r.phase = "send" /\ r.res = got.res
      BY <1>3, <2>1, AnotherFacts DEF Noted
    <2>3. Kept(s, PageReceived(s)) /\ PageReceived(s).res = s.res
      BY <1>3, <2>2 DEF Noted, Kept
    <2>. QED BY <1>1, <1>4, <2>2, <2>3 DEF Advances
  <1>6. CASE last /\ s.op = "list"
    <2>1. PageReceived(s) = Return(got, "ok")
      BY <1>3, <1>6
    <2>. QED BY <1>1, <1>3, <2>1, ReturnFacts DEF Advances, Noted, Kept
  <1>7. CASE last /\ s.op # "list"
    <2>1. PageReceived(s) = HeadNext([got EXCEPT !.todo = got.out])
      BY <1>3, <1>7
    <2>. QED BY <1>1, <1>3, <1>7, <2>1, HeadNextFacts
  <1>. QED BY <1>5, <1>6, <1>7

\* What a client makes of any answer.
LEMMA ReceivedFacts ==
    ASSUME NEW s, Shape(s), ReqShape(s.req), Match(s.op, s.req.kind)
    PROVE  Advances(s, Received(s))
  <1>1. ASSUME NEW x, Noted(s, x), Received(s) = Return(x, Result(s))
        PROVE  Advances(s, Received(s))
    BY <1>1, ReturnFacts DEF Advances, Noted, Kept
  <1>2. Noted(s, s) /\ Noted(s, [s EXCEPT !.out = s.answer.body]) /\ Noted(s, [s EXCEPT !.todo = Tail(@)])
    BY DEF Noted, Kept, Shape
  <1>3. CASE s.req.kind = "LIST" /\ s.answer.status = 200
    <2>1. Received(s) = PageReceived(s)
      BY <1>3 DEF Received, Match
    <2>. QED BY <1>3, <2>1, PageFacts
  <1>4. CASE s.req.kind = "LIST" /\ s.answer.status # 200
    <2>1. Received(s) = Return(s, Result(s))
      BY <1>4 DEF Received, Match
    <2>. QED BY <1>1, <1>2, <2>1
  <1>5. CASE s.op = "list_meta" /\ s.req.kind = "HEAD"
    <2>1. Received(s) = HeadReceived(s) /\ ~Writes(s.req)
      BY <1>5 DEF Received, Writes
    <2>2. CASE Result(s) # "ok"
      <3>1. Received(s) = Return(s, Result(s))
        BY <2>1, <2>2 DEF HeadReceived
      <3>. QED BY <1>1, <1>2, <3>1
    <2>3. CASE Result(s) = "ok"
      <3>1. Received(s) = HeadNext([s EXCEPT !.todo = Tail(@)])
        BY <2>1, <2>3 DEF HeadReceived
      <3>. QED BY <1>2, <1>5, <2>1, <3>1, HeadNextFacts
    <2>. QED BY <2>2, <2>3
  <1>6. CASE s.op = "get"
    <2>1. Received(s) = Return([s EXCEPT !.out = s.answer.body], Result(s))
      BY <1>6 DEF Received, Match
    <2>. QED BY <1>1, <1>2, <2>1
  <1>7. CASE s.req.kind # "LIST" /\ s.op \notin {"get", "list_meta"}
    <2>1. Received(s) = Return(s, Result(s))
      BY <1>7 DEF Received
    <2>. QED BY <1>1, <1>2, <2>1
  <1>. QED BY <1>3, <1>4, <1>5, <1>6, <1>7 DEF Match
-----------------------------------------------------------------------------
(***************************************************************************)
(* The service.  A request changes at most the object it names, a success  *)
(* says that it did, and the errors 404 and 401 have their reason.         *)
(***************************************************************************)
Outcome(m, objects, a) ==
    /\ objects = [k \in Name |-> objects[k]]
    /\ \A k \in Name : k # m.req.key \/ ~Writes(m.req) => objects[k] = object[k]
    /\ m.req.kind \in {"PUT", "DELETE", "COMPLETE"} =>
          \A k \in Name : k = m.req.key =>
              /\ objects[k] \in {object[k], Effect(m.req)}
              /\ a.status \in Success => objects[k] = Effect(m.req)
    /\ a.status = 404 =>
          \/ m.req.kind \in {"GET", "HEAD", "DELETE"} /\ m.req.key \notin There(objects)
          \/ m.req.kind = "COPY" /\ m.req.src \notin There(objects)
          \/ m.req.kind \in {"PART", "COMPLETE", "ABORT"}
    /\ a.status = 401 => Expired(m.from)

\* A request that is answered without an effect.
LEMMA SameFacts ==
    ASSUME RemoteTypes, NEW m, NEW a, Served(m, object, upload, a),
           m.req.kind \in {"PUT", "DELETE", "COMPLETE"} => a.status \notin Success,
           a.status = 404 =>
              \/ m.req.kind \in {"GET", "HEAD", "DELETE"} /\ m.req.key \notin There(object)
              \/ m.req.kind = "COPY" /\ m.req.src \notin There(object)
              \/ m.req.kind \in {"PART", "COMPLETE", "ABORT"},
           a.status = 401 => Expired(m.from)
    PROVE  \E objects, up, b : Served(m, objects, up, b) /\ Outcome(m, objects, b)
  <1>1. Outcome(m, object, a)
    BY DEF Outcome, RemoteTypes
  <1>. QED BY <1>1

\* A request that has its effect.
LEMMA EffectFacts ==
    ASSUME RemoteTypes, NEW m, NEW up, NEW v, NEW a,
           Served(m, [object EXCEPT ![m.req.key] = v], up, a), Writes(m.req),
           m.req.kind # "COPY" => v = Effect(m.req),
           a.status = 404 => m.req.kind = "DELETE" /\ v = Missing,
           a.status # 401
    PROVE  \E objects, u, b : Served(m, objects, u, b) /\ Outcome(m, objects, b)
  <1> DEFINE objects == [object EXCEPT ![m.req.key] = v]
  <1>1. /\ objects = [k \in Name |-> objects[k]]
        /\ \A k \in Name : objects[k] = IF k = m.req.key THEN v ELSE object[k]
    BY DEF RemoteTypes
  <1>2. v = Missing => m.req.key \notin There(objects)
    BY <1>1 DEF There
  <1>3. m.req.kind \in {"PUT", "DELETE", "COMPLETE"} => v = Effect(m.req)
    OBVIOUS
  <1> HIDE DEF objects
  <1>4. Outcome(m, objects, a)
    BY <1>1, <1>2, <1>3 DEF Outcome
  <1>. QED BY <1>4 DEF objects

\* Every way a request can be served.
LEMMA ServeFacts ==
    ASSUME RemoteTypes, NEW m, m.req.kind \in Kinds, Serve(m)
    PROVE  \E objects, up, a : Served(m, objects, up, a) /\ Outcome(m, objects, a)
  <1> DEFINE q == m.req
             k == q.key
             found == k \in Name /\ object[k] # Missing
             Goal == \E objects, up, a : Served(m, objects, up, a) /\ Outcome(m, objects, a)
  <1>0. \A status, body : Answer(status, body).status = status
    BY AnswerFacts
  <1>1. ~found => k \notin There(object)
    BY DEF There
  <1>2. CASE Expired(m.from)
    <2>1. Served(m, object, upload, Answer(401, <<>>))
      BY <1>2 DEF Serve
    <2>. QED BY <1>0, <1>2, <2>1, SameFacts DEF Success
  <1>3. CASE ~Expired(m.from) /\ q.kind = "PUT"
    <2>1. PICK st \in {200, 201} : Served(m, [object EXCEPT ![k] = q.data], upload, Answer(st, <<>>))
      BY <1>3 DEF Serve
    <2>2. q.data = Effect(q) /\ Writes(q)
      BY <1>3 DEF Effect, Writes
    <2>3. Answer(st, <<>>).status \in {200, 201}
      BY <1>0
    <2>4. PICK v, a : v = q.data /\ a = Answer(st, <<>>)
      OBVIOUS
    <2>5. Served(m, [object EXCEPT ![m.req.key] = v], upload, a)
      BY <2>1, <2>4
    <2>6. v = Effect(m.req) /\ a.status \in {200, 201} /\ Writes(m.req)
      BY <2>2, <2>3, <2>4
    <2>. QED BY <2>5, <2>6, EffectFacts
  <1>4. CASE ~Expired(m.from) /\ q.kind = "GET"
    <2>1. \/ found /\ Served(m, object, upload, Answer(200, object[k]))
          \/ ~found /\ Served(m, object, upload, Answer(404, <<>>))
      BY <1>4 DEF Serve
    <2>. QED BY <1>0, <1>1, <1>4, <2>1, SameFacts
  <1>5. CASE ~Expired(m.from) /\ q.kind = "HEAD"
    <2>1. \/ found /\ Served(m, object, upload, Answer(200, <<>>))
          \/ ~found /\ Served(m, object, upload, Answer(404, <<>>))
      BY <1>5 DEF Serve
    <2>. QED BY <1>0, <1>1, <1>5, <2>1, SameFacts
  <1>6. CASE ~Expired(m.from) /\ q.kind = "DELETE"
    <2>1. PICK st \in {202, 204, 404} :
             Served(m, [object EXCEPT ![k] = Missing], upload, Answer(st, <<>>))
      BY <1>6 DEF Serve
    <2>2. Missing = Effect(q) /\ Writes(q)
      BY <1>6 DEF Effect, Writes
    <2>3. Answer(st, <<>>).status \in {202, 204, 404}
      BY <1>0
    <2>4. PICK a : a = Answer(st, <<>>)
      OBVIOUS
    <2>5. Served(m, [object EXCEPT ![m.req.key] = Missing], upload, a)
      BY <2>1, <2>4
    <2>6. Missing = Effect(m.req) /\ a.status \in {202, 204, 404} /\ Writes(m.req)
      BY <2>2, <2>3, <2>4
    <2>. QED BY <1>6, <2>5, <2>6, EffectFacts
  <1>7. CASE ~Expired(m.from) /\ q.kind = "COPY"
    <2>1. \/ object[q.src] = Missing /\ Served(m, object, upload, Answer(404, <<>>))
          \/ Served(m, [object EXCEPT ![k] = object[q.src]], upload, Answer(200, <<>>))
      BY <1>7 DEF Serve
    <2>2. CASE object[q.src] = Missing /\ Served(m, object, upload, Answer(404, <<>>))
      <3>1. q.src \notin There(object)
        BY <2>2 DEF There
      <3>. QED BY <1>0, <1>7, <2>2, <3>1, SameFacts
    <2>3. CASE Served(m, [object EXCEPT ![k] = object[q.src]], upload, Answer(200, <<>>))
      <3>1. Writes(q) /\ Answer(200, <<>>).status = 200
        BY <1>0, <1>7 DEF Writes
      <3>2. PICK v, a : v = object[q.src] /\ a = Answer(200, <<>>)
        OBVIOUS
      <3>3. Served(m, [object EXCEPT ![m.req.key] = v], upload, a)
        BY <2>3, <3>2
      <3>4. /\ Writes(m.req) /\ a.status # 401
            /\ m.req.kind # "COPY" => v = Effect(m.req)
            /\ a.status = 404 => m.req.kind = "DELETE" /\ v = Missing
        BY <1>7, <3>1, <3>2
      <3>. QED BY <3>3, <3>4, EffectFacts, ZenonT(20)
    <2>. QED BY <2>1, <2>2, <2>3
  <1>8. CASE ~Expired(m.from) /\ q.kind = "LIST"
    <2>1. PICK page \in Pages(q.marker) : Served(m, object, upload, page)
      BY <1>8 DEF Serve
    <2>2. page.status = 200
      <3>1. \E body, more, marker :
               page = [status |-> 200, body |-> body, more |-> more, marker |-> marker]
        BY <2>1, Zenon DEF Pages
      <3>. QED BY <3>1
    <2>. QED BY <1>8, <2>1, <2>2, SameFacts
  <1>9. CASE ~Expired(m.from) /\ q.kind \in {"CREATE", "PART", "ABORT"}
    <2>1. PICK up, a : Served(m, object, up, a) /\ a.status \in {200, 204, 404}
                       /\ (a.status = 404 => q.kind \in {"PART", "ABORT"})
      <3>1. CASE q.kind = "CREATE"
        <4>1. \E up, u : Served(m, object, up, Answer(200, u))
          BY <1>9, <3>1 DEF Serve
        <4>. QED BY <1>0, <4>1
      <3>2. CASE q.kind = "PART"
        <4>1. CASE upload[q.id] = Missing
          <5>1. Served(m, object, upload, Answer(404, <<>>))
            BY <1>9, <3>2, <4>1 DEF Serve
          <5>. QED BY <1>0, <3>2, <5>1
        <4>2. CASE upload[q.id] # Missing
          <5>1. Served(m, object, [upload EXCEPT ![q.id][q.data[1][1]] = q.data[1][2]],
                       Answer(200, <<>>))
            BY <1>9, <3>2, <4>2 DEF Serve
          <5>. QED BY <1>0, <5>1
        <4>. QED BY <4>1, <4>2
      <3>3. CASE q.kind = "ABORT"
        <4>1. CASE upload[q.id] = Missing
          <5>1. Served(m, object, upload, Answer(404, <<>>))
            BY <1>9, <3>3, <4>1 DEF Serve
          <5>. QED BY <1>0, <3>3, <5>1
        <4>2. CASE upload[q.id] # Missing
          <5>1. Served(m, object, [upload EXCEPT ![q.id] = Missing], Answer(204, <<>>))
            BY <1>9, <3>3, <4>2 DEF Serve
          <5>. QED BY <1>0, <5>1
        <4>. QED BY <4>1, <4>2
      <3>. QED BY <1>9, <3>1, <3>2, <3>3
    <2>2. Outcome(m, object, a)
      BY <1>9, <2>1 DEF Outcome, RemoteTypes
    <2>. QED BY <2>1, <2>2
  <1>10. CASE ~Expired(m.from) /\ q.kind = "COMPLETE"
    <2>1. \/ \E st \in {400, 404} : Served(m, object, upload, Answer(st, <<>>))
          \/ Served(m, [object EXCEPT ![k] = [i \in DOMAIN q.data |-> q.data[i][2]]],
                    [upload EXCEPT ![q.id] = Missing], Answer(200, <<>>))
      <3>1. CASE upload[q.id] = Missing
        <4>1. Served(m, object, upload, Answer(404, <<>>))
          BY <1>10, <3>1 DEF Serve
        <4>. QED BY <4>1
      <3>2. CASE upload[q.id] # Missing /\ ~Acceptable(q.id, q.data)
        <4>1. Served(m, object, upload, Answer(400, <<>>))
          BY <1>10, <3>2 DEF Serve
        <4>. QED BY <4>1
      <3>3. CASE upload[q.id] # Missing /\ Acceptable(q.id, q.data)
        BY <1>10, <3>3 DEF Serve
      <3>. QED BY <3>1, <3>2, <3>3
    <2>2. ASSUME NEW st \in {400, 404}, Served(m, object, upload, Answer(st, <<>>)) PROVE Goal
      <3>1. Answer(st, <<>>).status \in {400, 404} /\ Answer(st, <<>>).status \notin Success
        BY <1>0 DEF Success
      <3>. QED BY <1>10, <2>2, <3>1, SameFacts
    <2>3. CASE Served(m, [object EXCEPT ![k] = [i \in DOMAIN q.data |-> q.data[i][2]]],
                      [upload EXCEPT ![q.id] = Missing], Answer(200, <<>>))
      <3>1. [i \in DOMAIN q.data |-> q.data[i][2]] = Effect(q) /\ Writes(q)
        BY <1>10 DEF Effect, Writes
      <3>2. Answer(200, <<>>).status = 200
        BY <1>0
      <3>3. PICK v, up, a : /\ v = [i \in DOMAIN q.data |-> q.data[i][2]]
                            /\ up = [upload EXCEPT ![q.id] = Missing] /\ a = Answer(200, <<>>)
        OBVIOUS
      <3>4. Served(m, [object EXCEPT ![m.req.key] = v], up, a)
        BY <2>3, <3>3
      <3>5. v = Effect(m.req) /\ a.status = 200 /\ Writes(m.req)
        BY <3>1, <3>2, <3>3
      <3>. QED BY <3>4, <3>5, EffectFacts
    <2>. QED BY <2>1, <2>2, <2>3
  <1>. QED BY <1>2, <1>3, <1>4, <1>5, <1>6, <1>7, <1>8, <1>9, <1>10 DEF Kinds
-----------------------------------------------------------------------------
(***************************************************************************)
(* The steps of the clients.                                               *)
(***************************************************************************)
\* A call that does not move is not disturbed by later calls and later times.
LEMMA Unmoved ==
    ASSUME RemoteInv, UNCHANGED <<service, object>>, calls' \in Nat, calls' >= calls,
           clock' \in Nat, clock' >= clock, NEW d \in Client, client'[d] = client[d]
    PROVE  CallOK(client[d])'
  <1>1. CallOK(client[d]) /\ calls \in Nat /\ clock \in Nat /\ Margin \in Nat
    BY RemoteAssumption DEF RemoteInv, RemoteTypes
  <1>2. Formed(client[d])'
    BY <1>1 DEF CallOK, Formed
  <1>3. Confirmed(client[d])'
    BY <1>1 DEF CallOK, Confirmed
  <1>4. Missed(client[d])'
    BY <1>1 DEF CallOK, Missed, NoKey
  <1>5. Outlived(client[d]) => Outlived(client[d])'
    BY <1>1 DEF Outlived, CallOK, Formed
  <1>6. Denied(client[d])'
    BY <1>1, <1>5 DEF CallOK, Denied
  <1>. QED BY <1>2, <1>3, <1>4, <1>6 DEF CallOK

\* The other calls and the requests on their way, when one call moves to r:
\* what may be predicted of a key is so only once nothing else can write it.
LEMMA CallStep ==
    ASSUME RemoteInv, NEW c \in Client, NEW r, client' = [client EXCEPT ![c] = r],
           UNCHANGED <<service, object, net, calls, clock>>, token' \in Nat, CallOK(client[c])',
           r.id = client[c].id, r.phase # "idle" => Busy(c),
           r.req = client[c].req \/ (~Writes(client[c].req) /\ ~Writes(r.req)),
           \/ expected' = expected
           \/ \E k, x : /\ expected' = [expected EXCEPT ![k] = x] /\ ~Disturbed(c, k)
                        /\ r.phase = "idle" /\ (k \in Name => x \in {Unknown, object[k]})
    PROVE  RemoteInv'
  <1>1. /\ client' = [d \in Client |-> client'[d]] /\ DOMAIN client' = Client /\ client'[c] = r
        /\ \A d \in Client \ {c} : client'[d] = client[d]
    BY DEF RemoteInv, RemoteTypes
  <1>2. PICK k : \/ expected' = expected
                 \/ \E x : /\ expected' = [expected EXCEPT ![k] = x] /\ ~Disturbed(c, k)
                           /\ r.phase = "idle" /\ (k \in Name => x \in {Unknown, object[k]})
    OBVIOUS
  <1>3. /\ expected' = [y \in Name |-> expected'[y]]
        /\ \A y \in Name : y # k => expected'[y] = expected[y]
        /\ k \in Name => expected'[k] \in {expected[k], Unknown, object[k]}
        /\ expected' = expected \/ (~Disturbed(c, k) /\ r.phase = "idle")
    BY <1>2 DEF RemoteInv, RemoteTypes
  <1>4. RemoteTypes'
    BY <1>1, <1>3 DEF RemoteInv, RemoteTypes
  <1>5. AckedWritesStay'
    BY <1>3 DEF RemoteInv, AckedWritesStay
  <1>6. Distinct'
    BY <1>1 DEF RemoteInv, Distinct
  <1>7. NetOK'
    <2> SUFFICES ASSUME NEW m \in net
                 PROVE  /\ m.call \in 1..calls /\ m.from \in Client /\ m.req.kind \in Kinds
                        /\ Claims(m.req)'
                        /\ \A d \in Client : m.call = client'[d].id /\ Writes(m.req) => m.req = client'[d].req
      BY DEF NetOK
    <2>1. /\ m.call \in 1..calls /\ m.from \in Client /\ m.req.kind \in Kinds /\ Claims(m.req)
          /\ \A d \in Client : m.call = client[d].id /\ Writes(m.req) => m.req = client[d].req
      BY DEF RemoteInv, NetOK
    <2>2. Claims(m.req)'
      <3>1. CASE expected' = expected
        BY <2>1, <3>1 DEF Claims
      <3>2. CASE ~Disturbed(c, k)
        <4>1. ~(Writes(m.req) /\ m.req.key = k)
          BY <3>2 DEF Disturbed
        <4>. QED BY <1>3, <2>1, <4>1 DEF Claims
      <3>. QED BY <1>3, <3>1, <3>2
    <2>3. ASSUME NEW d \in Client, m.call = client'[d].id, Writes(m.req)
          PROVE  m.req = client'[d].req
      BY <1>1, <2>1, <2>3
    <2>. QED BY <2>1, <2>2, <2>3
  <1>8. ASSUME NEW d \in Client PROVE CallOK(client[d])' /\ (Busy(d)' => Claims(client[d].req)')
    <2>1. CASE d = c
      <3>1. Busy(c)' => Busy(c) /\ Claims(client[c].req) /\ expected' = expected
        BY <1>1, <1>3 DEF RemoteInv, Busy
      <3>. QED BY <1>1, <2>1, <3>1 DEF Claims
    <2>2. CASE d # c
      <3>1. client'[d] = client[d]
        BY <1>1, <2>2
      <3>2. calls \in Nat /\ clock \in Nat
        BY DEF RemoteInv, RemoteTypes
      <3>3. CallOK(client[d])'
        BY <3>1, <3>2, Unmoved
      <3>4. CASE expected' = expected
        BY <3>1, <3>3, <3>4 DEF RemoteInv, Busy, Claims
      <3>5. CASE ~Disturbed(c, k)
        <4>1. ~(Busy(d) /\ Writes(client[d].req) /\ client[d].req.key = k)
          BY <2>2, <3>5 DEF Disturbed
        <4>2. Busy(d) => Claims(client[d].req)
          BY DEF RemoteInv
        <4>. QED BY <1>3, <3>1, <3>3, <4>1, <4>2 DEF Claims, Busy
      <3>. QED BY <1>3, <3>4, <3>5
    <2>. QED BY <2>1, <2>2
  <1>. QED BY <1>4, <1>5, <1>6, <1>7, <1>8 DEF RemoteInv

\* A call begins: from here on nothing is predicted of the key it writes.
LEMMA BeginStep ==
    ASSUME RemoteInv, NEW c \in Client, NEW op, NEW req, ReqShape(req), Match(op, req.kind),
           op # "none", BeginCall(c, op, req)
    PROVE  RemoteInv'
  <1>0. PICK n : n = calls + 1
    OBVIOUS
  <1>1. PICK r : /\ r = client'[c] /\ client' = [client EXCEPT ![c] = r]
                 /\ Shape(r) /\ r.op = op /\ r.req = req /\ r.id = n /\ r.res = "none"
                 /\ r.answer = NoAnswer /\ r.since = 0 /\ r.lasts = 0
                 /\ r.phase \in {"token", "send"} /\ (service = "gcs" => r.phase = "token")
    <2> DEFINE r == [NoCall EXCEPT !.op = op, !.id = calls + 1, !.req = req,
                                   !.phase = IF service = "gcs" THEN "token" ELSE "send",
                                   !.absent = Watched(req) \ There(object),
                                   !.ever = Watched(req) \cap There(object),
                                   !.always = Watched(req) \cap There(object)]
    <2>1. client' = [client EXCEPT ![c] = r]
      BY DEF BeginCall
    <2>2. /\ Shape(r) /\ r.op = op /\ r.req = req /\ r.id = n /\ r.res = "none"
          /\ r.answer = NoAnswer /\ r.since = 0 /\ r.lasts = 0
          /\ r.phase \in {"token", "send"} /\ (service = "gcs" => r.phase = "token")
      BY <1>0 DEF NoCall, Shape
    <2> HIDE DEF r
    <2>3. client'[c] = r
      BY <2>1 DEF RemoteInv, RemoteTypes
    <2>. QED BY <2>1, <2>2, <2>3
  <1>2. /\ client' = [d \in Client |-> client'[d]] /\ DOMAIN client' = Client
        /\ \A d \in Client \ {c} : client'[d] = client[d]
        /\ calls \in Nat /\ clock \in Nat /\ n \in Nat
    BY <1>0, <1>1 DEF RemoteInv, RemoteTypes
  <1>3. /\ calls' = n /\ n = calls + 1 /\ UNCHANGED <<service, object, net, token, clock>>
        /\ expected' = IF Writes(req) THEN [expected EXCEPT ![req.key] = Unknown] ELSE expected
    BY <1>0 DEF BeginCall, setup, serviceVars
  <1>4. /\ expected' = [y \in Name |-> expected'[y]]
        /\ \A y \in Name : expected'[y] = expected[y] \/ expected'[y] = Unknown
        /\ Claims(req)'
    BY <1>3 DEF RemoteInv, RemoteTypes, Claims
  <1>5. \A q : Claims(q) => Claims(q)'
    BY <1>4 DEF Claims
  <1>6. RemoteTypes' /\ AckedWritesStay'
    BY <1>2, <1>3, <1>4 DEF RemoteInv, RemoteTypes, AckedWritesStay
  <1>7. \A d \in Client : client[d].id \in 0..calls
    BY DEF RemoteInv, CallOK, Formed
  <1>8. Distinct'
    BY <1>1, <1>2, <1>3, <1>7 DEF RemoteInv, Distinct
  <1>9. NetOK'
    <2> SUFFICES ASSUME NEW m \in net
                 PROVE  /\ m.call \in 1..n /\ m.from \in Client /\ m.req.kind \in Kinds
                        /\ Claims(m.req)'
                        /\ \A d \in Client : m.call = client'[d].id /\ Writes(m.req) => m.req = client'[d].req
      BY <1>3 DEF NetOK
    <2>1. /\ m.call \in 1..calls /\ m.from \in Client /\ m.req.kind \in Kinds /\ Claims(m.req)
          /\ \A d \in Client : m.call = client[d].id /\ Writes(m.req) => m.req = client[d].req
      BY DEF RemoteInv, NetOK
    <2>. QED BY <1>1, <1>2, <1>3, <1>5, <2>1
  <1>10. CallOK(client[c])'
    <2>1. Formed(client[c])'
      BY <1>1, <1>2, <1>3 DEF Formed
    <2>2. Confirmed(client[c])' /\ Missed(client[c])' /\ Denied(client[c])'
      BY <1>1, <1>2, <1>3 DEF Confirmed, Missed, Denied
    <2>. QED BY <2>1, <2>2 DEF CallOK
  <1>11. ASSUME NEW d \in Client PROVE CallOK(client[d])' /\ (Busy(d)' => Claims(client[d].req)')
    <2>1. CASE d = c
      BY <1>1, <1>4, <1>10, <2>1 DEF Claims
    <2>2. CASE d # c
      <3>1. client'[d] = client[d] /\ calls' \in Nat /\ calls' >= calls /\ clock' \in Nat /\ clock' >= clock
        BY <1>2, <1>3, <2>2
      <3>2. CallOK(client[d])'
        BY <1>3, <3>1, Unmoved
      <3>3. Busy(d) => Claims(client[d].req)'
        BY <1>5, <3>1 DEF RemoteInv, Claims
      <3>. QED BY <3>1, <3>2, <3>3 DEF Busy
    <2>. QED BY <2>1, <2>2
  <1>. QED BY <1>6, <1>8, <1>9, <1>11 DEF RemoteInv

\* acquire_token: a token in use lasts the margin from when it was acquired,
\* or it is new and short-lived.
LEMMA TokenStep ==
    ASSUME RemoteInv, NEW c \in Client, acquire_token(c) \/ acquire_token_fails(c)
    PROVE  RemoteInv'
  <1>1. /\ client[c].phase = "token" /\ UNCHANGED <<service, object, net, calls, clock, expected>>
    BY DEF acquire_token, acquire_token_fails, setup, serviceVars
  <1>2. /\ Formed(client[c]) /\ client[c].res = "none" /\ client[c].answer = NoAnswer
        /\ client[c].op # "none" /\ calls \in Nat /\ clock \in Nat /\ token \in Nat
        /\ Margin \in Nat /\ TokenLife \subseteq Nat /\ Busy(c)
        /\ DOMAIN client = Client /\ client = [d \in Client |-> client[d]]
    BY <1>1, RemoteAssumption DEF RemoteInv, RemoteTypes, CallOK, Formed, Busy
  <1>3. ASSUME NEW r, Shape(r), client' = [client EXCEPT ![c] = r], token' \in Nat,
               r.op = client[c].op, r.id = client[c].id, r.req = client[c].req,
               r.answer = NoAnswer, r.since \in Nat, r.lasts \in Nat,
               \/ r.phase = "idle" /\ r.res = "error"
               \/ r.phase = "send" /\ r.res = "none" /\ (r.since + Margin < r.lasts \/ r.brief)
        PROVE  RemoteInv'
    <2>1. client'[c] = r
      BY <1>2, <1>3
    <2>2. Formed(client[c])'
      BY <1>1, <1>2, <1>3, <2>1 DEF Formed
    <2>3. Confirmed(client[c])' /\ Missed(client[c])' /\ Denied(client[c])'
      BY <1>3, <2>1 DEF Confirmed, Missed, Denied
    <2>4. CallOK(client[c])'
      BY <2>2, <2>3 DEF CallOK
    <2>. QED BY <1>1, <1>2, <1>3, <2>4, CallStep
  <1>4. CASE acquire_token_fails(c)
    <2> DEFINE r == [client[c] EXCEPT !.phase = "idle", !.res = "error"]
    <2>1. client' = [client EXCEPT ![c] = r] /\ token' = token
      BY <1>2, <1>4 DEF acquire_token_fails
    <2>2. /\ Shape(r) /\ r.op = client[c].op /\ r.id = client[c].id /\ r.req = client[c].req
          /\ r.answer = NoAnswer /\ r.since \in Nat /\ r.lasts \in Nat
          /\ r.phase = "idle" /\ r.res = "error"
      BY <1>2 DEF Formed, Shape
    <2> HIDE DEF r
    <2>. QED BY <1>2, <1>3, <2>1, <2>2
  <1>5. CASE acquire_token(c)
    <2>0. PICK life \in TokenLife :
             \E expiry, brief :
               /\ expiry = IF Lasts(token) THEN token ELSE clock + life
               /\ brief = (~Lasts(token) /\ life <= Margin)
               /\ token' = expiry
               /\ client' = [client EXCEPT ![c].phase = "send", ![c].lasts = expiry,
                                           ![c].since = clock, ![c].brief = brief]
      BY <1>5 DEF acquire_token
    <2>1. PICK expiry, brief :
             /\ expiry = IF Lasts(token) THEN token ELSE clock + life
             /\ brief = (~Lasts(token) /\ life <= Margin)
             /\ token' = expiry
             /\ client' = [client EXCEPT ![c].phase = "send", ![c].lasts = expiry,
                                         ![c].since = clock, ![c].brief = brief]
      BY <2>0
    <2>2. PICK time : time = clock
      OBVIOUS
    <2> DEFINE r == [client[c] EXCEPT !.phase = "send", !.lasts = expiry, !.since = time,
                                      !.brief = brief]
    <2>3. client' = [client EXCEPT ![c] = r]
      BY <1>2, <2>1, <2>2
    <2>4. /\ Shape(r) /\ r.op = client[c].op /\ r.id = client[c].id /\ r.req = client[c].req
          /\ r.answer = NoAnswer /\ r.since = time /\ r.lasts = expiry /\ r.brief = brief
          /\ r.phase = "send" /\ r.res = "none"
      BY <1>2 DEF Formed, Shape
    <2> HIDE DEF r
    <2>5. /\ expiry \in Nat /\ time \in Nat
          /\ time + Margin < expiry \/ brief
      <3>1. CASE Lasts(token)
        BY <1>2, <2>1, <2>2, <3>1 DEF Lasts
      <3>2. CASE ~Lasts(token) /\ life <= Margin
        <4>1. expiry = clock + life
          BY <2>1, <3>2
        <4>2. brief
          BY <2>1, <3>2, Zenon
        <4>. QED BY <1>2, <2>2, <4>1, <4>2
      <3>3. CASE ~Lasts(token) /\ ~(life <= Margin)
        <4>1. expiry = clock + life
          BY <2>1, <3>3
        <4>. QED BY <1>2, <2>2, <3>3, <4>1
      <3>. QED BY <3>1, <3>2, <3>3
    <2>. QED BY <1>3, <2>1, <2>3, <2>4, <2>5
  <1>. QED BY <1>4, <1>5

\* An attempt is given up, or there is none left to make.
LEMMA ResendStep ==
    ASSUME RemoteInv, NEW c \in Client, client[c].phase \in {"send", "wait"},
           client' = [client EXCEPT ![c] = Resend(client[c])],
           UNCHANGED <<service, object, net, calls, clock, token, expected>>
    PROVE  RemoteInv'
  <1>0. PICK s, r : s = client[c] /\ r = Resend(client[c])
    OBVIOUS
  <1>1. /\ CallOK(s) /\ Shape(s) /\ Busy(c) /\ token \in Nat
        /\ DOMAIN client = Client /\ client = [d \in Client |-> client[d]]
        /\ s.res = "none" /\ s.id # 0 /\ s.op # "none"
    BY <1>0 DEF RemoteInv, RemoteTypes, CallOK, Formed, Busy
  <1>2. /\ Shape(r) /\ Kept(s, r) /\ r.req = s.req /\ r.answer = NoAnswer
        /\ \/ r.phase = "send" /\ r.res = s.res
           \/ r.phase = "idle" /\ r.res \in {"retry_exhausted", "error"}
    BY <1>0, <1>1, ResendFacts
  <1>3. client'[c] = r /\ client' = [client EXCEPT ![c] = r]
    BY <1>0, <1>1
  <1>4. Formed(client[c])'
    BY <1>1, <1>2, <1>3 DEF CallOK, Formed, Kept
  <1>5. Confirmed(client[c])' /\ Missed(client[c])'
    BY <1>1, <1>2, <1>3 DEF Confirmed, Missed
  <1>6. Denied(client[c])'
    BY <1>0, <1>1, <1>2, <1>3 DEF CallOK, Denied, Kept
  <1>7. CallOK(client[c])'
    BY <1>4, <1>5, <1>6 DEF CallOK
  <1>. QED BY <1>0, <1>1, <1>2, <1>3, <1>7, CallStep DEF Kept

\* An attempt is sent: its request is the one of the call.
LEMMA SendStep ==
    ASSUME RemoteInv, NEW c \in Client, send_once(c)
    PROVE  RemoteInv'
  <1>1. /\ client[c].phase = "send"
        /\ UNCHANGED <<service, object, calls, clock, token, expected>>
    BY DEF send_once, setup, serviceVars
  <1>2. CASE ~(client[c].tries < max_attempts)
    BY <1>1, <1>2, ResendStep DEF send_once
  <1>3. CASE client[c].tries < max_attempts
    <2>0. PICK s, n : s = client[c] /\ n = client[c].tries + 1
      OBVIOUS
    <2> DEFINE r == [s EXCEPT !.phase = "wait", !.tries = n]
               m == [from |-> c, try |-> s.tries, call |-> s.id, req |-> s.req]
    <2>1. /\ CallOK(s) /\ Shape(s) /\ Claims(s.req) /\ s.id \in 0..calls /\ s.id # 0 /\ calls \in Nat
          /\ DOMAIN client = Client /\ client = [d \in Client |-> client[d]]
          /\ s.res = "none" /\ s.op # "none" /\ s.answer = NoAnswer /\ Match(s.op, s.req.kind)
      BY <1>1, <2>0 DEF RemoteInv, RemoteTypes, CallOK, Formed, Busy
    <2>2. net' = net \cup {m} /\ client' = [client EXCEPT ![c] = r]
      BY <1>3, <2>0, <2>1 DEF send_once
    <2>3. /\ Shape(r) /\ Kept(s, r) /\ r.req = s.req /\ r.res = s.res /\ r.answer = s.answer
          /\ r.phase = "wait"
      BY <2>1 DEF Shape, Kept
    <2>4. m.from = c /\ m.call = s.id /\ m.req = s.req
      OBVIOUS
    <2> HIDE DEF r, m
    <2>5. /\ client' = [d \in Client |-> client'[d]] /\ DOMAIN client' = Client /\ client'[c] = r
          /\ \A d \in Client \ {c} : client'[d] = client[d]
      BY <2>1, <2>2
    <2>6. RemoteTypes' /\ AckedWritesStay'
      BY <1>1, <2>5 DEF RemoteInv, RemoteTypes, AckedWritesStay
    <2>7. \A d \in Client : client'[d].id = client[d].id /\ client'[d].req = client[d].req
      BY <2>0, <2>3, <2>5 DEF Kept
    <2>8. Distinct'
      BY <2>7 DEF RemoteInv, Distinct
    <2>9. \A q : Claims(q)' = Claims(q)
      BY <1>1 DEF Claims
    <2>10. NetOK'
      <3>1. s.req.kind \in Kinds
        BY <2>1 DEF Match, Kinds
      <3>2. \A d \in Client : s.id = client[d].id => d = c
        BY <2>0, <2>1 DEF RemoteInv, Distinct
      <3>3. ASSUME NEW x \in net'
            PROVE  /\ x.call \in 1..calls /\ x.from \in Client /\ x.req.kind \in Kinds /\ Claims(x.req)
                   /\ \A d \in Client : x.call = client'[d].id /\ Writes(x.req) => x.req = client'[d].req
        <4>1. CASE x \in net
          BY <2>7, <4>1 DEF RemoteInv, NetOK
        <4>2. CASE x = m
          BY <2>0, <2>1, <2>4, <2>7, <3>1, <3>2, <4>2
        <4>. QED BY <2>2, <4>1, <4>2
      <3>. QED BY <1>1, <2>9, <3>3 DEF NetOK
    <2>11. CallOK(client[c])'
      <3>1. Formed(client[c])'
        BY <1>1, <2>1, <2>3, <2>5 DEF CallOK, Formed, Kept
      <3>2. Confirmed(client[c])' /\ Missed(client[c])'
        BY <2>1, <2>3, <2>5, AnswerFacts DEF Confirmed, Missed, NoKey, Success
      <3>3. Denied(client[c])'
        BY <1>1, <2>0, <2>1, <2>3, <2>5, AnswerFacts DEF CallOK, Denied, Kept
      <3>. QED BY <3>1, <3>2, <3>3 DEF CallOK
    <2>12. ASSUME NEW d \in Client PROVE CallOK(client[d])' /\ (Busy(d)' => Claims(client[d].req)')
      <3>1. CASE d = c
        BY <2>1, <2>3, <2>5, <2>9, <2>11, <3>1
      <3>2. CASE d # c
        <4>1. client'[d] = client[d] /\ clock \in Nat
          BY <2>5, <3>2 DEF RemoteInv, RemoteTypes
        <4>2. CallOK(client[d])'
          BY <1>1, <2>1, <4>1, Unmoved
        <4>. QED BY <1>1, <4>1, <4>2 DEF RemoteInv, Busy, Claims
      <3>. QED BY <3>1, <3>2
    <2>. QED BY <2>6, <2>8, <2>10, <2>12 DEF RemoteInv
  <1>. QED BY <1>2, <1>3

\* An answer is looked at: an acknowledgement describes the object, unless
\* something else may have written it.
LEMMA ReceiveStep ==
    ASSUME RemoteInv, NEW c \in Client, Receive(c)
    PROVE  RemoteInv'
  <1>0. PICK s : s = client[c]
    OBVIOUS
  <1>1. /\ s.phase = "wait" /\ UNCHANGED <<service, object, net, token, clock, calls>>
    BY <1>0 DEF Receive, setup, serviceVars
  <1>2. /\ CallOK(s) /\ Formed(s) /\ Shape(s) /\ ReqShape(s.req) /\ Match(s.op, s.req.kind)
        /\ DOMAIN client = Client /\ client = [d \in Client |-> client[d]]
        /\ s.res = "none" /\ s.op # "none" /\ s.id # 0 /\ Busy(c) /\ token \in Nat
        /\ service \in {"s3", "gcs", "azure"}
    BY <1>0, <1>1 DEF RemoteInv, RemoteTypes, CallOK, Formed, Busy
  <1>3. CASE service = "s3" /\ should_retry_status(s.answer.status)
    <2>1. client' = [client EXCEPT ![c] = Resend(client[c])]
      BY <1>0, <1>3 DEF Receive
    <2>2. Resend(s).phase # "idle" \/ Resend(s).res # "ok"
      BY <1>2, ResendFacts
    <2>3. expected' = expected
      BY <1>0, <1>3, <2>2 DEF Receive
    <2>. QED BY <1>0, <1>1, <2>1, <2>3, ResendStep
  <1>4. CASE ~(service = "s3" /\ should_retry_status(s.answer.status))
    <2>0. PICK r : r = Received(s)
      OBVIOUS
    <2>1. /\ client' = [client EXCEPT ![c] = r]
          /\ expected' = IF /\ r.phase = "idle" /\ r.res = "ok" /\ Writes(s.req)
                            /\ s.answer.body # ErrorCode /\ ~Disturbed(c, s.req.key)
                         THEN [expected EXCEPT ![s.req.key] = Prediction(s)] ELSE expected
      BY <1>0, <1>4, <2>0 DEF Receive
    <2>2. Advances(s, r)
      BY <1>2, <2>0, ReceivedFacts
    <2>3. client'[c] = r
      BY <1>2, <2>1
    <2>4. /\ Shape(r) /\ Kept(s, r) /\ r.answer = NoAnswer
          /\ r.phase \in {"idle", "send", "token"}
          /\ r.phase # "idle" => r.res = "none"
          /\ ReqShape(r.req) /\ Match(r.op, r.req.kind)
      BY <1>2, <2>2 DEF Advances, Kept
    <2>5. Formed(client[c])'
      BY <1>1, <1>2, <2>3, <2>4 DEF Formed, Kept
    <2>6. /\ Result(s) \in {"ok", "not_found", "denied", "error", "multipart_error"}
          /\ Result(s) = "ok" => s.answer.status \in Success
          /\ Result(s) = "not_found" => NoKey(s.answer) /\ s.op \notin Multipart
          /\ Result(s) = "denied" => s.answer.status = 401 /\ service = "gcs"
      BY <1>2, ResultFacts
    <2>7. Confirmed(client[c])'
      BY <2>3, <2>4 DEF Confirmed
    <2>8. r.res \in {"not_found", "denied"} => r.res = Result(s) /\ r.req = s.req
      BY <1>2, <2>2 DEF Advances
    <2>9. Missed(client[c])'
      BY <1>1, <1>2, <2>3, <2>4, <2>6, <2>8 DEF CallOK, Missed, Kept, Asked
    <2>10. Denied(client[c])'
      BY <1>1, <1>2, <2>3, <2>4, <2>6, <2>8 DEF CallOK, Denied, Kept, Outlived
    <2>11. CallOK(client[c])'
      BY <2>5, <2>7, <2>9, <2>10 DEF CallOK
    <2>12. r.req = s.req \/ (~Writes(s.req) /\ ~Writes(r.req))
      <3>1. CASE s.op \in {"list", "list_meta"}
        BY <1>2, <2>4, <3>1 DEF Match, Kept, Writes
      <3>2. CASE s.op \notin {"list", "list_meta"}
        BY <2>2, <3>2 DEF Advances
      <3>. QED BY <3>1, <3>2
    <2>13. \/ expected' = expected
           \/ \E k, x : /\ expected' = [expected EXCEPT ![k] = x] /\ ~Disturbed(c, k)
                        /\ r.phase = "idle" /\ (k \in Name => x \in {Unknown, object[k]})
      <3>1. SUFFICES ASSUME r.phase = "idle", r.res = "ok", Writes(s.req), s.answer.body # ErrorCode,
                            ~Disturbed(c, s.req.key), s.req.key \in Name
                     PROVE  Prediction(s) \in {Unknown, object[s.req.key]}
        BY <2>1
      <3>2. s.answer.status \in Success
        BY <2>2, <2>6, <3>1 DEF Advances
      <3>3. s.req.key \notin s.dirty
        BY <1>0, <3>1 DEF Disturbed
      <3>4. CASE s.op \in {"put", "delete", "complete"}
        <4>1. object[s.req.key] = Effect(s.req)
          BY <1>1, <1>2, <3>1, <3>2, <3>3, <3>4 DEF CallOK, Confirmed
        <4>2. Effect(s.req) = Prediction(s)
          BY <1>2, <3>4 DEF Match, Effect, Prediction
        <4>. QED BY <4>1, <4>2
      <3>5. CASE s.op \notin {"put", "delete", "complete"}
        BY <3>5 DEF Prediction
      <3>. QED BY <3>4, <3>5
    <2>. QED
      BY <1>0, <1>1, <1>2, <2>1, <2>4, <2>11, <2>12, <2>13, CallStep DEF Kept
  <1>. QED BY <1>3, <1>4
-----------------------------------------------------------------------------
(***************************************************************************)
(* The steps of the service.                                               *)
(***************************************************************************)
\* What a call notices when a request is served.
LEMMA ServedCall ==
    ASSUME RemoteInv, NEW m, NEW objects, NEW up, NEW a, Served(m, objects, up, a),
           NEW d \in Client, NEW s, s = client[d], NEW r, r = client'[d]
    PROVE  /\ Shape(r) /\ r.op = s.op /\ r.id = s.id /\ r.req = s.req /\ r.phase = s.phase
           /\ r.res = s.res /\ r.lasts = s.lasts /\ r.since = s.since /\ r.brief = s.brief
           /\ r.answer = s.answer \/ (Awaits(d, m) /\ r.answer = a)
           /\ ~Busy(d) => r = s
           /\ Busy(d) =>
                /\ s.dirty \subseteq r.dirty /\ s.absent \subseteq r.absent
                /\ Writes(m.req) /\ m.call # s.id => m.req.key \in r.dirty
                /\ Watched(s.req) \ There(objects) \subseteq r.absent
  <1>1. Shape(s)
    BY DEF RemoteInv, CallOK, Formed
  <1> DEFINE x == IF Awaits(d, m) THEN [s EXCEPT !.answer = a] ELSE s
             y == [x EXCEPT !.dirty = IF Writes(m.req) /\ m.call # x.id
                                      THEN @ \cup {m.req.key} ELSE @,
                            !.absent = @ \cup (Watched(x.req) \ There(objects)),
                            !.ever = @ \cup (Watched(x.req) \cap There(objects)),
                            !.always = @ \cap There(objects)]
  <1>2. r = IF ~Busy(d) THEN x ELSE y
    BY DEF Served
  <1>3. /\ Shape(x) /\ x.op = s.op /\ x.id = s.id /\ x.req = s.req /\ x.phase = s.phase
        /\ x.res = s.res /\ x.lasts = s.lasts /\ x.since = s.since /\ x.brief = s.brief
        /\ x.answer = s.answer \/ (Awaits(d, m) /\ x.answer = a)
        /\ x.dirty = s.dirty /\ x.absent = s.absent
    BY <1>1 DEF Shape
  <1>4. ~Busy(d) => x = s
    BY DEF Awaits, Busy
  <1> HIDE DEF x
  <1>5. /\ Shape(y) /\ y.op = x.op /\ y.id = x.id /\ y.req = x.req /\ y.phase = x.phase
        /\ y.res = x.res /\ y.lasts = x.lasts /\ y.since = x.since /\ y.brief = x.brief
        /\ y.answer = x.answer
        /\ y.dirty = IF Writes(m.req) /\ m.call # x.id THEN x.dirty \cup {m.req.key} ELSE x.dirty
        /\ y.absent = x.absent \cup (Watched(x.req) \ There(objects))
    BY <1>3 DEF Shape
  <1> HIDE DEF y
  <1>6. CASE ~Busy(d)
    BY <1>2, <1>3, <1>4, <1>6
  <1>7. CASE Busy(d)
    BY <1>2, <1>3, <1>5, <1>7
  <1>. QED BY <1>6, <1>7

\* A request is served, in time or late: no call is left with a false answer.
LEMMA ServeStep ==
    ASSUME RemoteInv, NEW m \in net, Serve(m)
    PROVE  RemoteInv'
  <1>1. /\ m.call \in 1..calls /\ m.from \in Client /\ m.req.kind \in Kinds /\ Claims(m.req)
        /\ \A c \in Client : m.call = client[c].id /\ Writes(m.req) => m.req = client[c].req
        /\ RemoteTypes
    BY DEF RemoteInv, NetOK
  <1>2. PICK objects, up, a : Served(m, objects, up, a) /\ Outcome(m, objects, a)
    BY <1>1, ServeFacts
  <1>3. /\ object' = objects /\ net' \subseteq net
        /\ UNCHANGED <<service, calls, clock, token, expected>>
        /\ client' = [c \in Client |-> client'[c]] /\ DOMAIN client' = Client
    BY <1>2 DEF Served, setup
  <1>4. AckedWritesStay'
    BY <1>1, <1>2, <1>3 DEF RemoteInv, AckedWritesStay, Outcome, Claims
  <1>5. RemoteTypes'
    BY <1>1, <1>2, <1>3 DEF RemoteTypes, Outcome
  <1>6. \A d \in Client : /\ client'[d].id = client[d].id /\ client'[d].req = client[d].req
                          /\ client'[d].phase = client[d].phase
    <2>1. ASSUME NEW d \in Client
          PROVE  /\ client'[d].id = client[d].id /\ client'[d].req = client[d].req
                 /\ client'[d].phase = client[d].phase
      <3>1. PICK s, r : s = client[d] /\ r = client'[d]
        OBVIOUS
      <3>2. r.id = s.id /\ r.req = s.req /\ r.phase = s.phase
        BY <1>2, <3>1, ServedCall
      <3>. QED BY <3>1, <3>2
    <2>. QED BY <2>1
  <1>7. Distinct' /\ NetOK'
    BY <1>3, <1>6 DEF RemoteInv, Distinct, NetOK, Claims
  <1>8. ASSUME NEW d \in Client PROVE CallOK(client[d])' /\ (Busy(d)' => Claims(client[d].req)')
    <2>1. PICK s, r : s = client[d] /\ r = client'[d]
      OBVIOUS
    <2>2. /\ Shape(r) /\ r.op = s.op /\ r.id = s.id /\ r.req = s.req /\ r.phase = s.phase
          /\ r.res = s.res /\ r.lasts = s.lasts /\ r.since = s.since /\ r.brief = s.brief
          /\ r.answer = s.answer \/ (Awaits(d, m) /\ r.answer = a)
          /\ ~Busy(d) => r = s
          /\ Busy(d) =>
               /\ s.dirty \subseteq r.dirty /\ s.absent \subseteq r.absent
               /\ Writes(m.req) /\ m.call # s.id => m.req.key \in r.dirty
               /\ Watched(s.req) \ There(objects) \subseteq r.absent
      BY <1>2, <2>1, ServedCall
    <2>3. CallOK(s) /\ Formed(s)
      BY <2>1 DEF RemoteInv, CallOK
    <2>4. Awaits(d, m) => s.phase = "wait" /\ m.req = s.req /\ m.from = d
      BY <2>1 DEF Awaits
    <2>5. Formed(client[d])'
      BY <1>3, <2>1, <2>2, <2>3, <2>4 DEF Formed
    <2>6. Confirmed(client[d])'
      <3> SUFFICES ASSUME s.phase = "wait", r.answer.status \in Success, r.answer.body # ErrorCode,
                          s.op \in {"put", "delete", "complete"},
                          NEW k \in Name, k \notin r.dirty, s.req.key = k
                   PROVE  objects[k] = Effect(s.req)
        BY <1>3, <2>1, <2>2 DEF Confirmed
      <3>1. Busy(d) /\ k \notin s.dirty /\ s.req.kind \in {"PUT", "DELETE", "COMPLETE"}
        BY <2>1, <2>2, <2>3 DEF Busy, Formed, Match
      <3>2. CASE Awaits(d, m) /\ r.answer = a
        BY <1>2, <2>4, <3>1, <3>2 DEF Outcome
      <3>3. CASE r.answer = s.answer
        <4>1. object[k] = Effect(s.req)
          BY <2>3, <3>1, <3>3 DEF CallOK, Confirmed
        <4>2. CASE Writes(m.req) /\ m.req.key = k
          <5>1. m.call = s.id
            BY <2>2, <3>1, <4>2
          <5>2. m.req = s.req
            BY <1>1, <2>1, <4>2, <5>1
          <5>. QED BY <1>2, <3>1, <4>1, <5>2 DEF Outcome
        <4>3. CASE ~(Writes(m.req) /\ m.req.key = k)
          BY <1>2, <4>1, <4>3 DEF Outcome
        <4>. QED BY <4>2, <4>3
      <3>. QED BY <2>2, <3>2, <3>3
    <2>7. Missed(client[d])'
      <3>1. Asked(r) = Asked(s)
        BY <2>2 DEF Asked
      <3>2. s.absent \subseteq r.absent
        BY <2>2
      <3>3. r.res = "not_found" => Asked(r) \in r.absent
        BY <2>2, <2>3, <3>1, <3>2 DEF CallOK, Missed
      <3>4. ASSUME r.phase = "wait", NoKey(r.answer), r.op \notin Multipart
            PROVE  Asked(r) \in r.absent
        <4>0. r.answer.status = 404
          BY <3>4 DEF NoKey
        <4>1. CASE r.answer = s.answer
          BY <2>2, <2>3, <3>1, <3>2, <3>4, <4>1 DEF CallOK, Missed
        <4>2. CASE Awaits(d, m) /\ r.answer = a
          <5>1. Match(s.op, m.req.kind) /\ Busy(d) /\ m.req = s.req
            BY <2>1, <2>3, <2>4, <4>2 DEF Formed, Busy
          <5>2. CASE m.req.kind \in {"GET", "HEAD", "DELETE"} /\ m.req.key \notin There(objects)
            <6>1. m.req.key \in Watched(m.req) /\ Asked(s) = m.req.key
              BY <5>1, <5>2 DEF Watched, Asked, Match
            <6>. QED BY <2>2, <3>1, <5>1, <5>2, <6>1
          <5>3. CASE m.req.kind = "COPY" /\ m.req.src \notin There(objects)
            <6>1. m.req.src \in Watched(m.req) /\ Asked(s) = m.req.src
              BY <5>1, <5>3 DEF Watched, Asked, Match
            <6>. QED BY <2>2, <3>1, <5>1, <5>3, <6>1
          <5>4. m.req.kind \notin {"PART", "COMPLETE", "ABORT"}
            BY <2>2, <3>4, <5>1 DEF Match, Multipart
          <5>. QED BY <1>2, <4>0, <4>2, <5>2, <5>3, <5>4 DEF Outcome
        <4>. QED BY <2>2, <4>1, <4>2
      <3>. QED BY <1>3, <2>1, <3>3, <3>4 DEF Missed, NoKey
    <2>8. Denied(client[d])'
      <3>1. Outlived(client[d])' = Outlived(s)
        BY <1>3, <2>1, <2>2 DEF Outlived
      <3>2. ASSUME r.phase = "wait", r.answer.status = 401, service = "gcs" PROVE Outlived(s)
        <4>1. CASE r.answer = s.answer
          BY <2>2, <2>3, <3>2, <4>1 DEF CallOK, Denied
        <4>2. CASE Awaits(d, m) /\ r.answer = a
          <5>1. s.lasts <= clock
            BY <1>2, <2>1, <2>4, <3>2, <4>2 DEF Outcome, Expired
          <5>2. s.since + Margin < s.lasts \/ s.brief
            BY <2>2, <2>3, <3>2 DEF CallOK, Denied
          <5>3. s.since \in Nat /\ s.lasts \in Nat /\ clock \in Nat /\ Margin \in Nat
            BY <1>1, <2>3, RemoteAssumption DEF Formed, RemoteTypes
          <5>. QED BY <5>1, <5>2, <5>3 DEF Outlived
        <4>. QED BY <2>2, <4>1, <4>2
      <3>3. /\ r.phase \in {"send", "wait"} /\ service = "gcs" => r.since + Margin < r.lasts \/ r.brief
            /\ r.res = "denied" => Outlived(s)
        BY <2>2, <2>3 DEF CallOK, Denied
      <3>. QED BY <1>3, <2>1, <3>1, <3>2, <3>3 DEF Denied
    <2>9. Busy(d)' => Claims(client[d].req)'
      BY <1>3, <1>6 DEF RemoteInv, Busy, Claims
    <2>. QED BY <2>5, <2>6, <2>7, <2>8, <2>9 DEF CallOK
  <1>. QED BY <1>4, <1>5, <1>7, <1>8 DEF RemoteInv

\* A request is refused: what looks like a success bears an error code.
LEMMA RefuseStep ==
    ASSUME RemoteInv, NEW m \in net, Refuse(m)
    PROVE  RemoteInv'
  <1>1. PICK a \in Refusals(m.req) :
           client' = [c \in Client |->
                         IF Awaits(c, m) THEN [client[c] EXCEPT !.answer = a] ELSE client[c]]
    BY DEF Refuse
  <1>2. /\ net' \subseteq net /\ UNCHANGED <<service, object, calls, clock, token, expected>>
        /\ client' = [c \in Client |-> client'[c]] /\ DOMAIN client' = Client
    BY <1>1 DEF Refuse, setup, serviceVars
  <1>3. ASSUME NEW d \in Client, NEW s, s = client[d], NEW r, r = client'[d]
        PROVE  /\ Shape(r) /\ Kept(s, r) /\ r.req = s.req /\ r.phase = s.phase /\ r.res = s.res
               /\ r.answer = s.answer \/ (s.phase = "wait" /\ r.answer = a)
    <2>1. Shape(s)
      BY <1>3 DEF RemoteInv, CallOK, Formed
    <2>2. CASE Awaits(d, m)
      <3>1. r = [s EXCEPT !.answer = a] /\ s.phase = "wait"
        BY <1>1, <1>3, <2>2 DEF Awaits
      <3>. QED BY <2>1, <3>1 DEF Shape, Kept
    <2>3. CASE ~Awaits(d, m)
      <3>1. r = s
        BY <1>1, <1>3, <2>3
      <3>. QED BY <2>1, <3>1 DEF Kept
    <2>. QED BY <2>2, <2>3
  <1>4. \A d \in Client : /\ client'[d].id = client[d].id /\ client'[d].req = client[d].req
                          /\ client'[d].phase = client[d].phase
    BY <1>3 DEF Kept
  <1>5. Distinct' /\ NetOK' /\ RemoteTypes' /\ AckedWritesStay'
    BY <1>2, <1>4 DEF RemoteInv, Distinct, NetOK, Claims, RemoteTypes, AckedWritesStay
  <1>6. ASSUME NEW d \in Client PROVE CallOK(client[d])' /\ (Busy(d)' => Claims(client[d].req)')
    <2>1. PICK s, r : s = client[d] /\ r = client'[d]
      OBVIOUS
    <2>2. /\ Shape(r) /\ Kept(s, r) /\ r.req = s.req /\ r.phase = s.phase /\ r.res = s.res
          /\ \/ r.answer = s.answer
             \/ /\ s.phase = "wait" /\ r.answer.status \in {200, 404, 500, 503}
                /\ r.answer.status = 200 => r.answer.body = ErrorCode
                /\ r.answer.status = 404 => r.answer.body = ErrorCode /\ service = "s3"
      <3>1. /\ a.status \in {200, 404, 500, 503}
            /\ a.status = 200 => a.body = ErrorCode
            /\ a.status = 404 => a.body = ErrorCode /\ service = "s3"
        BY <1>1, RefusalFacts
      <3>2. /\ Shape(r) /\ Kept(s, r) /\ r.req = s.req /\ r.phase = s.phase /\ r.res = s.res
            /\ r.answer = s.answer \/ (s.phase = "wait" /\ r.answer = a)
        BY <1>3, <2>1
      <3>. QED BY <3>1, <3>2
    <2>3. CallOK(s) /\ Formed(s)
      BY <2>1 DEF RemoteInv, CallOK
    <2>4. Formed(client[d])'
      BY <1>2, <2>1, <2>2, <2>3 DEF Formed, Kept
    <2>5. Confirmed(client[d])'
      BY <1>2, <2>1, <2>2, <2>3 DEF CallOK, Confirmed, Kept, Success
    <2>6. Missed(client[d])'
      BY <1>2, <2>1, <2>2, <2>3 DEF CallOK, Missed, NoKey, Kept, Asked
    <2>7. Denied(client[d])'
      BY <1>2, <2>1, <2>2, <2>3 DEF CallOK, Denied, Kept, Outlived
    <2>8. Busy(d)' => Claims(client[d].req)'
      BY <1>2, <1>4 DEF RemoteInv, Busy, Claims
    <2>. QED BY <2>4, <2>5, <2>6, <2>7, <2>8 DEF CallOK
  <1>. QED BY <1>5, <1>6 DEF RemoteInv

\* Time passes, or nothing happens to the clients.
LEMMA TickStep ==
    ASSUME RemoteInv, UNCHANGED <<service, object, net, client, calls, token, expected>>,
           clock' \in {clock, clock + 1}
    PROVE  RemoteInv'
  <1>1. clock \in Nat /\ calls \in Nat /\ clock' \in Nat /\ clock' >= clock
    BY DEF RemoteInv, RemoteTypes
  <1>2. ASSUME NEW d \in Client PROVE CallOK(client[d])' /\ (Busy(d)' => Claims(client[d].req)')
    <2>1. CallOK(client[d])'
      BY <1>1, Unmoved
    <2>. QED BY <2>1 DEF RemoteInv, Busy, Claims
  <1>3. Distinct' /\ NetOK' /\ RemoteTypes' /\ AckedWritesStay'
    BY <1>1 DEF RemoteInv, Distinct, NetOK, Claims, RemoteTypes, AckedWritesStay
  <1>. QED BY <1>2, <1>3 DEF RemoteInv

\* Every operation begins with the kind of request it is named for.
LEMMA Requests ==
    ASSUME NEW kind, NEW k
    PROVE  /\ ReqShape(Req(kind, k)) /\ Req(kind, k).kind = kind
           /\ \A x : /\ ReqShape([Req(kind, k) EXCEPT !.data = x])
                     /\ [Req(kind, k) EXCEPT !.data = x].kind = kind
                     /\ ReqShape([Req(kind, k) EXCEPT !.src = x])
                     /\ [Req(kind, k) EXCEPT !.src = x].kind = kind
  BY DEF Req, NoReq, ReqShape

\* A call on objects that begins keeps the invariant.
LEMMA PlainStep ==
    ASSUME RemoteInv, NEW c \in Client, NEW op, NEW req, ReqShape(req), Match(op, req.kind),
           op # "none", Plain(c, op, req)
    PROVE  RemoteInv'
  BY BeginStep DEF Plain

\* A call on the upload of the handle that begins keeps the invariant.
LEMMA UploadingStep ==
    ASSUME RemoteInv, NEW c \in Client, NEW op, NEW req, ReqShape(req), Match(op, req.kind),
           op # "none", Uploading(c, op, req)
    PROVE  RemoteInv'
  <1>1. PICK q : q = [req EXCEPT !.id = handle.id]
    OBVIOUS
  <1>2. BeginCall(c, op, q)
    BY <1>1 DEF Uploading
  <1>3. ReqShape(q) /\ q.kind = req.kind
    BY <1>1 DEF ReqShape
  <1>. QED BY <1>2, <1>3, BeginStep

\* The operations on objects.
LEMMA ObjectCalls ==
    ASSUME RemoteInv, NEW c \in Client, NEW k, NEW v,
           \/ Put(c, k, v) \/ Get(c, k) \/ Delete(c, k) \/ HeadOf(c, k) \/ List(c)
           \/ remote_list_meta(c) \/ s3_copy(c, v, k)
    PROVE  RemoteInv'
  <1>1. CASE Put(c, k, v)
    <2>1. PICK q : q = [Req("PUT", k) EXCEPT !.data = <<v>>]
      OBVIOUS
    <2>2. ReqShape(q) /\ q.kind = "PUT"
      BY <2>1 DEF Req, NoReq, ReqShape
    <2>3. Match("put", q.kind)
      BY <2>2 DEF Match
    <2>. QED BY <1>1, <2>1, <2>2, <2>3, PlainStep DEF Put
  <1>2. CASE s3_copy(c, v, k)
    <2>1. PICK q : q = [Req("COPY", k) EXCEPT !.src = v]
      OBVIOUS
    <2>2. ReqShape(q) /\ q.kind = "COPY"
      BY <2>1 DEF Req, NoReq, ReqShape
    <2>3. Match("copy", q.kind)
      BY <2>2 DEF Match
    <2>. QED BY <1>2, <2>1, <2>2, <2>3, PlainStep DEF s3_copy
  <1>3. CASE Get(c, k)
    <2>1. ReqShape(Req("GET", k)) /\ Match("get", Req("GET", k).kind)
      BY Requests DEF Match
    <2>. QED BY <1>3, <2>1, PlainStep DEF Get
  <1>4. CASE Delete(c, k)
    <2>1. ReqShape(Req("DELETE", k)) /\ Match("delete", Req("DELETE", k).kind)
      BY Requests DEF Match
    <2>. QED BY <1>4, <2>1, PlainStep DEF Delete
  <1>5. CASE HeadOf(c, k)
    <2>1. ReqShape(Req("HEAD", k)) /\ Match("head", Req("HEAD", k).kind)
      BY Requests DEF Match
    <2>. QED BY <1>5, <2>1, PlainStep DEF HeadOf
  <1>6. CASE List(c) \/ remote_list_meta(c)
    <2>1. /\ ReqShape(Req("LIST", Missing)) /\ Match("list", Req("LIST", Missing).kind)
          /\ Match("list_meta", Req("LIST", Missing).kind)
      BY Requests DEF Match
    <2>. QED BY <1>6, <2>1, PlainStep DEF List, remote_list_meta
  <1>. QED BY <1>1, <1>2, <1>3, <1>4, <1>5, <1>6

\* The operations of a multipart upload.
LEMMA UploadCalls ==
    ASSUME RemoteInv, NEW c \in Client,
           \/ create_multipart_upload(c) \/ complete(c) \/ abort(c)
           \/ \E n \in PartNumber, v \in Payload : upload_part(c, n, v)
    PROVE  RemoteInv'
  <1>1. ASSUME NEW kind \in {"CREATE", "PART", "COMPLETE", "ABORT"}, NEW q, NEW op, Uploading(c, op, q),
               ReqShape(q), q.kind = kind, <<op, kind>> \in {<<"create", "CREATE">>, <<"part", "PART">>,
                                                <<"complete", "COMPLETE">>, <<"abort", "ABORT">>}
        PROVE  RemoteInv'
    BY <1>1, UploadingStep DEF Match
  <1>2. CASE create_multipart_upload(c)
    <2>1. ReqShape(Req("CREATE", Object)) /\ Req("CREATE", Object).kind = "CREATE"
      BY Requests
    <2>. QED BY <1>1, <1>2, <2>1 DEF create_multipart_upload
  <1>3. CASE abort(c)
    <2>1. ReqShape(Req("ABORT", Object)) /\ Req("ABORT", Object).kind = "ABORT"
      BY Requests
    <2>. QED BY <1>1, <1>3, <2>1 DEF abort
  <1>4. CASE complete(c)
    <2>1. PICK parts, q : q = [Req("COMPLETE", Object) EXCEPT !.data = parts] /\ Uploading(c, "complete", q)
      BY <1>4 DEF complete
    <2>2. ReqShape(q) /\ q.kind = "COMPLETE"
      BY <2>1, Requests
    <2>. QED BY <1>1, <2>1, <2>2
  <1>5. ASSUME NEW n \in PartNumber, NEW v \in Payload, upload_part(c, n, v) PROVE RemoteInv'
    <2>1. PICK q : q = [Req("PART", Object) EXCEPT !.data = <<<<n, v>>>>]
      OBVIOUS
    <2>2. ReqShape(q) /\ q.kind = "PART"
      BY <2>1, Requests
    <2>. QED BY <1>1, <1>5, <2>1, <2>2 DEF upload_part
  <1>. QED BY <1>2, <1>3, <1>4, <1>5

\* No step of a client or of the service leaves the invariant.
LEMMA RemoteStep == RemoteInv /\ [RemoteNext]_remoteVars => RemoteInv'
  <1> SUFFICES ASSUME RemoteInv, [RemoteNext]_remoteVars PROVE RemoteInv'
    OBVIOUS
  <1>1. CASE UNCHANGED remoteVars
    BY <1>1, TickStep DEF remoteVars, setup, serviceVars
  <1>2. CASE Tick
    BY <1>2, TickStep DEF Tick, setup, serviceVars
  <1>3. ASSUME NEW c \in Client, NEW k \in Name,
               \/ s3_get(c, k) \/ s3_delete(c, k) \/ s3_head(c, k)
               \/ gcs_get(c, k) \/ gcs_delete(c, k) \/ gcs_head(c, k)
               \/ azure_get(c, k) \/ azure_delete(c, k) \/ azure_head(c, k)
               \/ \E v \in Payload : s3_put(c, k, v) \/ gcs_put(c, k, v) \/ azure_put(c, k, v)
               \/ \E src \in Name \ {k} : s3_copy(c, src, k)
        PROVE  RemoteInv'
    <2>1. \E v : \/ Put(c, k, v) \/ Get(c, k) \/ Delete(c, k) \/ HeadOf(c, k) \/ s3_copy(c, v, k)
      BY <1>3 DEF s3_get, s3_delete, s3_head, gcs_get, gcs_delete, gcs_head, azure_get, azure_delete,
                  azure_head, s3_put, gcs_put, azure_put
    <2>. QED BY <2>1, ObjectCalls
  <1>4. ASSUME NEW c \in Client, s3_list(c) \/ gcs_list(c) \/ azure_list(c) \/ remote_list_meta(c)
        PROVE  RemoteInv'
    <2>1. List(c) \/ remote_list_meta(c)
      BY <1>4 DEF s3_list, gcs_list, azure_list
    <2>. QED BY <2>1, ObjectCalls
  <1>5. ASSUME NEW c \in Client, TransportError(c) PROVE RemoteInv'
    BY <1>5, ResendStep DEF TransportError, setup, serviceVars
  <1>. QED
    BY <1>1, <1>2, <1>3, <1>4, <1>5, UploadCalls, TokenStep, SendStep, ReceiveStep, ServeStep,
       RefuseStep DEF RemoteNext

\* At first nothing is under way.
LEMMA RemoteStart == Init => RemoteInv
  <1> SUFFICES ASSUME Init PROVE RemoteInv
    OBVIOUS
  <1>1. /\ service \in {"s3", "gcs", "azure"} /\ object \in Initial /\ net = {}
        /\ client = [c \in Client |-> NoCall] /\ token \in {Margin + 1, 0}
        /\ clock = 0 /\ calls = 0 /\ expected = object
    BY DEF Init, RemoteInit
  <1>2. object \in [Name -> Seq(Payload) \cup {Missing}] /\ Margin \in Nat
    BY <1>1, RemoteAssumption
  <1>3. RemoteTypes /\ AckedWritesStay /\ NetOK
    BY <1>1, <1>2 DEF RemoteTypes, AckedWritesStay, NetOK
  <1>4. /\ Shape(NoCall) /\ ReqShape(NoCall.req) /\ NoCall.op = "none" /\ NoCall.req.kind = "none"
        /\ NoCall.phase = "idle" /\ NoCall.id = 0 /\ NoCall.answer = NoAnswer
        /\ NoCall.res = "none" /\ NoCall.since = 0 /\ NoCall.lasts = 0
    BY DEF NoCall, NoReq, Shape, ReqShape
  <1>5. CallOK(NoCall)
    BY <1>1, <1>4 DEF CallOK, Formed, Confirmed, Missed, Denied, Match
  <1>6. \A c \in Client : client[c] = NoCall
    BY <1>1
  <1>. QED BY <1>3, <1>4, <1>5, <1>6 DEF RemoteInv, Distinct, Busy

\* The invariant of the clients of a service and their requests.
LEMMA RemoteInvariance == Spec => []RemoteInv
  <1>1. RemoteInv /\ [Next]_vars => RemoteInv'
    BY RemoteStep DEF Next, vars
  <1>. QED BY <1>1, RemoteStart, PTL DEF Spec

\* For any number of clients, keys and lost, refused or repeated attempts: a
\* write that was acknowledged is in effect and stays so until another one of
\* the key is begun, but for a key that a request of another call, or an
\* attempt given up, could reach when the acknowledgement came.
THEOREM AcknowledgedStays == Spec => []AckedWritesStay
  <1>1. RemoteInv => AckedWritesStay
    BY DEF RemoteInv
  <1>. QED BY <1>1, RemoteInvariance, PTL

\* NotFound is returned only if the key was missing at some instant of the
\* call, and a GCS request is denied only if the margin has passed since its
\* token was acquired or the endpoint hands out tokens shorter than it.
THEOREM ErrorsHaveReasons == Spec => [](NotFoundHonest /\ TokenOutlastsMargin)
  <1>1. RemoteInv => NotFoundHonest
    BY DEF RemoteInv, CallOK, Missed, NotFoundHonest, Asked
  <1>2. RemoteInv => TokenOutlastsMargin
    BY DEF RemoteInv, CallOK, Denied, TokenOutlastsMargin, Outlived
  <1>. QED BY <1>1, <1>2, RemoteInvariance, PTL
-----------------------------------------------------------------------------
(***************************************************************************)
(* Least members and ascending sequences.                                  *)
(***************************************************************************)
\* A non-empty set of numbers has a least one.
LEMMA LeastMember ==
    ASSUME NEW S \in SUBSET Nat, S # {}
    PROVE  Min(S) \in S /\ \A y \in S : Min(S) <= y
  <1> DEFINE R == {ss \in Nat \X Nat : ss[1] < ss[2]}
  <1>1. IsWellFoundedOn(R, Nat)
    BY NatLessThanWellFounded DEF OpToRel
  <1>2. PICK x \in S : \A y \in S : ~(<<y, x>> \in R)
    BY <1>1, WFMin
  <1>3. ASSUME NEW y \in S PROVE x <= y
    <2>1. x \in Nat /\ y \in Nat /\ ~(<<y, x>> \in R)
      BY <1>2
    <2>2. y < x => <<y, x>> \in R
      BY <2>1
    <2> HIDE DEF R
    <2>. QED BY <2>1, <2>2
  <1>. QED BY <1>3 DEF Min

\* A finite set of numbers can be sorted: the result ascends and is onto it.
LEMMA SortedFacts ==
    ASSUME NEW S \in SUBSET Nat, IsFiniteSet(S)
    PROVE  /\ Cardinality(S) \in Nat
           /\ Sorted(S) \in [1..Cardinality(S) -> S]
           /\ \A i, j \in 1..Cardinality(S) : i < j => Sorted(S)[i] < Sorted(S)[j]
           /\ \A x \in S : \E i \in 1..Cardinality(S) : Sorted(S)[i] = x
  <1> DEFINE n == Cardinality(S)
             Upto(x) == {y \in S : y <= x}
             rank == [x \in S |-> Cardinality(Upto(x))]
             q == [i \in 1..n |-> CHOOSE x \in S : rank[x] = i]
  <1>1. n \in Nat
    BY FS_CardinalityType
  <1>2. \A x \in S : IsFiniteSet(Upto(x)) /\ rank[x] \in 1..n
    <2>1. TAKE x \in S
    <2>2. IsFiniteSet(Upto(x)) /\ Cardinality(Upto(x)) <= n
      BY FS_Subset
    <2>3. Cardinality(Upto(x)) \in Nat /\ Upto(x) # {}
      BY <2>2, FS_CardinalityType
    <2>4. Cardinality(Upto(x)) # 0
      BY <2>2, <2>3, FS_EmptySet
    <2>. QED BY <1>1, <2>2, <2>3, <2>4
  <1>3. \A x, y \in S : x < y => rank[x] < rank[y]
    <2>1. TAKE x, y \in S
    <2>2. HAVE x < y
    <2>3. Upto(x) \subseteq Upto(y) /\ y \in Upto(y) /\ y \notin Upto(x)
      <3>1. \A z \in S : z \in Nat /\ (z <= x => z <= y)
        BY <2>2
      <3>2. x \in Nat /\ y \in Nat /\ y <= y /\ ~(y <= x)
        BY <2>2
      <3>. QED BY <3>1, <3>2
    <2>4. /\ Cardinality(Upto(x)) <= Cardinality(Upto(y))
          /\ Cardinality(Upto(x)) # Cardinality(Upto(y))
      BY <1>2, <2>3, FS_Subset
    <2>. QED BY <1>2, <2>4
  <1>4. rank \in Injection(S, 1..n)
    <2>1. \A x, y \in S : rank[x] = rank[y] => x = y
      <3>1. TAKE x, y \in S
      <3>2. x \in Nat /\ y \in Nat /\ rank[x] \in Nat /\ rank[y] \in Nat
        BY <1>1, <1>2
      <3>3. x < y \/ y < x \/ x = y
        BY <3>2
      <3> HIDE DEF rank
      <3>. QED BY <1>3, <3>2, <3>3
    <2>2. rank \in [S -> 1..n]
      BY <1>2
    <2>. QED BY <2>1, <2>2 DEF Injection, IsInjective
  <1> HIDE DEF rank
  <1>5. IsFiniteSet(1..n) /\ Cardinality(1..n) = n
    BY <1>1, FS_Interval
  <1>6. rank \in Surjection(S, 1..n)
    BY <1>4, <1>5, FS_Injection
  <1>7. \A i \in 1..n : q[i] \in S /\ rank[q[i]] = i
    BY <1>6 DEF Surjection
  <1>8. q \in [1..n -> S]
    BY <1>7
  <1> HIDE DEF q
  <1>9. \A i, j \in 1..n : i < j => q[i] < q[j]
    <2>1. TAKE i, j \in 1..n
    <2>2. HAVE i < j
    <2>3. q[i] \in Nat /\ q[j] \in Nat /\ rank[q[i]] = i /\ rank[q[j]] = j /\ q[i] \in S /\ q[j] \in S
      BY <1>7
    <2>4. ~(q[j] < q[i]) /\ q[i] # q[j]
      BY <1>1, <1>3, <2>2, <2>3
    <2>. QED BY <2>3, <2>4
  <1>10. /\ Sorted(S) \in [1..n -> S]
         /\ \A i, j \in 1..n : i < j => Sorted(S)[i] < Sorted(S)[j]
    BY <1>8, <1>9 DEF Sorted
  <1> DEFINE r == Sorted(S)
  <1>11. r \in Injection(1..n, S)
    <2>1. \A i, j \in 1..n : r[i] = r[j] => i = j
      <3>1. TAKE i, j \in 1..n
      <3>2. i \in Nat /\ j \in Nat /\ r[i] \in Nat /\ r[j] \in Nat
        <4>1. r[i] \in S /\ r[j] \in S
          BY <1>10
        <4>2. i \in Nat /\ j \in Nat
          BY <1>1
        <4> HIDE DEF r
        <4>. QED BY <4>1, <4>2
      <3>3. i < j \/ j < i \/ i = j
        BY <3>2
      <3>. QED BY <1>10, <3>2, <3>3
    <2>. QED BY <1>10, <2>1 DEF Injection, IsInjective
  <1>12. r \in Surjection(1..n, S)
    BY <1>5, <1>11, FS_Injection
  <1>. QED BY <1>1, <1>10, <1>12 DEF Surjection
-----------------------------------------------------------------------------
(***************************************************************************)
(* Listings put together from pages.  The markers of a listing's requests  *)
(* only grow, and between its requests out holds, in order, every key up   *)
(* to the marker that was there all along.                                 *)
(***************************************************************************)
InOrder(q) == q \in Seq(Name) /\ \A i, j \in DOMAIN q : i < j => Rank(q[i]) < Rank(q[j])
Within(q) == {q[i] : i \in DOMAIN q}

UpToMarker(s) ==
    /\ s.req.marker \in Nat
    /\ \A k \in Within(s.out) : Rank(k) <= s.req.marker
    /\ \A k \in s.always : Rank(k) <= s.req.marker => k \in Within(s.out)

\* A page on its way: it goes on where the request said, and leaves out no
\* key up to where the next one starts.
PageRight(s) ==
    LET a == s.answer
    IN  a.status = 200 =>
          /\ InOrder(a.body) /\ Within(a.body) \subseteq s.ever /\ a.more \in BOOLEAN
          /\ \A k \in Within(a.body) : Rank(k) > s.req.marker
          /\ \A k \in s.always :
                Rank(k) > s.req.marker /\ (a.more => Rank(k) <= a.marker) => k \in Within(a.body)
          /\ a.more =>
                /\ a.marker \in Nat /\ a.marker >= s.req.marker
                /\ \A k \in Within(a.body) : Rank(k) <= a.marker

AllListed(s) == s.always \subseteq Within(s.out) \/ (s.hollow /\ service = "gcs")

ListCall(s) ==
    s.op \in {"list", "list_meta"} =>
        /\ InOrder(s.out) /\ Within(s.out) \subseteq s.ever /\ s.always \subseteq Name
        /\ s.hollow \in BOOLEAN
        /\ s.req.kind = "LIST" /\ s.phase # "idle" => UpToMarker(s) /\ PageRight(s)
        /\ s.res = "ok" \/ s.req.kind = "HEAD" => AllListed(s)

PagesInv == \A c \in Client : ListCall(client[c])
-----------------------------------------------------------------------------
(***************************************************************************)
(* What the requests carry, what the service keeps and the handle.         *)
(***************************************************************************)
Part == PartNumber \X Payload

ReqOK(q) ==
    /\ q.kind = "PUT" => q.data \in Seq(Payload)
    /\ q.kind = "COPY" => q.src \in Name
    /\ q.kind = "PART" => q.data[1] \in Part /\ q.data = <<q.data[1]>>
    /\ q.kind = "COMPLETE" => q.data \in Seq(Part)

Counted(s) ==
    /\ s.tries \in Nat /\ s.tries <= max_attempts /\ ReqOK(s.req)
    /\ s.op = "create" /\ s.answer.status = 200 => s.answer.body \in UploadId

KeptOK ==
    /\ uploading \in BOOLEAN /\ max_attempts \in Nat
    /\ object \in [Name -> Seq(Payload) \cup {Missing}]
    /\ upload \in [UploadId -> [PartNumber -> Payload \cup {Missing}] \cup {Missing}]
    /\ handle \in [id : UploadId \cup {0}, parts : Seq(Part)]
    /\ \A c \in Client : Counted(client[c])
    /\ \A m \in net : m.try \in 0..max_attempts /\ ReqOK(m.req)
-----------------------------------------------------------------------------
(***************************************************************************)
(* Uploads in parts.  One call at a time is under way, and as long as      *)
(* nothing is given up or refused the only request on its way is that      *)
(* call's.                                                                 *)
(***************************************************************************)
Message(m) == m \in [from : {m.from}, try : {m.try}, call : {m.call}, req : {m.req}]

\* A part number that is used once.
Single(parts, i) == \A j \in DOMAIN parts : j # i => parts[j][1] # parts[i][1]
Unusable(parts) == parts = <<>> \/ \E i, j \in DOMAIN parts : i # j /\ parts[i][1] = parts[j][1]

\* A part with this number has been stored and is not yet in the handle.
Arrived(n) ==
    \E c \in Client : /\ client[c].op = "part" /\ client[c].phase = "wait"
                      /\ client[c].answer # NoAnswer /\ client[c].req.data[1][1] = n

HandleKept ==
    handle # NoHandle =>
        /\ handle.id \in UploadId /\ upload[handle.id] # Missing
        /\ \A i \in DOMAIN handle.parts :
              Single(handle.parts, i) /\ ~Arrived(handle.parts[i][1]) =>
                  upload[handle.id][handle.parts[i][1]] = handle.parts[i][2]

UploadCall(s) ==
    LET answered == s.phase = "wait" /\ s.answer # NoAnswer
        q == s.req
    IN  /\ s.op = "create" /\ s.phase = "wait" /\ s.answer.status = 200 => upload[s.answer.body] # Missing
        /\ s.op = "part" /\ s.phase # "idle" => handle # NoHandle /\ q.id = handle.id
        /\ s.op = "part" /\ answered =>
              s.answer.status = 200 /\ upload[q.id][q.data[1][1]] = q.data[1][2]
        /\ s.op \in {"complete", "abort"} /\ s.phase # "idle" => handle = NoHandle
        /\ s.op = "complete" /\ s.phase # "idle" /\ ~answered =>
              upload[q.id] # Missing /\ (Unusable(q.data) \/ Acceptable(q.id, q.data))
        /\ s.op = "complete" /\ answered =>
              s.answer.status = 200 \/ (s.answer.status = 400 /\ Unusable(q.data))
        /\ s.op = "complete" /\ s.res = "multipart_error" => Unusable(q.data)

\* Who may be uploading.
UploadModes ==
    /\ uploading \in BOOLEAN /\ faults \in Nat /\ (handle # NoHandle => uploading)
    /\ uploading => service = "s3" /\ \A c, d \in Client : Busy(c) /\ Busy(d) => c = d
    /\ \A c \in Client : client[c].op \in Multipart => uploading
    /\ \A c \in Client : Busy(c) /\ uploading => client[c].op \in Multipart

NetAwaited == \A m \in net : Message(m) /\ Awaits(m.from, m)

UploadClean ==
    uploading /\ faults = 0 => NetAwaited /\ HandleKept /\ \A c \in Client : UploadCall(client[c])
-----------------------------------------------------------------------------
\* Rank is the position of a name.
LEMMA RankFacts ==
    /\ DOMAIN Names = 1..Len(Names) /\ Len(Names) \in Nat
    /\ \A k \in Name : Rank(k) \in 1..Len(Names) /\ Names[Rank(k)] = k
    /\ \A i \in 1..Len(Names) : Names[i] \in Name /\ Rank(Names[i]) = i
  <1>1. DOMAIN Names = 1..Len(Names) /\ Len(Names) \in Nat
    BY RemoteAssumption
  <1>2. ASSUME NEW k \in Name PROVE Rank(k) \in DOMAIN Names /\ Names[Rank(k)] = k
    <2>1. \E i \in DOMAIN Names : Names[i] = k
      BY DEF Name
    <2>. QED BY <2>1 DEF Rank
  <1>3. ASSUME NEW i \in DOMAIN Names PROVE Names[i] \in Name /\ Rank(Names[i]) = i
    <2>1. Names[i] \in Name
      BY DEF Name
    <2>2. Rank(Names[i]) \in DOMAIN Names /\ Names[Rank(Names[i])] = Names[i]
      BY <1>2, <2>1
    <2>. QED BY <2>1, <2>2, RemoteAssumption
  <1>. QED BY <1>1, <1>2, <1>3

\* The service's pages are in order and leave no key out.
LEMMA PagesFacts ==
    ASSUME NEW marker \in Nat, NEW a \in Pages(marker)
    PROVE  /\ a.status = 200 /\ InOrder(a.body) /\ Within(a.body) \subseteq There(object)
           /\ a.more \in BOOLEAN
           /\ \A k \in Within(a.body) : Rank(k) > marker
           /\ \A k \in There(object) :
                 Rank(k) > marker /\ (a.more => Rank(k) <= a.marker) => k \in Within(a.body)
           /\ a.more => /\ a.marker \in Nat /\ a.marker >= marker
                        /\ \A k \in Within(a.body) : Rank(k) <= a.marker
  <1> DEFINE S == {i \in DOMAIN Names : object[Names[i]] # Missing /\ i > marker}
             N == Cardinality(S)
             rest == Sorted(S)
  <1>0. DOMAIN Names = 1..Len(Names) /\ Len(Names) \in Nat
    BY RankFacts
  <1>1. IsFiniteSet(S) /\ S \in SUBSET Nat
    <2>1. IsFiniteSet(1..Len(Names))
      BY <1>0, FS_Interval
    <2>. QED BY <1>0, <2>1, FS_Subset
  <1>2. \A i \in S : i \in 1..Len(Names) /\ Names[i] \in There(object) /\ i > marker
    BY <1>0, RankFacts DEF There
  <1>3. \A k \in There(object) : Rank(k) > marker => Rank(k) \in S
    BY <1>0, RankFacts DEF There
  <1>4. PICK n \in {i \in 0..Len(rest) : i <= MaxPage} :
           a = [status |-> 200, body |-> [i \in 1..n |-> Names[rest[i]]],
                more |-> n < Len(rest), marker |-> IF n = Len(rest) THEN 0 ELSE rest[n + 1] - 1]
    BY DEF Pages
  <1> HIDE DEF S
  <1>5. /\ N \in Nat /\ rest \in [1..N -> S]
        /\ \A i, j \in 1..N : i < j => rest[i] < rest[j]
        /\ \A x \in S : \E i \in 1..N : rest[i] = x
    BY <1>1, SortedFacts
  <1> HIDE DEF N, rest
  <1>6. rest \in Seq(S) /\ Len(rest) = N
    BY <1>5
  <1>7. \A i \in 1..N : /\ rest[i] \in Nat /\ rest[i] \in 1..Len(Names) /\ rest[i] > marker
                        /\ Names[rest[i]] \in There(object) /\ Names[rest[i]] \in Name
                        /\ Rank(Names[rest[i]]) = rest[i]
    <2> TAKE i \in 1..N
    <2>1. rest[i] \in S
      BY <1>5
    <2>. QED BY <1>1, <1>2, <2>1, RankFacts DEF There
  <1>8. n \in 0..N
    BY <1>4, <1>5, <1>6
  <1>9. PICK body : body = [i \in 1..n |-> Names[rest[i]]]
    OBVIOUS
  <1>10. /\ a.status = 200 /\ a.body = body /\ a.more = (n < N) /\ a.more \in BOOLEAN
         /\ n # N => a.marker = rest[n + 1] - 1
    BY <1>4, <1>6, <1>9
  <1>11. /\ body \in [1..n -> Name] /\ DOMAIN body = 1..n
         /\ \A i \in 1..n : body[i] = Names[rest[i]] /\ Rank(body[i]) = rest[i] /\ body[i] \in There(object)
    <2>1. \A i \in 1..n : i \in 1..N
      BY <1>5, <1>8
    <2>2. \A i \in 1..n : body[i] = Names[rest[i]]
      BY <1>9
    <2>3. \A i \in 1..n : body[i] \in Name /\ Rank(body[i]) = rest[i] /\ body[i] \in There(object)
      BY <1>7, <2>1, <2>2, Zenon
    <2>. QED BY <1>9, <2>2, <2>3
  <1>12. InOrder(body)
    <2>1. body \in Seq(Name)
      BY <1>8, <1>11
    <2>. QED BY <1>5, <1>8, <1>11, <2>1 DEF InOrder
  <1>13. Within(body) \subseteq There(object) /\ \A k \in Within(body) : Rank(k) > marker
    <2>1. \A i \in 1..n : body[i] \in There(object) /\ Rank(body[i]) > marker
      BY <1>5, <1>7, <1>8, <1>11
    <2>. QED BY <1>11, <2>1 DEF Within
  <1>14. ASSUME NEW k \in There(object), Rank(k) > marker, n < N => Rank(k) < rest[n + 1]
         PROVE  k \in Within(body)
    <2>1. PICK i \in 1..N : rest[i] = Rank(k)
      BY <1>3, <1>5, <1>14
    <2>2. i \in 1..n
      <3>1. CASE n = N
        BY <3>1
      <3>2. CASE n < N
        <4>1. n + 1 \in 1..N /\ rest[n + 1] \in Nat /\ rest[i] \in Nat /\ rest[i] < rest[n + 1]
          BY <1>5, <1>7, <1>8, <1>14, <2>1, <3>2
        <4>2. ~(n + 1 < i) /\ n + 1 # i
          BY <1>5, <4>1
        <4>. QED BY <1>5, <1>8, <4>2
      <3>. QED BY <1>5, <1>8, <3>1, <3>2
    <2>3. Names[rest[i]] = k
      BY <2>1, RankFacts DEF There
    <2>. QED BY <1>11, <2>2, <2>3 DEF Within
  <1>15. n < N => /\ rest[n + 1] - 1 \in Nat /\ rest[n + 1] - 1 >= marker
                  /\ \A k \in Within(body) : Rank(k) <= rest[n + 1] - 1
    <2> SUFFICES ASSUME n < N
                 PROVE  /\ rest[n + 1] - 1 \in Nat /\ rest[n + 1] - 1 >= marker
                        /\ \A k \in Within(body) : Rank(k) <= rest[n + 1] - 1
      OBVIOUS
    <2>1. n + 1 \in 1..N /\ rest[n + 1] \in Nat /\ rest[n + 1] > marker
      BY <1>5, <1>7, <1>8
    <2>2. ASSUME NEW i \in 1..n PROVE Rank(body[i]) <= rest[n + 1] - 1
      <3>1. i \in 1..N /\ i < n + 1 /\ rest[i] \in Nat
        BY <1>5, <1>7, <1>8
      <3>. QED BY <1>5, <1>11, <2>1, <3>1
    <2>. QED BY <1>11, <2>1, <2>2 DEF Within
  <1>17. \A k \in There(object) : Rank(k) \in Nat
    BY RankFacts DEF There
  <1>18. \A k \in There(object) :
            Rank(k) > marker /\ (a.more => Rank(k) <= a.marker) => k \in Within(body)
    <2> TAKE k \in There(object)
    <2>1. (n < N => Rank(k) <= a.marker) => (n < N => Rank(k) < rest[n + 1])
      <3>1. n < N => n + 1 \in 1..N /\ rest[n + 1] \in Nat
        BY <1>5, <1>7, <1>8
      <3>. QED BY <1>8, <1>5, <1>10, <1>17, <3>1
    <2>2. a.more <=> n < N
      BY <1>10
    <2>. QED BY <1>14, <2>1, <2>2
  <1>19. a.more => n < N /\ a.marker = rest[n + 1] - 1
    <2>1. a.more <=> n < N
      BY <1>10
    <2>2. n < N => n # N
      BY <1>5, <1>8
    <2>. QED BY <1>10, <2>1, <2>2
  <1>20. a.more => /\ a.marker \in Nat /\ a.marker >= marker
                   /\ \A k \in Within(body) : Rank(k) <= a.marker
    BY <1>15, <1>19
  <1>21. a.body = body /\ a.status = 200 /\ a.more \in BOOLEAN
    BY <1>10
  <1>22. InOrder(a.body) /\ Within(a.body) = Within(body)
    BY <1>12, <1>21
  <1>. QED BY <1>13, <1>18, <1>20, <1>21, <1>22

\* A page is put after the pages before it.
LEMMA Concatenated ==
    ASSUME NEW p, NEW q, InOrder(p), InOrder(q), NEW marker \in Nat,
           \A k \in Within(p) : Rank(k) <= marker, \A k \in Within(q) : Rank(k) > marker
    PROVE  InOrder(p \o q) /\ Within(p \o q) = Within(p) \cup Within(q)
  <1>1. /\ p \in Seq(Name) /\ q \in Seq(Name) /\ p \o q \in Seq(Name)
        /\ Len(p) \in Nat /\ Len(q) \in Nat /\ Len(p \o q) = Len(p) + Len(q)
        /\ DOMAIN p = 1..Len(p) /\ DOMAIN q = 1..Len(q) /\ DOMAIN (p \o q) = 1..(Len(p) + Len(q))
    BY DEF InOrder
  <1>2. /\ \A i \in 1..Len(p) : (p \o q)[i] = p[i]
        /\ \A i \in 1..Len(q) : Len(p) + i \in 1..(Len(p) + Len(q)) /\ (p \o q)[Len(p) + i] = q[i]
    BY <1>1
  <1>3. PICK r : r = p \o q
    OBVIOUS
  <1>4. \A i \in 1..(Len(p) + Len(q)) : \/ i \in 1..Len(p) /\ r[i] = p[i]
                                        \/ i - Len(p) \in 1..Len(q) /\ r[i] = q[i - Len(p)]
    <2> TAKE i \in 1..(Len(p) + Len(q))
    <2>1. CASE i \in 1..Len(p)
      BY <1>2, <1>3, <2>1
    <2>2. CASE i \notin 1..Len(p)
      <3>1. i - Len(p) \in 1..Len(q) /\ Len(p) + (i - Len(p)) = i
        BY <1>1, <2>2
      <3>2. (p \o q)[Len(p) + (i - Len(p))] = q[i - Len(p)]
        BY <1>2, <3>1
      <3>. QED BY <1>3, <3>1, <3>2
    <2>. QED BY <2>1, <2>2
  <1>5. /\ \A i \in 1..Len(p) : p[i] \in Name /\ Rank(p[i]) \in Nat /\ Rank(p[i]) <= marker
        /\ \A i \in 1..Len(q) : q[i] \in Name /\ Rank(q[i]) \in Nat /\ Rank(q[i]) > marker
    <2>1. /\ \A i \in 1..Len(p) : p[i] \in Name /\ p[i] \in Within(p)
          /\ \A i \in 1..Len(q) : q[i] \in Name /\ q[i] \in Within(q)
      BY <1>1 DEF Within
    <2>2. \A k \in Name : Rank(k) \in Nat
      BY RankFacts
    <2>. QED BY <2>1, <2>2
  <1>6. InOrder(r)
    <2>1. r \in Seq(Name) /\ DOMAIN r = 1..(Len(p) + Len(q))
      BY <1>1, <1>3
    <2>2. ASSUME NEW i \in 1..(Len(p) + Len(q)), NEW j \in 1..(Len(p) + Len(q)), i < j
          PROVE  Rank(r[i]) < Rank(r[j])
      <3>1. CASE j \in 1..Len(p) /\ r[j] = p[j]
        <4>1. i \in 1..Len(p)
          BY <1>1, <2>2, <3>1
        <4>2. r[i] = p[i]
          BY <1>2, <1>3, <4>1
        <4>. QED BY <1>1, <2>2, <3>1, <4>1, <4>2 DEF InOrder
      <3>2. CASE j - Len(p) \in 1..Len(q) /\ r[j] = q[j - Len(p)]
        <4>1. CASE i \in 1..Len(p) /\ r[i] = p[i]
          BY <1>5, <3>2, <4>1
        <4>2. CASE i - Len(p) \in 1..Len(q) /\ r[i] = q[i - Len(p)]
          <5>1. i - Len(p) < j - Len(p)
            BY <1>1, <2>2
          <5>. QED BY <1>1, <3>2, <4>2, <5>1 DEF InOrder
        <4>. QED BY <1>4, <4>1, <4>2
      <3>. QED BY <1>4, <3>1, <3>2
    <2>. QED BY <2>1, <2>2 DEF InOrder
  <1>7. Within(r) = Within(p) \cup Within(q)
    <2>1. ASSUME NEW k \in Within(r) PROVE k \in Within(p) \cup Within(q)
      <3>1. PICK i \in 1..(Len(p) + Len(q)) : k = r[i]
        BY <1>1, <1>3 DEF Within
      <3>. QED BY <1>1, <1>4, <3>1 DEF Within
    <2>2. ASSUME NEW i \in 1..Len(p) PROVE p[i] \in Within(r)
      <3>1. i \in 1..(Len(p) + Len(q)) /\ r[i] = p[i]
        BY <1>1, <1>2, <1>3
      <3>. QED BY <1>1, <1>3, <3>1 DEF Within
    <2>3. ASSUME NEW i \in 1..Len(q) PROVE q[i] \in Within(r)
      BY <1>1, <1>2, <1>3 DEF Within
    <2>. QED BY <1>1, <2>1, <2>2, <2>3 DEF Within
  <1>. QED BY <1>3, <1>6, <1>7

\* What a listing has gathered survives what happens around it.
LEMMA PagesKept ==
    ASSUME NEW s, NEW r, ListCall(s), r.op = s.op, r.req = s.req, r.out = s.out, r.hollow = s.hollow,
           s.ever \subseteq r.ever, r.always \subseteq s.always,
           r.phase # "idle" => s.phase # "idle",
           r.answer = s.answer \/ r.answer.status # 200 \/ s.req.kind # "LIST", r.res = s.res \/ r.res # "ok"
    PROVE  ListCall(r)
  <1> SUFFICES ASSUME r.op \in {"list", "list_meta"} PROVE ListCall(r)
    BY DEF ListCall
  <1>1. /\ InOrder(r.out) /\ Within(r.out) \subseteq r.ever /\ r.always \subseteq Name
        /\ r.hollow \in BOOLEAN
    BY DEF ListCall
  <1>2. ASSUME r.req.kind = "LIST", r.phase # "idle" PROVE UpToMarker(r) /\ PageRight(r)
    <2>1. UpToMarker(s) /\ PageRight(s)
      BY <1>2 DEF ListCall
    <2>2. UpToMarker(r)
      BY <2>1 DEF UpToMarker
    <2>3. CASE r.answer.status # 200
      BY <2>2, <2>3 DEF PageRight
    <2>4. CASE r.answer = s.answer /\ s.answer.status = 200
      BY <2>1, <2>2, <2>4 DEF PageRight
    <2>. QED BY <1>2, <2>3, <2>4
  <1>3. ASSUME r.res = "ok" \/ r.req.kind = "HEAD" PROVE AllListed(r)
    <2>1. AllListed(s)
      BY <1>3 DEF ListCall
    <2>. QED BY <2>1 DEF AllListed
  <1>. QED BY <1>1, <1>2, <1>3 DEF ListCall

\* A listing whose pages have all come.
Gathered(x) ==
    /\ Shape(x) /\ InOrder(x.out) /\ Within(x.out) \subseteq x.ever /\ x.always \subseteq Name
    /\ x.hollow \in BOOLEAN /\ AllListed(x)

\* It may end or look at its next key.
LEMMA GatheredFacts ==
    ASSUME NEW x, Gathered(x), NEW res
    PROVE  ListCall(Return(x, res)) /\ ListCall(HeadNext(x))
  <1>1. ASSUME NEW r, r.op = x.op, r.out = x.out, r.hollow = x.hollow, r.ever = x.ever,
               r.always = x.always, r.phase = "idle" \/ r.req.kind = "HEAD"
        PROVE  ListCall(r)
    <2>1. AllListed(r)
      BY <1>1 DEF Gathered, AllListed
    <2>. QED BY <1>1, <2>1 DEF Gathered, ListCall
  <1>2. ASSUME NEW v PROVE ListCall(Return(x, v))
    <2>1. PICK r : r = Return(x, v)
      OBVIOUS
    <2>2. /\ r.op = x.op /\ r.out = x.out /\ r.hollow = x.hollow /\ r.ever = x.ever
          /\ r.always = x.always /\ r.phase = "idle"
      BY <2>1 DEF Gathered, Shape, Return
    <2>3. ListCall(r)
      BY <1>1, <2>2
    <2>. QED BY <2>1, <2>3
  <1>3. ListCall(HeadNext(x))
    <2>1. CASE x.todo = <<>>
      BY <1>2, <2>1 DEF HeadNext
    <2>2. CASE x.todo # <<>>
      <3>1. PICK phase, q, r : /\ r = HeadNext(x) /\ r = Another(x, phase, q)
                               /\ q = Req("HEAD", Head(x.todo))
        BY <2>2 DEF HeadNext
      <3>2. q.kind = "HEAD"
        BY <3>1, Requests
      <3>3. /\ r.op = x.op /\ r.out = x.out /\ r.hollow = x.hollow /\ r.ever = x.ever
            /\ r.always = x.always /\ r.req = q
        BY <3>1 DEF Gathered, Shape, Another
      <3>4. ListCall(r)
        BY <1>1, <3>2, <3>3
      <3>. QED BY <3>1, <3>4
    <2>. QED BY <2>1, <2>2
  <1>. QED BY <1>2, <1>3

\* A page is received.
LEMMA PageGathered ==
    ASSUME NEW s, Shape(s), ReqShape(s.req), ListCall(s), s.op \in {"list", "list_meta"},
           s.req.kind = "LIST", s.phase = "wait", s.res = "none", s.answer.status = 200,
           service \in {"s3", "gcs", "azure"}
    PROVE  ListCall(PageReceived(s))
  <1> DEFINE a == s.answer
             last == CASE service = "s3" -> parse_list_objects_v2_page(a)
                       [] service = "gcs" -> parse_list_page(a)
                       [] service = "azure" -> parse_list_response(a)
  <1>1. PICK got : got = [s EXCEPT !.out = @ \o a.body, !.hollow = @ \/ (a.body = <<>> /\ a.more)]
    OBVIOUS
  <1>2. PageReceived(s) = IF ~last THEN Another(got, "send", [s.req EXCEPT !.marker = a.marker])
                          ELSE IF s.op = "list" THEN Return(got, "ok")
                          ELSE HeadNext([got EXCEPT !.todo = got.out])
    BY <1>1 DEF PageReceived
  <1>3. UpToMarker(s) /\ PageRight(s) /\ InOrder(s.out) /\ s.always \subseteq Name
        /\ Within(s.out) \subseteq s.ever /\ s.hollow \in BOOLEAN
    BY DEF ListCall
  <1>4. /\ InOrder(a.body) /\ Within(a.body) \subseteq s.ever /\ a.more \in BOOLEAN
        /\ \A k \in Within(a.body) : Rank(k) > s.req.marker
        /\ \A k \in s.always :
              Rank(k) > s.req.marker /\ (a.more => Rank(k) <= a.marker) => k \in Within(a.body)
        /\ a.more =>
              /\ a.marker \in Nat /\ a.marker >= s.req.marker
              /\ \A k \in Within(a.body) : Rank(k) <= a.marker
    BY <1>3 DEF PageRight
  <1>5. /\ last \/ a.more
        /\ last => ~a.more \/ (a.more /\ a.body = <<>> /\ service = "gcs")
    BY <1>4 DEF parse_list_objects_v2_page, parse_list_page, parse_list_response
  <1>6. /\ Shape(got) /\ got.op = s.op /\ got.req = s.req /\ got.phase = s.phase /\ got.res = s.res
        /\ got.answer = s.answer /\ got.ever = s.ever /\ got.always = s.always
        /\ got.out = s.out \o a.body
    BY <1>1 DEF Shape
  <1>7. got.hollow = (s.hollow \/ (a.body = <<>> /\ a.more))
    BY <1>1 DEF Shape
  <1>8. got.hollow \in BOOLEAN /\ (a.body = <<>> /\ a.more => got.hollow = TRUE)
    BY <1>3, <1>4, <1>7
  <1> HIDE DEF last, a
  <1>9. s.req.marker \in Nat /\ \A k \in s.always : Rank(k) \in Nat
    BY <1>3, RankFacts DEF UpToMarker
  <1>10. InOrder(got.out) /\ Within(got.out) = Within(s.out) \cup Within(a.body)
    BY <1>3, <1>4, <1>6, <1>9, Concatenated DEF UpToMarker
  <1>11. Within(got.out) \subseteq got.ever /\ got.always \subseteq Name
    BY <1>3, <1>4, <1>6, <1>10
  <1>12. CASE ~last
    <2>1. a.more
      BY <1>5, <1>12
    <2>2. PICK q, r : /\ q = [s.req EXCEPT !.marker = a.marker] /\ r = Another(got, "send", q)
                      /\ r = PageReceived(s)
      BY <1>2, <1>12
    <2>3. q.kind = "LIST" /\ q.marker = a.marker
      BY <2>2 DEF ReqShape
    <2>4. /\ r.op = s.op /\ r.req = q /\ r.out = got.out /\ r.hollow = got.hollow /\ r.res = "none"
          /\ r.ever = s.ever /\ r.always = s.always /\ r.answer = NoAnswer
      BY <1>6, <2>2 DEF Shape, Another
    <2>5. UpToMarker(r)
      <3>1. r.req.marker = a.marker /\ a.marker \in Nat /\ a.marker >= s.req.marker
        BY <1>4, <2>1, <2>3, <2>4
      <3>2. ASSUME NEW k \in Within(r.out) PROVE Rank(k) <= a.marker
        <4>1. CASE k \in Within(a.body)
          BY <1>4, <2>1, <4>1
        <4>2. CASE k \in Within(s.out)
          <5>1. k \in Name /\ Rank(k) \in Nat /\ Rank(k) <= s.req.marker
            BY <1>3, <4>2, RankFacts DEF UpToMarker, InOrder, Within
          <5>. QED BY <1>9, <3>1, <5>1
        <4>. QED BY <1>10, <2>4, <4>1, <4>2
      <3>3. ASSUME NEW k \in r.always, Rank(k) <= a.marker PROVE k \in Within(r.out)
        <4>1. k \in s.always /\ Rank(k) \in Nat
          BY <1>9, <2>4
        <4>2. CASE Rank(k) <= s.req.marker
          <5>1. k \in Within(s.out)
            BY <1>3, <4>1, <4>2 DEF UpToMarker
          <5>. QED BY <1>10, <2>4, <5>1
        <4>3. CASE Rank(k) > s.req.marker
          <5>1. k \in Within(a.body)
            BY <1>4, <3>3, <4>1, <4>3
          <5>. QED BY <1>10, <2>4, <5>1
        <4>. QED BY <1>9, <4>1, <4>2, <4>3
      <3>. QED BY <3>1, <3>2, <3>3 DEF UpToMarker
    <2>6. PageRight(r)
      BY <2>4, AnswerFacts DEF PageRight
    <2>7. ListCall(r)
      BY <1>8, <1>10, <1>11, <1>6, <2>3, <2>4, <2>5, <2>6 DEF ListCall
    <2>. QED BY <2>2, <2>7
  <1>13. CASE last
    <2>1. AllListed(got)
      <3>1. CASE ~a.more
        <4>1. ASSUME NEW k \in s.always PROVE k \in Within(got.out)
          <5>1. CASE Rank(k) <= s.req.marker
            BY <1>3, <1>10, <5>1 DEF UpToMarker
          <5>2. CASE Rank(k) > s.req.marker
            BY <1>4, <1>10, <3>1, <5>2
          <5>. QED BY <1>9, <5>1, <5>2
        <4>. QED BY <1>6, <4>1 DEF AllListed
      <3>2. CASE a.more /\ a.body = <<>> /\ service = "gcs"
        BY <1>8, <3>2 DEF AllListed
      <3>. QED BY <1>5, <1>13, <3>1, <3>2
    <2>2. Gathered(got)
      BY <1>6, <1>8, <1>10, <1>11, <2>1 DEF Gathered
    <2>3. CASE s.op = "list"
      BY <1>2, <1>13, <2>2, <2>3, GatheredFacts
    <2>4. CASE s.op # "list"
      <3>1. PICK x : x = [got EXCEPT !.todo = got.out]
        OBVIOUS
      <3>2. /\ Shape(x) /\ x.op = got.op /\ x.out = got.out /\ x.hollow = got.hollow
            /\ x.ever = got.ever /\ x.always = got.always
        BY <1>6, <3>1 DEF Shape
      <3>3. Gathered(x)
        BY <2>2, <3>2 DEF Gathered, AllListed
      <3>4. ListCall(HeadNext(x))
        BY <3>3, GatheredFacts
      <3>. QED BY <1>2, <1>13, <2>4, <3>1, <3>4
    <2>. QED BY <2>3, <2>4
  <1>. QED BY <1>12, <1>13

\* A listing's answer is looked at.
LEMMA ListReceived ==
    ASSUME NEW s, Formed(s), ListCall(s), s.op \in {"list", "list_meta"}, s.phase = "wait",
           service \in {"s3", "gcs", "azure"}
    PROVE  ListCall(Received(s))
  <1>1. Shape(s) /\ ReqShape(s.req) /\ Match(s.op, s.req.kind) /\ s.res = "none"
    BY DEF Formed
  <1>2. s.req.kind = "LIST" \/ (s.op = "list_meta" /\ s.req.kind = "HEAD")
    BY <1>1 DEF Match
  <1>3. CASE s.req.kind = "LIST" /\ s.answer.status = 200
    <2>1. Received(s) = PageReceived(s)
      BY <1>3 DEF Received
    <2>. QED BY <1>1, <1>3, <2>1, PageGathered
  <1>4. CASE s.req.kind = "LIST" /\ s.answer.status # 200
    <2>1. PICK r : r = Return(s, Result(s)) /\ r = Received(s)
      BY <1>4 DEF Received
    <2>2. Result(s) # "ok"
      <3>1. Accepts(s.op) = {200}
        BY DEF Accepts, s3_accepts, gcs_accepts, azure_accepts
      <3>2. Result(s) \in {http_error_to_blob_error(s.answer.status, s.answer.body), "error"}
        BY <1>4, <3>1 DEF Result
      <3>. QED BY <3>2 DEF http_error_to_blob_error
    <2>3. /\ r.op = s.op /\ r.req = s.req /\ r.out = s.out /\ r.hollow = s.hollow
          /\ r.ever = s.ever /\ r.always = s.always /\ r.phase = "idle" /\ r.res # "ok"
          /\ r.answer = NoAnswer
      BY <1>1, <2>1, <2>2 DEF Shape, Return
    <2>4. ListCall(r)
      BY <2>3, PagesKept, AnswerFacts
    <2>. QED BY <2>1, <2>4
  <1>5. CASE s.op = "list_meta" /\ s.req.kind = "HEAD"
    <2>1. Received(s) = HeadReceived(s)
      BY <1>5 DEF Received
    <2>2. Gathered(s)
      BY <1>1, <1>5 DEF Gathered, ListCall
    <2>3. PICK x : x = [s EXCEPT !.todo = Tail(@)]
      OBVIOUS
    <2>4. /\ Shape(x) /\ x.op = s.op /\ x.out = s.out /\ x.hollow = s.hollow
          /\ x.ever = s.ever /\ x.always = s.always
      BY <1>1, <2>3 DEF Shape
    <2>5. Gathered(x)
      BY <2>2, <2>4 DEF Gathered, AllListed
    <2>6. ListCall(HeadNext(x)) /\ ListCall(Return(s, Result(s)))
      BY <2>2, <2>5, GatheredFacts
    <2>. QED BY <2>1, <2>3, <2>6 DEF HeadReceived
  <1>. QED BY <1>2, <1>3, <1>4, <1>5
-----------------------------------------------------------------------------
(***************************************************************************)
(* The steps, as the invariants to come need them.                         *)
(***************************************************************************)
\* What the steps of a call leave of the listing it is making.
SameList(s, r) ==
    /\ r.op = s.op /\ r.id = s.id /\ r.req = s.req /\ r.out = s.out /\ r.hollow = s.hollow
    /\ r.ever = s.ever /\ r.always = s.always

\* A call begins.
LEMMA Begun ==
    ASSUME RemoteInv, NEW c \in Client, NEW op, NEW req, BeginCall(c, op, req)
    PROVE  LET r == client'[c]
           IN  /\ \A d \in Client \ {c} : client'[d] = client[d]
               /\ ~Busy(c) /\ r.op = op /\ r.req = req /\ r.res = "none" /\ r.answer = NoAnswer
               /\ r.phase \in {"token", "send"} /\ r.tries = 0 /\ r.out = <<>> /\ r.hollow = FALSE
               /\ r.ever = Watched(req) \cap There(object)
               /\ r.always = Watched(req) \cap There(object)
  <1> DEFINE r == [NoCall EXCEPT !.op = op, !.id = calls + 1, !.req = req,
                                 !.phase = IF service = "gcs" THEN "token" ELSE "send",
                                 !.absent = Watched(req) \ There(object),
                                 !.ever = Watched(req) \cap There(object),
                                 !.always = Watched(req) \cap There(object)]
  <1>1. client' = [client EXCEPT ![c] = r] /\ ~Busy(c)
    BY DEF BeginCall
  <1>2. /\ r.op = op /\ r.req = req /\ r.res = "none" /\ r.answer = NoAnswer
        /\ r.phase \in {"token", "send"} /\ r.tries = 0 /\ r.out = <<>> /\ r.hollow = FALSE
        /\ r.ever = Watched(req) \cap There(object)
        /\ r.always = Watched(req) \cap There(object)
    BY DEF NoCall
  <1> HIDE DEF r
  <1>3. client'[c] = r /\ \A d \in Client \ {c} : client'[d] = client[d]
    BY <1>1 DEF RemoteInv, RemoteTypes
  <1>. QED BY <1>1, <1>2, <1>3

\* The next attempt leaves the listing, and the end of the last one too.
LEMMA Resent ==
    ASSUME NEW s, Shape(s)
    PROVE  LET r == Resend(s)
           IN  /\ SameList(s, r) /\ r.tries = s.tries /\ r.answer = NoAnswer
               /\ \/ r.phase = "send" /\ r.res = s.res
                  \/ r.phase = "idle" /\ r.res \in {"retry_exhausted", "error"}
  <1>1. CASE s.tries < max_attempts
    <2>1. Resend(s) = [s EXCEPT !.phase = "send", !.answer = NoAnswer]
      BY <1>1 DEF Resend
    <2>. QED BY <2>1 DEF Shape, SameList
  <1>2. CASE ~(s.tries < max_attempts)
    <2>1. PICK e \in {"retry_exhausted", "error"} :
             Resend(s) = [s EXCEPT !.phase = "idle", !.answer = NoAnswer, !.res = e]
      BY <1>2 DEF Resend
    <2>. QED BY <2>1 DEF Shape, SameList
  <1>. QED BY <1>1, <1>2

\* The call of c goes on without an answer having been looked at.
Moves(c) ==
    LET s == client[c]
        r == client'[c]
    IN  /\ \A d \in Client \ {c} : client'[d] = client[d]
        /\ Busy(c) /\ SameList(s, r) /\ r.answer = NoAnswer /\ s.res = "none"
        /\ \/ /\ net' = net /\ r.tries = s.tries
              /\ \/ r.phase = "send" /\ r.res = "none"
                 \/ r.phase = "idle" /\ r.res \in {"retry_exhausted", "error"}
           \/ /\ r.phase = "wait" /\ r.res = "none" /\ s.phase = "send"
              /\ s.tries < max_attempts /\ r.tries = s.tries + 1
              /\ net' = net \cup {[from |-> c, try |-> s.tries, call |-> s.id, req |-> s.req]}

\* It acquires a token, sends an attempt or gives one up.
LEMMA Moved ==
    ASSUME RemoteInv, NEW c \in Client,
           acquire_token(c) \/ acquire_token_fails(c) \/ send_once(c) \/ TransportError(c)
    PROVE  Moves(c)
  <1>1. PICK s : s = client[c]
    OBVIOUS
  <1>2. /\ Shape(s) /\ DOMAIN client = Client /\ client = [d \in Client |-> client[d]]
        /\ s.phase # "idle" => s.res = "none"
        /\ s.phase # "wait" => s.answer = NoAnswer
    BY <1>1 DEF RemoteInv, RemoteTypes, CallOK, Formed
  <1>3. ASSUME NEW r, client' = [client EXCEPT ![c] = r], s.phase # "idle", SameList(s, r),
               r.answer = NoAnswer,
               \/ /\ net' = net /\ r.tries = s.tries
                  /\ \/ r.phase = "send" /\ r.res = "none"
                     \/ r.phase = "idle" /\ r.res \in {"retry_exhausted", "error"}
               \/ /\ r.phase = "wait" /\ r.res = "none" /\ s.phase = "send"
                  /\ s.tries < max_attempts /\ r.tries = s.tries + 1
                  /\ net' = net \cup {[from |-> c, try |-> s.tries, call |-> s.id, req |-> s.req]}
        PROVE  Moves(c)
    <2>1. client'[c] = r /\ \A d \in Client \ {c} : client'[d] = client[d]
      BY <1>2, <1>3
    <2>. QED BY <1>1, <1>2, <1>3, <2>1 DEF Moves, Busy
  <1>4. CASE acquire_token_fails(c)
    <2>1. PICK r : r = [s EXCEPT !.phase = "idle", !.res = "error"]
      OBVIOUS
    <2>2. client' = [client EXCEPT ![c] = r] /\ net' = net /\ s.phase = "token"
      BY <1>1, <1>2, <1>4, <2>1 DEF acquire_token_fails
    <2>3. SameList(s, r) /\ r.answer = s.answer /\ r.tries = s.tries /\ r.phase = "idle" /\ r.res = "error"
      BY <1>2, <2>1 DEF Shape, SameList
    <2>. QED BY <1>2, <1>3, <2>2, <2>3
  <1>5. CASE acquire_token(c)
    <2>0. PICK life \in TokenLife :
             \E lasts, brief :
               /\ lasts = IF Lasts(token) THEN token ELSE clock + life
               /\ brief = (~Lasts(token) /\ life <= Margin)
               /\ client' = [client EXCEPT ![c].phase = "send", ![c].lasts = lasts,
                                           ![c].since = clock, ![c].brief = brief]
      BY <1>5 DEF acquire_token
    <2>1. PICK lasts, since, brief :
             client' = [client EXCEPT ![c].phase = "send", ![c].lasts = lasts,
                                      ![c].since = since, ![c].brief = brief]
      BY <2>0, Zenon
    <2>2. PICK r : r = [s EXCEPT !.phase = "send", !.lasts = lasts, !.since = since, !.brief = brief]
      OBVIOUS
    <2>3. client' = [client EXCEPT ![c] = r] /\ net' = net /\ s.phase = "token"
      <3>1. client' = [client EXCEPT ![c] = r]
        BY <1>1, <1>2, <2>1, <2>2
      <3>2. net' = net /\ s.phase = "token"
        BY <1>1, <1>5 DEF acquire_token
      <3>. QED BY <3>1, <3>2
    <2>4. SameList(s, r) /\ r.answer = s.answer /\ r.tries = s.tries /\ r.phase = "send" /\ r.res = s.res
      BY <1>2, <2>2 DEF Shape, SameList
    <2>. QED BY <1>2, <1>3, <2>3, <2>4
  <1>6. ASSUME client' = [client EXCEPT ![c] = Resend(s)], net' = net, s.phase # "idle" PROVE Moves(c)
    <2>1. PICK r : r = Resend(s)
      OBVIOUS
    <2>2. /\ SameList(s, r) /\ r.tries = s.tries /\ r.answer = NoAnswer
          /\ \/ r.phase = "send" /\ r.res = s.res
             \/ r.phase = "idle" /\ r.res \in {"retry_exhausted", "error"}
      BY <1>2, <2>1, Resent
    <2>. QED BY <1>2, <1>3, <1>6, <2>1, <2>2
  <1>7. CASE TransportError(c)
    BY <1>1, <1>6, <1>7 DEF TransportError
  <1>8. CASE send_once(c) /\ ~(s.tries < max_attempts)
    BY <1>1, <1>6, <1>8 DEF send_once
  <1>9. CASE send_once(c) /\ s.tries < max_attempts
    <2>1. PICK n : n = s.tries + 1
      OBVIOUS
    <2>2. PICK r : r = [s EXCEPT !.phase = "wait", !.tries = n]
      OBVIOUS
    <2>3. client' = [client EXCEPT ![c].phase = "wait", ![c].tries = client[c].tries + 1]
      BY <1>1, <1>9 DEF send_once
    <2>4. /\ client' = [client EXCEPT ![c] = r] /\ s.phase = "send"
          /\ net' = net \cup {[from |-> c, try |-> s.tries, call |-> s.id, req |-> s.req]}
      BY <1>1, <1>2, <1>9, <2>1, <2>2, <2>3 DEF send_once
    <2>5. SameList(s, r) /\ r.answer = s.answer /\ r.tries = n /\ r.phase = "wait" /\ r.res = s.res
      BY <1>2, <2>2 DEF Shape, SameList
    <2>. QED BY <1>2, <1>3, <1>9, <2>1, <2>4, <2>5
  <1>. QED BY <1>4, <1>5, <1>7, <1>8, <1>9

\* A request is served: what a call notices.
LEMMA ServedList ==
    ASSUME RemoteInv, NEW m, NEW objects, NEW up, NEW a, Served(m, objects, up, a),
           NEW d \in Client, NEW s, s = client[d], NEW r, r = client'[d]
    PROVE  /\ r.op = s.op /\ r.id = s.id /\ r.req = s.req /\ r.out = s.out /\ r.hollow = s.hollow
           /\ r.phase = s.phase /\ r.res = s.res /\ r.tries = s.tries
           /\ s.ever \subseteq r.ever /\ r.always \subseteq s.always
           /\ r.answer = IF Awaits(d, m) THEN a ELSE s.answer
           /\ Busy(d) => Watched(s.req) \cap There(objects) \subseteq r.ever /\ r.always \subseteq There(objects)
  <1>1. Shape(s)
    BY DEF RemoteInv, CallOK, Formed
  <1> DEFINE x == IF Awaits(d, m) THEN [s EXCEPT !.answer = a] ELSE s
             y == [x EXCEPT !.dirty = IF Writes(m.req) /\ m.call # x.id
                                      THEN @ \cup {m.req.key} ELSE @,
                            !.absent = @ \cup (Watched(x.req) \ There(objects)),
                            !.ever = @ \cup (Watched(x.req) \cap There(objects)),
                            !.always = @ \cap There(objects)]
  <1>2. r = IF ~Busy(d) THEN x ELSE y
    BY DEF Served
  <1>3. /\ Shape(x) /\ x.op = s.op /\ x.id = s.id /\ x.req = s.req /\ x.phase = s.phase
        /\ x.out = s.out /\ x.hollow = s.hollow /\ x.res = s.res /\ x.tries = s.tries
        /\ x.answer = (IF Awaits(d, m) THEN a ELSE s.answer)
        /\ x.ever = s.ever /\ x.always = s.always
    BY <1>1 DEF Shape
  <1> HIDE DEF x
  <1>4. /\ y.op = x.op /\ y.id = x.id /\ y.req = x.req /\ y.phase = x.phase
        /\ y.out = x.out /\ y.hollow = x.hollow /\ y.res = x.res /\ y.tries = x.tries
        /\ y.answer = x.answer
        /\ y.ever = x.ever \cup (Watched(x.req) \cap There(objects))
        /\ y.always = x.always \cap There(objects)
    BY <1>3 DEF Shape
  <1> HIDE DEF y
  <1>5. CASE ~Busy(d)
    BY <1>2, <1>3, <1>5
  <1>6. CASE Busy(d)
    BY <1>2, <1>3, <1>4, <1>6
  <1>. QED BY <1>5, <1>6

\* A request is refused: what a call notices.
LEMMA RefusedList ==
    ASSUME RemoteInv, NEW m \in net, Refuse(m)
    PROVE  \E a \in Refusals(m.req) : \A d \in Client :
               /\ SameList(client[d], client'[d])
               /\ client'[d].phase = client[d].phase /\ client'[d].res = client[d].res
               /\ client'[d].tries = client[d].tries
               /\ client'[d].answer = IF Awaits(d, m) THEN a ELSE client[d].answer
  <1>1. PICK a \in Refusals(m.req) :
           client' = [c \in Client |->
                         IF Awaits(c, m) THEN [client[c] EXCEPT !.answer = a] ELSE client[c]]
    BY DEF Refuse
  <1>2. ASSUME NEW d \in Client
        PROVE  /\ SameList(client[d], client'[d])
               /\ client'[d].phase = client[d].phase /\ client'[d].res = client[d].res
               /\ client'[d].tries = client[d].tries
               /\ client'[d].answer = IF Awaits(d, m) THEN a ELSE client[d].answer
    <2>1. PICK s, r : s = client[d] /\ r = client'[d]
      OBVIOUS
    <2>2. Shape(s)
      BY <2>1 DEF RemoteInv, CallOK, Formed
    <2>3. r = IF Awaits(d, m) THEN [s EXCEPT !.answer = a] ELSE s
      BY <1>1, <2>1
    <2>4. /\ SameList(s, r) /\ r.phase = s.phase /\ r.res = s.res /\ r.tries = s.tries
          /\ r.answer = IF Awaits(d, m) THEN a ELSE s.answer
      BY <2>2, <2>3 DEF Shape, SameList
    <2>. QED BY <2>1, <2>4
  <1>. QED BY <1>2
-----------------------------------------------------------------------------
\* A listing begins with nothing gathered.
LEMMA ListBegun ==
    ASSUME RemoteInv, PagesInv, service' = service, NEW c \in Client, NEW op, NEW req,
           BeginCall(c, op, req), op \in {"list", "list_meta"} => req = Req("LIST", Missing)
    PROVE  PagesInv'
  <1>1. PICK r : r = client'[c]
    OBVIOUS
  <1>2. /\ \A d \in Client \ {c} : client'[d] = client[d]
        /\ r.op = op /\ r.req = req /\ r.res = "none" /\ r.answer = NoAnswer
        /\ r.out = <<>> /\ r.hollow = FALSE
        /\ r.always = Watched(req) \cap There(object)
    BY <1>1, Begun
  <1>3. ListCall(r)
    <2> SUFFICES ASSUME op \in {"list", "list_meta"} PROVE ListCall(r)
      BY <1>2 DEF ListCall
    <2>1. req.kind = "LIST" /\ req.marker = 0
      BY DEF Req, NoReq
    <2>2. r.always \subseteq Name
      BY <1>2 DEF There
    <2>3. InOrder(r.out) /\ Within(r.out) = {}
      BY <1>2 DEF InOrder, Within
    <2>4. UpToMarker(r)
      BY <1>2, <2>1, <2>2, <2>3, RankFacts DEF UpToMarker
    <2>5. PageRight(r)
      BY <1>2, AnswerFacts DEF PageRight
    <2>. QED BY <1>2, <2>1, <2>2, <2>3, <2>4, <2>5 DEF ListCall
  <1>4. \A d \in Client : ListCall(client'[d])
    BY <1>1, <1>2, <1>3 DEF PagesInv
  <1>. QED BY <1>4 DEF PagesInv, ListCall, UpToMarker, PageRight, AllListed

\* A page is answered.
LEMMA PageServed ==
    ASSUME RemoteInv, PagesInv, NEW m, NEW a \in Pages(m.req.marker),
           Served(m, object, upload, a), m.req.kind = "LIST",
           NEW d \in Client, Awaits(d, m), NEW s, s = client[d], NEW r, r = client'[d]
    PROVE  ListCall(r)
  <1>1. s.req = m.req /\ s.phase = "wait" /\ Busy(d)
    BY DEF Awaits, Busy
  <1>2. s.op \in {"list", "list_meta"}
    BY <1>1 DEF RemoteInv, CallOK, Formed, Match
  <1>3. /\ r.op = s.op /\ r.id = s.id /\ r.req = s.req /\ r.out = s.out /\ r.hollow = s.hollow
        /\ r.phase = s.phase /\ r.res = s.res
        /\ s.ever \subseteq r.ever /\ r.always \subseteq s.always /\ r.answer = a
        /\ Watched(s.req) \cap There(object) \subseteq r.ever /\ r.always \subseteq There(object)
    BY <1>1, ServedList
  <1>4. /\ ListCall(s) /\ UpToMarker(s) /\ s.req.marker \in Nat
    BY <1>1, <1>2 DEF PagesInv, ListCall, UpToMarker
  <1>5. There(object) \subseteq r.ever
    BY <1>1, <1>3 DEF Watched, There
  <1>6. /\ a.status = 200 /\ InOrder(a.body) /\ Within(a.body) \subseteq There(object)
        /\ a.more \in BOOLEAN
        /\ \A k \in Within(a.body) : Rank(k) > m.req.marker
        /\ \A k \in There(object) :
              Rank(k) > m.req.marker /\ (a.more => Rank(k) <= a.marker) => k \in Within(a.body)
        /\ a.more => /\ a.marker \in Nat /\ a.marker >= m.req.marker
                     /\ \A k \in Within(a.body) : Rank(k) <= a.marker
    BY <1>1, <1>4, PagesFacts
  <1>7. PageRight(r)
    BY <1>1, <1>3, <1>5, <1>6 DEF PageRight
  <1>8. UpToMarker(r)
    BY <1>3, <1>4 DEF UpToMarker
  <1>9. s.res = "none"
    BY <1>1 DEF RemoteInv, CallOK, Formed
  <1>. QED BY <1>1, <1>2, <1>3, <1>4, <1>7, <1>8, <1>9 DEF ListCall

\* A request is served.
LEMMA ListServed ==
    ASSUME RemoteInv, PagesInv, NEW m \in net, Serve(m), NEW d \in Client
    PROVE  ListCall(client'[d])
  <1>1. PICK s, r : s = client[d] /\ r = client'[d]
    OBVIOUS
  <1>2. ListCall(s)
    BY <1>1 DEF PagesInv
  <1>3. ASSUME NEW objects, NEW up, NEW a, Served(m, objects, up, a),
               Awaits(d, m) => a.status # 200 \/ s.req.kind # "LIST"
        PROVE  ListCall(r)
    <2>1. /\ r.op = s.op /\ r.id = s.id /\ r.req = s.req /\ r.out = s.out /\ r.hollow = s.hollow
          /\ r.phase = s.phase /\ r.res = s.res
          /\ s.ever \subseteq r.ever /\ r.always \subseteq s.always
          /\ r.answer = IF Awaits(d, m) THEN a ELSE s.answer
      BY <1>1, <1>3, ServedList
    <2>2. r.answer = s.answer \/ r.answer.status # 200 \/ s.req.kind # "LIST"
      BY <1>3, <2>1
    <2>. QED BY <1>2, <2>1, <2>2, PagesKept
  <1>4. CASE m.req.kind # "LIST"
    <2>1. RemoteTypes /\ m.req.kind \in Kinds
      BY DEF RemoteInv, NetOK
    <2>2. PICK objects, up, a : Served(m, objects, up, a)
      BY <2>1, ServeFacts
    <2>3. Awaits(d, m) => s.req.kind # "LIST"
      BY <1>1, <1>4 DEF Awaits
    <2>. QED BY <1>1, <1>3, <2>2, <2>3
  <1>5. CASE m.req.kind = "LIST" /\ Expired(m.from)
    <2>1. Served(m, object, upload, Answer(401, <<>>))
      BY <1>5 DEF Serve
    <2>. QED BY <1>1, <1>3, <2>1, AnswerFacts
  <1>6. CASE m.req.kind = "LIST" /\ ~Expired(m.from)
    <2>1. PICK a \in Pages(m.req.marker) : Served(m, object, upload, a)
      BY <1>6 DEF Serve
    <2>2. CASE Awaits(d, m)
      BY <1>1, <1>6, <2>1, <2>2, PageServed
    <2>3. CASE ~Awaits(d, m)
      BY <1>1, <1>3, <2>1, <2>3
    <2>. QED BY <2>2, <2>3
  <1>. QED BY <1>4, <1>5, <1>6

\* An answer is looked at: the call goes on, or makes another attempt.
LEMMA ListLooked ==
    ASSUME RemoteInv, PagesInv, NEW c \in Client, Receive(c), NEW d \in Client
    PROVE  ListCall(client'[d])
  <1>1. PICK s : s = client[c]
    OBVIOUS
  <1>2. /\ s.phase = "wait" /\ Formed(s) /\ Shape(s) /\ service \in {"s3", "gcs", "azure"}
        /\ Match(s.op, s.req.kind) /\ ReqShape(s.req)
        /\ DOMAIN client = Client /\ client = [e \in Client |-> client[e]] /\ ListCall(s)
    BY <1>1 DEF Receive, RemoteInv, RemoteTypes, CallOK, Formed, PagesInv
  <1>3. PICK r : client' = [client EXCEPT ![c] = r] /\ (r = Resend(s) \/ r = Received(s))
    BY <1>1 DEF Receive
  <1>4. client'[d] = IF d = c THEN r ELSE client[d]
    BY <1>2, <1>3
  <1>5. ListCall(r)
    <2>1. CASE r = Resend(s)
      <3>1. /\ SameList(s, r) /\ r.answer = NoAnswer
            /\ \/ r.phase = "send" /\ r.res = s.res
               \/ r.phase = "idle" /\ r.res \in {"retry_exhausted", "error"}
        BY <1>2, <2>1, Resent
      <3>2. r.answer.status # 200 /\ (r.res = s.res \/ r.res # "ok") /\ s.phase # "idle"
        BY <1>2, <3>1, AnswerFacts
      <3>. QED BY <1>2, <3>1, <3>2, PagesKept DEF SameList
    <2>2. CASE r = Received(s) /\ s.op \in {"list", "list_meta"}
      BY <1>2, <2>2, ListReceived
    <2>3. CASE r = Received(s) /\ s.op \notin {"list", "list_meta"}
      <3>1. r.op = s.op
        BY <1>2, <2>3, ReceivedFacts DEF Advances, Kept
      <3>. QED BY <2>3, <3>1 DEF ListCall
    <2>. QED BY <1>3, <2>1, <2>2, <2>3
  <1>. QED BY <1>4, <1>5 DEF PagesInv

\* What the clients gathered when none of them begins a call.
LEMMA ListMoves ==
    ASSUME RemoteInv, PagesInv, NEW c \in Client, Moves(c), NEW d \in Client
    PROVE  ListCall(client'[d])
  <1>1. PICK s, r : s = client[c] /\ r = client'[c]
    OBVIOUS
  <1>2. /\ \A e \in Client \ {c} : client'[e] = client[e]
        /\ Busy(c) /\ SameList(s, r) /\ r.answer = NoAnswer /\ s.res = "none"
        /\ r.res \in {"none", "retry_exhausted", "error"}
    BY <1>1 DEF Moves
  <1>3. s.phase # "idle" /\ ListCall(s) /\ r.answer.status # 200 /\ r.res # "ok"
    BY <1>1, <1>2, AnswerFacts DEF Busy, PagesInv
  <1>4. ListCall(r)
    BY <1>2, <1>3, PagesKept DEF SameList
  <1>. QED BY <1>1, <1>2, <1>4 DEF PagesInv

\* A refusal is no page.
LEMMA ListRefused ==
    ASSUME RemoteInv, PagesInv, NEW m \in net, Refuse(m), NEW d \in Client
    PROVE  ListCall(client'[d])
  <1>1. PICK s, r : s = client[d] /\ r = client'[d]
    OBVIOUS
  <1>2. PICK a \in Refusals(m.req) :
           /\ SameList(s, r) /\ r.phase = s.phase /\ r.res = s.res
           /\ r.answer = IF Awaits(d, m) THEN a ELSE s.answer
    BY <1>1, RefusedList
  <1>3. s.op \in {"list", "list_meta"} => r.answer = s.answer \/ r.answer.status # 200
    <2>1. Match(s.op, s.req.kind) /\ (Awaits(d, m) => s.req = m.req)
      BY <1>1 DEF RemoteInv, CallOK, Formed, Awaits
    <2>. QED BY <1>2, <2>1, RefusalFacts DEF Match
  <1>4. ListCall(s)
    BY <1>1 DEF PagesInv
  <1>5. ListCall(r)
    <2>1. CASE s.op \in {"list", "list_meta"}
      BY <1>2, <1>3, <1>4, <2>1, PagesKept DEF SameList
    <2>2. CASE s.op \notin {"list", "list_meta"}
      BY <1>2, <2>2 DEF ListCall, SameList
    <2>. QED BY <2>1, <2>2
  <1>. QED BY <1>1, <1>5
-----------------------------------------------------------------------------
(***************************************************************************)
(* The steps of the clients and the service, by what they do to a call.    *)
(***************************************************************************)
\* What the operations on objects ask for.
ObjectReq(op, req) ==
    /\ op \in {"put", "get", "delete", "head", "list", "list_meta", "copy"}
    /\ ReqShape(req) /\ Match(op, req.kind) /\ ReqOK(req)
    /\ op \in {"list", "list_meta"} => req = Req("LIST", Missing)

\* A call goes on without an answer; only an attempt given up is a fault.
Goes(c) ==
    /\ Moves(c) /\ UNCHANGED <<service, max_attempts, uploading, object, upload, handle>>
    /\ \/ client[c].phase = "wait" /\ faults' = faults + 1
       \/ client[c].phase # "wait" /\ faults' = faults

\* The operations on objects ask for nothing else.
LEMMA ObjectRequests ==
    ASSUME NEW c \in Client, NEW k \in Name,
           \/ \E v \in Payload : Put(c, k, v)
           \/ \E src \in Name : s3_copy(c, src, k)
           \/ Get(c, k) \/ Delete(c, k) \/ HeadOf(c, k) \/ List(c) \/ remote_list_meta(c)
    PROVE  \E op, req : Plain(c, op, req) /\ ObjectReq(op, req)
  <1>1. ASSUME NEW v \in Payload, Put(c, k, v) PROVE \E op, req : Plain(c, op, req) /\ ObjectReq(op, req)
    <2>1. PICK q : q = [Req("PUT", k) EXCEPT !.data = <<v>>]
      OBVIOUS
    <2>2. ReqShape(q) /\ q.kind = "PUT" /\ q.data = <<v>>
      BY <2>1 DEF Req, NoReq, ReqShape
    <2>3. <<v>> \in Seq(Payload)
      OBVIOUS
    <2>4. ObjectReq("put", q)
      BY <2>2, <2>3 DEF ObjectReq, Match, ReqOK
    <2>5. Plain(c, "put", q)
      BY <1>1, <2>1 DEF Put
    <2>. QED BY <2>4, <2>5
  <1>2. ASSUME NEW src \in Name, s3_copy(c, src, k)
        PROVE  \E op, req : Plain(c, op, req) /\ ObjectReq(op, req)
    <2>1. PICK q : q = [Req("COPY", k) EXCEPT !.src = src]
      OBVIOUS
    <2>2. ReqShape(q) /\ q.kind = "COPY" /\ q.src = src
      BY <2>1 DEF Req, NoReq, ReqShape
    <2>3. ObjectReq("copy", q)
      BY <2>2 DEF ObjectReq, Match, ReqOK
    <2>4. Plain(c, "copy", q)
      BY <1>2, <2>1 DEF s3_copy
    <2>. QED BY <2>3, <2>4
  <1>3. ASSUME NEW op, NEW kind, NEW key,
               <<op, kind>> \in {<<"get", "GET">>, <<"delete", "DELETE">>, <<"head", "HEAD">>},
               Plain(c, op, Req(kind, key))
        PROVE  \E o, req : Plain(c, o, req) /\ ObjectReq(o, req)
    <2>1. PICK q : q = Req(kind, key)
      OBVIOUS
    <2>2. ReqShape(q) /\ q.kind = kind
      BY <2>1, Requests
    <2>3. ObjectReq(op, q)
      BY <1>3, <2>2 DEF ObjectReq, Match, ReqOK
    <2>. QED BY <1>3, <2>1, <2>3
  <1>4. ASSUME NEW op \in {"list", "list_meta"}, Plain(c, op, Req("LIST", Missing))
        PROVE  \E o, req : Plain(c, o, req) /\ ObjectReq(o, req)
    <2>1. PICK q : q = Req("LIST", Missing)
      OBVIOUS
    <2>2. ReqShape(q) /\ q.kind = "LIST"
      BY <2>1, Requests
    <2>3. ObjectReq(op, q)
      BY <2>1, <2>2 DEF ObjectReq, Match, ReqOK
    <2>. QED BY <1>4, <2>1, <2>3
  <1>5. CASE Get(c, k) \/ Delete(c, k) \/ HeadOf(c, k)
    BY <1>3, <1>5 DEF Get, Delete, HeadOf
  <1>6. CASE List(c) \/ remote_list_meta(c)
    BY <1>4, <1>6 DEF List, remote_list_meta
  <1>. QED BY <1>1, <1>2, <1>5, <1>6

\* Every step is one of these.
LEMMA RemoteCases ==
    ASSUME RemoteInv, RemoteNext
    PROVE  \/ \E c \in Client : \E op, req : Plain(c, op, req) /\ ObjectReq(op, req)
           \/ \E c \in Client : create_multipart_upload(c) \/ complete(c) \/ abort(c)
           \/ \E c \in Client, n \in PartNumber, v \in Payload : upload_part(c, n, v)
           \/ \E c \in Client : Goes(c) \/ Receive(c)
           \/ \E m \in net : Serve(m) \/ Refuse(m)
           \/ Tick
  <1> DEFINE Starts == \E c \in Client : \E op, req : Plain(c, op, req) /\ ObjectReq(op, req)
  <1>1. ASSUME NEW c \in Client, NEW k \in Name,
               \/ s3_get(c, k) \/ s3_delete(c, k) \/ s3_head(c, k)
               \/ gcs_get(c, k) \/ gcs_delete(c, k) \/ gcs_head(c, k)
               \/ azure_get(c, k) \/ azure_delete(c, k) \/ azure_head(c, k)
               \/ \E v \in Payload : s3_put(c, k, v) \/ gcs_put(c, k, v) \/ azure_put(c, k, v)
               \/ \E src \in Name \ {k} : s3_copy(c, src, k)
        PROVE  Starts
    <2>1. \/ \E v \in Payload : Put(c, k, v)
          \/ \E src \in Name : s3_copy(c, src, k)
          \/ Get(c, k) \/ Delete(c, k) \/ HeadOf(c, k)
      BY <1>1 DEF s3_get, s3_delete, s3_head, gcs_get, gcs_delete, gcs_head, azure_get, azure_delete,
                  azure_head, s3_put, gcs_put, azure_put
    <2>. QED BY <2>1, ObjectRequests
  <1>2. ASSUME NEW c \in Client, s3_list(c) \/ gcs_list(c) \/ azure_list(c) \/ remote_list_meta(c)
        PROVE  Starts
    <2>1. \E op \in {"list", "list_meta"} : Plain(c, op, Req("LIST", Missing))
      BY <1>2 DEF s3_list, gcs_list, azure_list, List, remote_list_meta
    <2>2. ASSUME NEW op \in {"list", "list_meta"} PROVE ObjectReq(op, Req("LIST", Missing))
      <3>1. ReqShape(Req("LIST", Missing)) /\ Req("LIST", Missing).kind = "LIST"
        BY Requests
      <3>. QED BY <3>1 DEF ObjectReq, Match, ReqOK
    <2>. QED BY <2>1, <2>2
  <1>3. ASSUME NEW c \in Client,
               acquire_token(c) \/ acquire_token_fails(c) \/ send_once(c) \/ TransportError(c)
        PROVE  Goes(c)
    <2>1. Moves(c)
      BY <1>3, Moved
    <2>2. UNCHANGED <<service, max_attempts, uploading, object, upload, handle>>
      BY <1>3 DEF acquire_token, acquire_token_fails, send_once, TransportError, setup, serviceVars
    <2>3. \/ client[c].phase = "wait" /\ faults' = faults + 1
          \/ client[c].phase # "wait" /\ faults' = faults
      BY <1>3 DEF acquire_token, acquire_token_fails, send_once, TransportError
    <2>. QED BY <2>1, <2>2, <2>3 DEF Goes
  <1>. QED BY <1>1, <1>2, <1>3 DEF RemoteNext

\* Pages stay right in every step.
LEMMA PagesStep == RemoteInv /\ PagesInv /\ [RemoteNext]_remoteVars => PagesInv'
  <1> SUFFICES ASSUME RemoteInv, PagesInv, [RemoteNext]_remoteVars PROVE PagesInv'
    OBVIOUS
  <1>1. ASSUME service' = service, \A d \in Client : ListCall(client'[d]) PROVE PagesInv'
    BY <1>1 DEF PagesInv, ListCall, UpToMarker, PageRight, AllListed
  <1>2. ASSUME UNCHANGED <<service, client>> PROVE PagesInv'
    BY <1>1, <1>2 DEF PagesInv
  <1>3. CASE UNCHANGED remoteVars
    BY <1>2, <1>3 DEF remoteVars, setup
  <1>4. CASE Tick
    BY <1>2, <1>4 DEF Tick, setup
  <1>5. ASSUME NEW c \in Client, NEW op, NEW req, Plain(c, op, req), ObjectReq(op, req) PROVE PagesInv'
    <2>1. BeginCall(c, op, req) /\ service' = service
      BY <1>5 DEF Plain, BeginCall, setup
    <2>. QED BY <1>5, <2>1, ListBegun DEF ObjectReq
  <1>6. ASSUME NEW c \in Client, NEW op, NEW req, Uploading(c, op, req),
               op \in {"create", "part", "complete", "abort"}
        PROVE  PagesInv'
    <2>1. PICK q : BeginCall(c, op, q)
      BY <1>6 DEF Uploading
    <2>2. service' = service
      BY <2>1 DEF BeginCall, setup
    <2>. QED BY <1>6, <2>1, <2>2, ListBegun
  <1>7. ASSUME NEW c \in Client, create_multipart_upload(c) \/ complete(c) \/ abort(c) PROVE PagesInv'
    BY <1>6, <1>7 DEF create_multipart_upload, complete, abort
  <1>8. ASSUME NEW c \in Client, NEW n \in PartNumber, NEW v \in Payload, upload_part(c, n, v)
        PROVE  PagesInv'
    BY <1>6, <1>8 DEF upload_part
  <1>9. ASSUME NEW c \in Client, Goes(c) PROVE PagesInv'
    BY <1>1, <1>9, ListMoves DEF Goes
  <1>10. ASSUME NEW c \in Client, Receive(c) PROVE PagesInv'
    <2>1. service' = service
      BY <1>10 DEF Receive, setup
    <2>. QED BY <1>1, <1>10, <2>1, ListLooked
  <1>11. ASSUME NEW m \in net, Serve(m) PROVE PagesInv'
    <2>1. \A d \in Client : ListCall(client'[d])
      BY <1>11, ListServed
    <2>2. RemoteTypes /\ m.req.kind \in Kinds
      BY DEF RemoteInv, NetOK
    <2>3. service' = service
      BY <1>11, <2>2, ServeFacts DEF Served, setup
    <2>. QED BY <1>1, <2>1, <2>3
  <1>12. ASSUME NEW m \in net, Refuse(m) PROVE PagesInv'
    <2>1. service' = service
      BY <1>12 DEF Refuse, setup
    <2>. QED BY <1>1, <1>12, <2>1, ListRefused
  <1>13. CASE RemoteNext
    BY <1>4, <1>5, <1>7, <1>8, <1>9, <1>10, <1>11, <1>12, <1>13, RemoteCases
  <1>. QED BY <1>3, <1>13

\* What the listings of a service gather, in every state.
LEMMA PagesInductive == Spec => []PagesInv
  <1>1. Init => PagesInv
    <2>1. ListCall(NoCall)
      BY DEF ListCall, NoCall
    <2>. QED BY <2>1 DEF Init, RemoteInit, PagesInv
  <1>2. RemoteInv /\ PagesInv /\ [Next]_vars => PagesInv'
    BY PagesStep DEF Next, vars
  <1>. QED BY <1>1, <1>2, RemoteInvariance, PTL DEF Spec

\* PagesComplete is what the invariant says of calls that have returned.
LEMMA PagesCompleteFacts ==
    ASSUME PagesInv
    PROVE  PagesComplete
  <1> SUFFICES ASSUME NEW c \in Client, NEW s, s = client[c], s.op \in {"list", "list_meta"}, s.res = "ok"
               PROVE  /\ \A i, j \in DOMAIN s.out : i < j => Rank(s.out[i]) < Rank(s.out[j])
                      /\ Within(s.out) \subseteq s.ever
                      /\ s.always \subseteq Within(s.out) \/ (s.hollow /\ service = "gcs")
    BY DEF PagesComplete, Within
  <1>. QED BY DEF PagesInv, ListCall, InOrder, AllListed
-----------------------------------------------------------------------------
(***************************************************************************)
(* sort_by_key: the parts in another order, the numbers not descending.    *)
(***************************************************************************)
Permuted(parts, data) ==
    /\ data \in Seq(Part) /\ Len(data) = Len(parts)
    /\ \E g \in [1..Len(parts) -> 1..Len(parts)] :
          /\ \A p \in 1..Len(parts) : data[p] = parts[g[p]]
          /\ \A p, q \in 1..Len(parts) : g[p] = g[q] => p = q
          /\ \A i \in 1..Len(parts) : \E p \in 1..Len(parts) : g[p] = i
          /\ \A p, q \in 1..Len(parts) : p < q => data[p][1] <= data[q][1]

\* A stable sort by part number.
LEMMA SortFacts ==
    ASSUME NEW parts \in Seq(Part)
    PROVE  Permuted(parts, sort_by_key(parts))
  <1>0. PICK n : n = Len(parts)
    OBVIOUS
  <1> DEFINE num(i) == parts[i][1]
             LE(j, i) == num(j) < num(i) \/ (num(j) = num(i) /\ j <= i)
             Down(i) == {j \in 1..n : LE(j, i)}
             place == [i \in 1..n |-> Cardinality(Down(i))]
             g == [p \in 1..n |-> CHOOSE i \in 1..n : place[i] = p]
  <1>1. n \in Nat /\ DOMAIN parts = 1..n /\ \A i \in 1..n : parts[i] \in Part
    BY <1>0
  <1>2. \A i \in 1..n : num(i) \in Nat
    BY <1>1, RemoteAssumption DEF Part
  <1>3. IsFiniteSet(1..n) /\ Cardinality(1..n) = n
    BY <1>1, FS_Interval
  <1>4. \A i \in 1..n : Place(parts, i) = Cardinality(Down(i))
    BY <1>1 DEF Place
  <1> HIDE DEF num
  <1>5. \A i \in 1..n : IsFiniteSet(Down(i)) /\ Cardinality(Down(i)) \in 1..n
    <2>1. TAKE i \in 1..n
    <2>2. IsFiniteSet(Down(i)) /\ Cardinality(Down(i)) <= n
      BY <1>3, FS_Subset
    <2>3. i \in Down(i)
      BY <1>1, <1>2
    <2>4. Cardinality(Down(i)) \in Nat /\ Down(i) # {}
      BY <2>2, <2>3, FS_CardinalityType
    <2>5. Cardinality(Down(i)) # 0
      BY <2>2, <2>4, FS_EmptySet
    <2>. QED BY <1>1, <2>2, <2>4, <2>5
  <1>6. \A i, j \in 1..n : LE(i, j) \/ LE(j, i)
    BY <1>1, <1>2
  <1>7. ASSUME NEW i \in 1..n, NEW j \in 1..n, i # j, LE(i, j)
        PROVE  Cardinality(Down(i)) < Cardinality(Down(j))
    <2>1. Down(i) \subseteq Down(j)
      <3>1. ASSUME NEW x \in 1..n, LE(x, i) PROVE LE(x, j)
        BY <1>1, <1>2, <1>7, <3>1
      <3>. QED BY <3>1
    <2>2. ~LE(j, i) /\ LE(j, j)
      BY <1>1, <1>2, <1>7
    <2>3. j \in Down(j) /\ j \notin Down(i)
      BY <2>2
    <2> HIDE DEF Down
    <2>4. /\ Cardinality(Down(i)) <= Cardinality(Down(j))
          /\ Cardinality(Down(i)) # Cardinality(Down(j))
      BY <1>5, <2>1, <2>3, FS_Subset
    <2>. QED BY <1>1, <1>5, <2>4
  <1> HIDE DEF Down
  <1>8. \A i, j \in 1..n : i # j /\ LE(i, j) => place[i] < place[j]
    BY <1>7
  <1>9. place \in [1..n -> 1..n]
    BY <1>5
  <1> HIDE DEF place, LE
  <1>10. \A i, j \in 1..n : place[i] = place[j] => i = j
    <2> SUFFICES ASSUME NEW i \in 1..n, NEW j \in 1..n, place[i] = place[j], i # j PROVE FALSE
      OBVIOUS
    <2>1. place[i] < place[j] \/ place[j] < place[i]
      BY <1>6, <1>8
    <2>2. place[i] \in Nat /\ place[j] \in Nat
      BY <1>1, <1>9
    <2>. QED BY <2>1, <2>2
  <1>11. place \in Injection(1..n, 1..n)
    BY <1>9, <1>10 DEF Injection, IsInjective
  <1>12. place \in Surjection(1..n, 1..n)
    BY <1>3, <1>11, FS_Injection
  <1>13. \A p \in 1..n : g[p] \in 1..n /\ place[g[p]] = p
    BY <1>12 DEF Surjection
  <1>14. g \in [1..n -> 1..n]
    BY <1>13
  <1>15. \A i \in 1..n : Place(parts, i) = place[i]
    BY <1>4 DEF place
  <1>16. sort_by_key(parts) = [p \in 1..n |-> parts[g[p]]]
    <2>1. sort_by_key(parts) = [p \in 1..n |-> parts[CHOOSE i \in 1..n : Place(parts, i) = p]]
      BY <1>1 DEF sort_by_key
    <2>2. ASSUME NEW p \in 1..n
          PROVE  (CHOOSE i \in 1..n : Place(parts, i) = p) = (CHOOSE i \in 1..n : place[i] = p)
      <3>1. \A i \in 1..n : (Place(parts, i) = p) <=> (place[i] = p)
        BY <1>15
      <3>. QED BY <3>1
    <2>. QED BY <2>1, <2>2
  <1> HIDE DEF g
  <1>17. PICK data : data = sort_by_key(parts)
    OBVIOUS
  <1>18. data \in [1..n -> Part] /\ \A p \in 1..n : data[p] = parts[g[p]]
    BY <1>1, <1>13, <1>16, <1>17
  <1>19. data \in Seq(Part) /\ Len(data) = n
    BY <1>1, <1>18
  <1>20. \A p, q \in 1..n : g[p] = g[q] => p = q
    BY <1>13
  <1>21. \A i \in 1..n : g[place[i]] = i /\ place[i] \in 1..n
    BY <1>9, <1>10, <1>13
  <1>22. \A p, q \in 1..n : p < q => data[p][1] <= data[q][1]
    <2> SUFFICES ASSUME NEW p \in 1..n, NEW q \in 1..n, p < q PROVE data[p][1] <= data[q][1]
      OBVIOUS
    <2>1. g[p] \in 1..n /\ g[q] \in 1..n /\ g[p] # g[q] /\ ~(place[g[q]] < place[g[p]])
      BY <1>1, <1>13, <1>20
    <2>2. LE(g[p], g[q])
      BY <1>6, <1>8, <2>1
    <2>3. num(g[p]) <= num(g[q])
      BY <1>2, <2>1, <2>2 DEF LE
    <2>. QED BY <1>18, <2>3 DEF num
  <1>23. \E f \in [1..n -> 1..n] :
            /\ \A p \in 1..n : data[p] = parts[f[p]]
            /\ \A p, q \in 1..n : f[p] = f[q] => p = q
            /\ \A i \in 1..n : \E p \in 1..n : f[p] = i
            /\ \A p, q \in 1..n : p < q => data[p][1] <= data[q][1]
    <2>1. /\ \A p \in 1..n : data[p] = parts[g[p]]
          /\ \A p, q \in 1..n : g[p] = g[q] => p = q
          /\ \A i \in 1..n : \E p \in 1..n : g[p] = i
          /\ \A p, q \in 1..n : p < q => data[p][1] <= data[q][1]
      BY <1>14, <1>18, <1>20, <1>21, <1>22
    <2>. QED BY <1>14, <2>1, Zenon
  <1>24. Permuted(parts, data)
    <2>1. \E f \in [1..Len(parts) -> 1..Len(parts)] :
            /\ \A p \in 1..Len(parts) : data[p] = parts[f[p]]
            /\ \A p, q \in 1..Len(parts) : f[p] = f[q] => p = q
            /\ \A i \in 1..Len(parts) : \E p \in 1..Len(parts) : f[p] = i
            /\ \A p, q \in 1..Len(parts) : p < q => data[p][1] <= data[q][1]
      <3>1. PICK f \in [1..n -> 1..n] :
               /\ \A p \in 1..n : data[p] = parts[f[p]]
               /\ \A p, q \in 1..n : f[p] = f[q] => p = q
               /\ \A i \in 1..n : \E p \in 1..n : f[p] = i
               /\ \A p, q \in 1..n : p < q => data[p][1] <= data[q][1]
        BY <1>23
      <3>2. f \in [1..Len(parts) -> 1..Len(parts)]
        BY <1>0, <3>1
      <3>3. /\ \A p \in 1..Len(parts) : data[p] = parts[f[p]]
            /\ \A p, q \in 1..Len(parts) : f[p] = f[q] => p = q
        BY <1>0, <3>1
      <3>4. \A i \in 1..Len(parts) : \E p \in 1..Len(parts) : f[p] = i
        BY <1>0, <3>1
      <3>5. \A p, q \in 1..Len(parts) : p < q => data[p][1] <= data[q][1]
        BY <1>0, <3>1
      <3>. QED BY <3>2, <3>3, <3>4, <3>5, Zenon
    <2>2. data \in Seq(Part) /\ Len(data) = Len(parts)
      BY <1>0, <1>19
    <2>. QED BY <2>1, <2>2, Zenon DEF Permuted
  <1>. QED BY <1>17, <1>24
-----------------------------------------------------------------------------
(***************************************************************************)
(* The values the clients and the service work with keep their types.      *)
(***************************************************************************)
Objects == [Name -> Seq(Payload) \cup {Missing}]
Uploads == [UploadId -> [PartNumber -> Payload \cup {Missing}] \cup {Missing}]
Handles == [id : UploadId \cup {0}, parts : Seq(Part)]

\* A call begins.
LEMMA KeptBegun ==
    ASSUME RemoteInv, KeptOK, NEW c \in Client, NEW op, NEW req, BeginCall(c, op, req),
           ReqOK(req), handle' \in Handles
    PROVE  KeptOK'
  <1>1. UNCHANGED <<uploading, max_attempts, object, upload, net>>
    BY DEF BeginCall, setup, serviceVars
  <1>2. PICK r : r = client'[c]
    OBVIOUS
  <1>3. /\ \A d \in Client \ {c} : client'[d] = client[d]
        /\ r.req = req /\ r.answer = NoAnswer /\ r.tries = 0
    BY <1>2, Begun, ZenonT(20)
  <1>4. max_attempts \in Nat
    BY DEF KeptOK
  <1>5. Counted(r)
    BY <1>3, <1>4, AnswerFacts DEF Counted
  <1>6. \A d \in Client : Counted(client'[d])
    BY <1>2, <1>3, <1>5 DEF KeptOK
  <1>. QED BY <1>1, <1>6 DEF KeptOK, Counted, Handles

\* A call goes on.
LEMMA KeptGoes ==
    ASSUME RemoteInv, KeptOK, NEW c \in Client, Goes(c)
    PROVE  KeptOK'
  <1>1. UNCHANGED <<uploading, max_attempts, object, upload, handle>>
    BY DEF Goes
  <1>2. PICK s, r : s = client[c] /\ r = client'[c]
    OBVIOUS
  <1>3. /\ \A d \in Client \ {c} : client'[d] = client[d]
        /\ SameList(s, r) /\ r.answer = NoAnswer
        /\ \/ net' = net /\ r.tries = s.tries
           \/ /\ s.tries < max_attempts /\ r.tries = s.tries + 1
              /\ net' = net \cup {[from |-> c, try |-> s.tries, call |-> s.id, req |-> s.req]}
    BY <1>2 DEF Goes, Moves
  <1>4. Counted(s) /\ max_attempts \in Nat /\ s.tries \in Nat /\ s.tries <= max_attempts /\ ReqOK(s.req)
    BY <1>2 DEF KeptOK, Counted
  <1>5. r.tries \in Nat /\ r.tries <= max_attempts
    BY <1>3, <1>4
  <1>6. Counted(r)
    BY <1>3, <1>4, <1>5, AnswerFacts DEF Counted, SameList
  <1>7. \A d \in Client : Counted(client'[d])
    BY <1>2, <1>3, <1>6 DEF KeptOK
  <1>8. ASSUME NEW m \in net' PROVE m.try \in 0..max_attempts /\ ReqOK(m.req)
    <2>1. CASE m \in net
      BY <2>1 DEF KeptOK
    <2>2. CASE m = [from |-> c, try |-> s.tries, call |-> s.id, req |-> s.req]
      <3>1. m.try = s.tries /\ m.req = s.req
        BY <2>2
      <3>. QED BY <1>4, <3>1
    <2>. QED BY <1>3, <2>1, <2>2
  <1>. QED BY <1>1, <1>7, <1>8 DEF KeptOK, Counted

\* The attempts of a call that was answered: they start again with the next
\* request.
LEMMA ReceivedTries ==
    ASSUME NEW s, Shape(s)
    PROVE  Received(s).tries \in {s.tries, 0}
  <1>1. ASSUME NEW x, Shape(x), x.tries = s.tries, NEW v, NEW q
        PROVE  Return(x, v).tries = s.tries /\ Another(x, v, q).tries = 0
    BY <1>1 DEF Shape, Return, Another
  <1>2. ASSUME NEW x, Shape(x), x.tries = s.tries PROVE HeadNext(x).tries \in {s.tries, 0}
    BY <1>1, <1>2 DEF HeadNext
  <1>3. ASSUME NEW v, NEW w, NEW t
        PROVE  LET x == [s EXCEPT !.out = v, !.hollow = w]
                   y == [x EXCEPT !.todo = t]
               IN  Shape(x) /\ x.tries = s.tries /\ Shape(y) /\ y.tries = s.tries
    BY DEF Shape
  <1>4. ASSUME NEW v
        PROVE  LET x == [s EXCEPT !.out = v]
                   y == [s EXCEPT !.todo = v]
               IN  Shape(x) /\ x.tries = s.tries /\ Shape(y) /\ y.tries = s.tries
    BY DEF Shape
  <1>5. PageReceived(s).tries \in {s.tries, 0}
    <2> DEFINE a == s.answer
               last == CASE service = "s3" -> parse_list_objects_v2_page(a)
                         [] service = "gcs" -> parse_list_page(a)
                         [] service = "azure" -> parse_list_response(a)
    <2>1. PICK got : got = [s EXCEPT !.out = @ \o a.body, !.hollow = @ \/ (a.body = <<>> /\ a.more)]
      OBVIOUS
    <2>2. PICK x : x = [got EXCEPT !.todo = got.out]
      OBVIOUS
    <2>3. PageReceived(s) = IF ~last THEN Another(got, "send", [s.req EXCEPT !.marker = a.marker])
                            ELSE IF s.op = "list" THEN Return(got, "ok") ELSE HeadNext(x)
      BY <2>1, <2>2 DEF PageReceived
    <2>4. Shape(got) /\ got.tries = s.tries
      BY <1>3, <2>1
    <2>5. Shape(x) /\ x.tries = s.tries
      BY <2>2, <2>4 DEF Shape
    <2> HIDE DEF last, a
    <2>. QED BY <1>1, <1>2, <2>3, <2>4, <2>5
  <1>6. HeadReceived(s).tries \in {s.tries, 0}
    <2>1. PICK x : x = [s EXCEPT !.todo = Tail(@)]
      OBVIOUS
    <2>2. Shape(x) /\ x.tries = s.tries
      BY <2>1 DEF Shape
    <2>3. HeadNext(x).tries \in {s.tries, 0}
      BY <1>2, <2>2
    <2>4. Return(s, Result(s)).tries = s.tries
      BY <1>1
    <2>. QED BY <2>1, <2>3, <2>4 DEF HeadReceived
  <1>7. Return(s, Result(s)).tries = s.tries
    BY <1>1
  <1>8. Return([s EXCEPT !.out = s.answer.body], Result(s)).tries = s.tries
    <2>1. PICK x : x = [s EXCEPT !.out = s.answer.body]
      OBVIOUS
    <2>2. Shape(x) /\ x.tries = s.tries
      BY <1>4, <2>1
    <2>. QED BY <1>1, <2>1, <2>2
  <1>. QED BY <1>5, <1>6, <1>7, <1>8 DEF Received

\* The calls of an upload end with the answer.
LEMMA UploadReturns ==
    ASSUME NEW s, Shape(s), s.op \in Multipart, Match(s.op, s.req.kind),
           service \in {"s3", "gcs", "azure"}
    PROVE  LET r == Received(s)
           IN  /\ r.op = s.op /\ r.req = s.req /\ r.phase = "idle" /\ r.answer = NoAnswer
               /\ r.res = Result(s) /\ r.res \in {"ok", "multipart_error"}
               /\ s.op \in {"create", "complete"} => (r.res = "ok" <=> s.answer.status = 200)
               /\ s.op = "part" /\ s.answer.status = 200 => r.res = "ok"
  <1>1. Received(s) = Return(s, Result(s))
    BY DEF Received, Multipart, Match
  <1>2. s.op \in {"create", "complete"} => Accepts(s.op) = {200}
    BY DEF Accepts, s3_accepts, gcs_accepts, azure_accepts
  <1>3. s.op = "part" => 200 \in Accepts(s.op)
    BY DEF Accepts, s3_accepts, gcs_accepts, azure_accepts
  <1>4. /\ s.answer.status \in Accepts(s.op) => Result(s) = "ok"
        /\ s.answer.status \notin Accepts(s.op) => Result(s) = "multipart_error"
    BY DEF Result, Multipart
  <1>5. LET r == Return(s, Result(s))
        IN  r.op = s.op /\ r.req = s.req /\ r.phase = "idle" /\ r.answer = NoAnswer /\ r.res = Result(s)
    BY DEF Return, Shape
  <1>6. PICK r : r = Received(s)
    OBVIOUS
  <1>7. r.op = s.op /\ r.req = s.req /\ r.phase = "idle" /\ r.answer = NoAnswer /\ r.res = Result(s)
    BY <1>1, <1>5, <1>6
  <1>. QED BY <1>2, <1>3, <1>4, <1>6, <1>7

\* An answer is looked at.
LEMMA KeptReceived ==
    ASSUME RemoteInv, KeptOK, NEW c \in Client, Receive(c)
    PROVE  KeptOK'
  <1>1. PICK s : s = client[c]
    OBVIOUS
  <1>2. /\ UNCHANGED <<uploading, max_attempts, object, upload, net>>
        /\ s.phase = "wait"
    BY <1>1 DEF Receive, setup, serviceVars
  <1>3. /\ Shape(s) /\ ReqShape(s.req) /\ Match(s.op, s.req.kind) /\ s.res = "none"
        /\ service \in {"s3", "gcs", "azure"} /\ DOMAIN client = Client
        /\ client = [d \in Client |-> client[d]]
    BY <1>1, <1>2 DEF RemoteInv, RemoteTypes, CallOK, Formed
  <1>4. PICK r : /\ client' = [client EXCEPT ![c] = r] /\ (r = Resend(s) \/ r = Received(s))
                 /\ handle' = CASE r.res = "ok" /\ s.op = "create" -> [id |-> s.answer.body, parts |-> <<>>]
                                [] r.res = "ok" /\ s.op = "part" ->
                                     [handle EXCEPT !.parts = Append(@, s.req.data[1])]
                                [] OTHER -> handle
    BY <1>1 DEF Receive
  <1>5. client'[c] = r /\ \A d \in Client \ {c} : client'[d] = client[d]
    BY <1>3, <1>4
  <1>6. /\ Counted(s) /\ max_attempts \in Nat /\ s.tries \in Nat /\ s.tries <= max_attempts
        /\ ReqOK(s.req) /\ (s.op = "create" /\ s.answer.status = 200 => s.answer.body \in UploadId)
        /\ handle \in Handles
    BY <1>1 DEF KeptOK, Counted, Handles
  <1>7. r.op = s.op /\ r.answer = NoAnswer /\ r.tries \in {s.tries, 0} /\ ReqOK(r.req)
    <2>1. CASE r = Resend(s)
      BY <1>3, <1>6, <2>1, Resent DEF SameList
    <2>2. CASE r = Received(s)
      <3>1. Advances(s, r)
        BY <1>3, <2>2, ReceivedFacts
      <3>2. r.tries \in {s.tries, 0}
        BY <1>3, <2>2, ReceivedTries
      <3>3. CASE r.req = s.req
        BY <1>6, <3>1, <3>2, <3>3 DEF Advances, Kept
      <3>4. CASE s.op \in {"list", "list_meta"} /\ Match(s.op, r.req.kind)
        BY <3>1, <3>2, <3>4 DEF Advances, Kept, Match, ReqOK
      <3>. QED BY <3>1, <3>3, <3>4 DEF Advances
    <2>. QED BY <1>4, <2>1, <2>2
  <1>8. Counted(r)
    <2>1. r.tries \in Nat /\ r.tries <= max_attempts
      BY <1>6, <1>7
    <2>. QED BY <1>7, <2>1, AnswerFacts DEF Counted
  <1>9. \A d \in Client : Counted(client'[d])
    BY <1>5, <1>8 DEF KeptOK
  <1>10. handle' \in Handles
    <2>1. CASE r.res = "ok" /\ s.op = "create"
      <3>1. r = Received(s)
        BY <1>3, <1>4, <2>1, Resent
      <3>2. s.answer.status = 200
        BY <1>3, <2>1, <3>1, UploadReturns DEF Multipart
      <3>3. s.answer.body \in UploadId /\ <<>> \in Seq(Part)
        BY <1>6, <2>1, <3>2
      <3>4. handle' = [id |-> s.answer.body, parts |-> <<>>]
        BY <1>4, <2>1
      <3>. QED BY <3>3, <3>4 DEF Handles
    <2>2. CASE r.res = "ok" /\ s.op = "part"
      <3>1. s.req.data[1] \in Part
        BY <1>3, <1>6, <2>2 DEF ReqOK, Match
      <3>2. handle' = [handle EXCEPT !.parts = Append(@, s.req.data[1])]
        BY <1>4, <2>2
      <3>3. Append(handle.parts, s.req.data[1]) \in Seq(Part)
        BY <1>6, <3>1 DEF Handles
      <3>. QED BY <1>6, <3>2, <3>3 DEF Handles
    <2>3. CASE ~(r.res = "ok" /\ s.op \in {"create", "part"})
      BY <1>4, <1>6, <2>3
    <2>. QED BY <2>1, <2>2, <2>3
  <1>. QED BY <1>2, <1>9, <1>10 DEF KeptOK, Counted, Handles

\* The service keeps objects and parts of the clients' payloads.
LEMMA ServeTypes ==
    ASSUME KeptOK, NEW m \in net, m.req.kind \in Kinds, Serve(m)
    PROVE  \E objects \in Objects, up \in Uploads : \E a :
              /\ Served(m, objects, up, a)
              /\ m.req.kind = "CREATE" /\ a.status = 200 => a.body \in UploadId
  <1> DEFINE q == m.req
             k == q.key
             Goal == \E objects \in Objects, up \in Uploads : \E a :
                        /\ Served(m, objects, up, a)
                        /\ m.req.kind = "CREATE" /\ a.status = 200 => a.body \in UploadId
  <1>1. object \in Objects /\ upload \in Uploads /\ ReqOK(q)
    BY DEF KeptOK, Objects, Uploads
  <1>2. \A v \in Seq(Payload) \cup {Missing} : [object EXCEPT ![k] = v] \in Objects
    BY <1>1 DEF Objects
  <1>3. CASE Expired(m.from)
    <2>1. Served(m, object, upload, Answer(401, <<>>))
      BY <1>3 DEF Serve
    <2>2. Answer(401, <<>>).status # 200
      BY AnswerFacts
    <2>. QED BY <1>1, <2>1, <2>2
  <1>4. CASE ~Expired(m.from) /\ q.kind = "PUT"
    <2>1. \E a : Served(m, [object EXCEPT ![k] = q.data], upload, a)
      BY <1>4 DEF Serve
    <2>2. [object EXCEPT ![k] = q.data] \in Objects
      BY <1>1, <1>2, <1>4 DEF ReqOK
    <2>. QED BY <1>1, <1>4, <2>1, <2>2
  <1>5. CASE ~Expired(m.from) /\ q.kind \in {"GET", "HEAD", "LIST"}
    <2>1. \E a : Served(m, object, upload, a)
      <3>1. CASE q.kind = "GET"
        BY <1>5, <3>1 DEF Serve
      <3>2. CASE q.kind = "HEAD"
        BY <1>5, <3>2 DEF Serve
      <3>3. CASE q.kind = "LIST"
        BY <1>5, <3>3 DEF Serve
      <3>. QED BY <1>5, <3>1, <3>2, <3>3
    <2>. QED BY <1>1, <1>5, <2>1
  <1>6. CASE ~Expired(m.from) /\ q.kind = "DELETE"
    <2>1. \E a : Served(m, [object EXCEPT ![k] = Missing], upload, a)
      BY <1>6 DEF Serve
    <2>2. [object EXCEPT ![k] = Missing] \in Objects
      BY <1>2
    <2>. QED BY <1>1, <1>6, <2>1, <2>2
  <1>7. CASE ~Expired(m.from) /\ q.kind = "COPY"
    <2>1. \E a : \/ Served(m, object, upload, a)
                 \/ Served(m, [object EXCEPT ![k] = object[q.src]], upload, a)
      BY <1>7 DEF Serve
    <2>2. object[q.src] \in Seq(Payload) \cup {Missing}
      BY <1>1, <1>7 DEF ReqOK, Objects
    <2>3. [object EXCEPT ![k] = object[q.src]] \in Objects
      BY <1>2, <2>2
    <2>. QED BY <1>1, <1>7, <2>1, <2>3
  <1>8. CASE ~Expired(m.from) /\ q.kind = "CREATE"
    <2> DEFINE free == {x \in UploadId : upload[x] = Missing}
    <2>1. PICK u : u = Min(free)
      OBVIOUS
    <2>2. /\ free # {}
          /\ Served(m, object, [upload EXCEPT ![u] = [n \in PartNumber |-> Missing]], Answer(200, u))
      BY <1>8, <2>1 DEF Serve
    <2>3. u \in free
      <3>1. free \in SUBSET Nat
        BY RemoteAssumption
      <3> HIDE DEF free
      <3>. QED BY <2>1, <2>2, <3>1, LeastMember
    <2>4. [upload EXCEPT ![u] = [n \in PartNumber |-> Missing]] \in Uploads
      <3>1. [n \in PartNumber |-> Missing] \in [PartNumber -> Payload \cup {Missing}]
        OBVIOUS
      <3>. QED BY <1>1, <3>1 DEF Uploads
    <2>5. Answer(200, u).body = u
      BY DEF Answer, NoAnswer
    <2>. QED BY <1>1, <2>2, <2>3, <2>4, <2>5
  <1>9. CASE ~Expired(m.from) /\ q.kind \in {"PART", "COMPLETE", "ABORT"} /\ upload[q.id] = Missing
    <2>1. Served(m, object, upload, Answer(404, <<>>))
      <3>1. CASE q.kind = "PART"
        BY <1>9, <3>1 DEF Serve
      <3>2. CASE q.kind = "COMPLETE"
        BY <1>9, <3>2 DEF Serve
      <3>3. CASE q.kind = "ABORT"
        BY <1>9, <3>3 DEF Serve
      <3>. QED BY <1>9, <3>1, <3>2, <3>3
    <2>. QED BY <1>1, <1>9, <2>1
  <1>10. CASE ~Expired(m.from) /\ q.kind = "PART" /\ upload[q.id] # Missing
    <2>1. Served(m, object, [upload EXCEPT ![q.id][q.data[1][1]] = q.data[1][2]], Answer(200, <<>>))
      BY <1>10 DEF Serve
    <2>2. PICK n, v : n = q.data[1][1] /\ v = q.data[1][2]
      OBVIOUS
    <2>3. n \in PartNumber /\ v \in Payload
      BY <1>1, <1>10, <2>2 DEF ReqOK, Part
    <2>4. [upload EXCEPT ![q.id][n] = v] \in Uploads
      <3>1. CASE q.id \in UploadId
        <4>1. upload[q.id] \in [PartNumber -> Payload \cup {Missing}]
          BY <1>1, <1>10, <3>1 DEF Uploads
        <4>2. PICK f : f = [upload[q.id] EXCEPT ![n] = v]
          OBVIOUS
        <4>3. f \in [PartNumber -> Payload \cup {Missing}]
          BY <2>3, <4>1, <4>2
        <4>4. [upload EXCEPT ![q.id][n] = v] = [upload EXCEPT ![q.id] = f]
          BY <4>2
        <4>. QED BY <1>1, <4>3, <4>4 DEF Uploads
      <3>2. CASE q.id \notin UploadId
        <4>1. [upload EXCEPT ![q.id][n] = v] = upload
          BY <1>1, <3>2 DEF Uploads
        <4>. QED BY <1>1, <4>1
      <3>. QED BY <3>1, <3>2
    <2>. QED BY <1>1, <1>10, <2>1, <2>2, <2>4
  <1>11. CASE ~Expired(m.from) /\ q.kind = "COMPLETE" /\ upload[q.id] # Missing
    <2> DEFINE v == [i \in DOMAIN q.data |-> q.data[i][2]]
    <2>1. \E a : \/ Served(m, object, upload, a)
                 \/ Served(m, [object EXCEPT ![k] = v], [upload EXCEPT ![q.id] = Missing], a)
      BY <1>11 DEF Serve
    <2>2. v \in Seq(Payload)
      <3>1. q.data \in Seq(Part)
        BY <1>1, <1>11 DEF ReqOK
      <3>2. Len(q.data) \in Nat /\ v \in [1..Len(q.data) -> Payload]
        BY <3>1 DEF Part
      <3> HIDE DEF v
      <3>. QED BY <3>2
    <2> HIDE DEF v
    <2>3. [object EXCEPT ![k] = v] \in Objects
      BY <1>2, <2>2
    <2>4. [upload EXCEPT ![q.id] = Missing] \in Uploads
      BY <1>1 DEF Uploads
    <2>. QED BY <1>1, <1>11, <2>1, <2>3, <2>4
  <1>12. CASE ~Expired(m.from) /\ q.kind = "ABORT" /\ upload[q.id] # Missing
    <2>1. \E a : Served(m, object, [upload EXCEPT ![q.id] = Missing], a)
      BY <1>12 DEF Serve
    <2>2. [upload EXCEPT ![q.id] = Missing] \in Uploads
      BY <1>1 DEF Uploads
    <2>. QED BY <1>1, <1>12, <2>1, <2>2
  <1>. QED BY <1>3, <1>4, <1>5, <1>6, <1>7, <1>8, <1>9, <1>10, <1>11, <1>12 DEF Kinds

\* A request is served.
LEMMA KeptServed ==
    ASSUME RemoteInv, KeptOK, NEW m \in net, Serve(m)
    PROVE  KeptOK'
  <1>1. m.req.kind \in Kinds
    BY DEF RemoteInv, NetOK
  <1>0. PICK objects \in Objects, up \in Uploads :
           \E a : /\ Served(m, objects, up, a)
                  /\ m.req.kind = "CREATE" /\ a.status = 200 => a.body \in UploadId
    BY <1>1, ServeTypes
  <1>2. PICK a : /\ Served(m, objects, up, a)
                 /\ m.req.kind = "CREATE" /\ a.status = 200 => a.body \in UploadId
    BY <1>0
  <1>3. /\ object' = objects /\ upload' = up /\ net' \subseteq net
        /\ UNCHANGED <<uploading, max_attempts, handle>>
    BY <1>2 DEF Served, setup
  <1>4. ASSUME NEW d \in Client PROVE Counted(client'[d])
    <2>1. PICK s, r : s = client[d] /\ r = client'[d]
      OBVIOUS
    <2>2. /\ r.op = s.op /\ r.req = s.req /\ r.tries = s.tries
          /\ r.answer = IF Awaits(d, m) THEN a ELSE s.answer
      BY <1>2, <2>1, ServedList
    <2>3. Counted(s)
      BY <2>1 DEF KeptOK
    <2>4. Awaits(d, m) /\ s.op = "create" => m.req.kind = "CREATE"
      BY <2>1 DEF Awaits, RemoteInv, CallOK, Formed, Match
    <2>5. Counted(r)
      BY <1>2, <2>2, <2>3, <2>4 DEF Counted
    <2>. QED BY <2>1, <2>5
  <1>. QED BY <1>3, <1>4 DEF KeptOK, Counted, Objects, Uploads

\* A request is refused.
LEMMA KeptRefused ==
    ASSUME RemoteInv, KeptOK, NEW m \in net, Refuse(m)
    PROVE  KeptOK'
  <1>1. net' \subseteq net /\ UNCHANGED <<uploading, max_attempts, object, upload, handle>>
    BY DEF Refuse, setup, serviceVars
  <1>2. ASSUME NEW d \in Client PROVE Counted(client'[d])
    <2>1. PICK s, r : s = client[d] /\ r = client'[d]
      OBVIOUS
    <2>2. PICK a \in Refusals(m.req) :
             /\ SameList(s, r) /\ r.tries = s.tries
             /\ r.answer = IF Awaits(d, m) THEN a ELSE s.answer
      BY <2>1, RefusedList
    <2>3. Counted(s)
      BY <2>1 DEF KeptOK
    <2>4. s.op = "create" => r.answer = s.answer \/ r.answer.status # 200
      <3>1. Match(s.op, s.req.kind) /\ (Awaits(d, m) => s.req = m.req)
        BY <2>1 DEF RemoteInv, CallOK, Formed, Awaits
      <3>. QED BY <2>2, <3>1, RefusalFacts DEF Match
    <2>5. Counted(r)
      BY <2>2, <2>3, <2>4 DEF Counted, SameList
    <2>. QED BY <2>1, <2>5
  <1>. QED BY <1>1, <1>2 DEF KeptOK, Counted

\* The calls of an upload ask for what the handle holds.
LEMMA UploadRequests ==
    ASSUME NEW c \in Client, handle \in Handles
    PROVE  /\ create_multipart_upload(c) =>
                \E q : /\ BeginCall(c, "create", q) /\ ReqOK(q) /\ q.kind = "CREATE" /\ handle' = handle
                       /\ uploading /\ \A d \in Client : ~Busy(d)
           /\ abort(c) =>
                \E q : /\ BeginCall(c, "abort", q) /\ ReqOK(q) /\ q.kind = "ABORT" /\ handle' = NoHandle
                       /\ uploading /\ \A d \in Client : ~Busy(d)
           /\ complete(c) =>
                \E q : /\ BeginCall(c, "complete", q) /\ ReqOK(q) /\ q.kind = "COMPLETE"
                       /\ handle # NoHandle /\ handle' = NoHandle /\ q.id = handle.id
                       /\ Permuted(handle.parts, q.data)
                       /\ uploading /\ \A d \in Client : ~Busy(d)
           /\ \A n \in PartNumber, v \in Payload : upload_part(c, n, v) =>
                \E q : /\ BeginCall(c, "part", q) /\ ReqOK(q) /\ q.kind = "PART"
                       /\ handle # NoHandle /\ handle' = handle /\ q.id = handle.id
                       /\ uploading /\ \A d \in Client : ~Busy(d)
  <1>1. ASSUME NEW kind \in {"CREATE", "ABORT"}, NEW op, Uploading(c, op, Req(kind, Object))
        PROVE  \E q : BeginCall(c, op, q) /\ ReqOK(q) /\ q.kind = kind
    <2>1. PICK q : q = [Req(kind, Object) EXCEPT !.id = handle.id]
      OBVIOUS
    <2>2. q.kind = kind
      BY <2>1 DEF Req, NoReq
    <2>3. ReqOK(q)
      BY <2>2 DEF ReqOK
    <2>. QED BY <1>1, <2>1, <2>2, <2>3 DEF Uploading
  <1>2. ASSUME create_multipart_upload(c)
        PROVE  \E q : /\ BeginCall(c, "create", q) /\ ReqOK(q) /\ q.kind = "CREATE" /\ handle' = handle
                      /\ uploading /\ \A d \in Client : ~Busy(d)
    <2>1. \E q : BeginCall(c, "create", q) /\ ReqOK(q) /\ q.kind = "CREATE"
      BY <1>1, <1>2 DEF create_multipart_upload
    <2>. QED BY <1>2, <2>1 DEF create_multipart_upload, Uploading
  <1>3. ASSUME abort(c)
        PROVE  \E q : /\ BeginCall(c, "abort", q) /\ ReqOK(q) /\ q.kind = "ABORT" /\ handle' = NoHandle
                      /\ uploading /\ \A d \in Client : ~Busy(d)
    <2>1. \E q : BeginCall(c, "abort", q) /\ ReqOK(q) /\ q.kind = "ABORT"
      BY <1>1, <1>3 DEF abort
    <2>. QED BY <1>3, <2>1 DEF abort, Uploading
  <1>4. ASSUME complete(c)
        PROVE  \E q : /\ BeginCall(c, "complete", q) /\ ReqOK(q) /\ q.kind = "COMPLETE"
                      /\ handle # NoHandle /\ handle' = NoHandle /\ q.id = handle.id
                      /\ Permuted(handle.parts, q.data)
                      /\ uploading /\ \A d \in Client : ~Busy(d)
    <2>1. PICK data : data = sort_by_key(handle.parts)
      OBVIOUS
    <2>2. Permuted(handle.parts, data)
      BY <2>1, SortFacts DEF Handles
    <2>3. PICK p : p = [Req("COMPLETE", Object) EXCEPT !.data = data]
      OBVIOUS
    <2>4. PICK q : q = [p EXCEPT !.id = handle.id]
      OBVIOUS
    <2>5. q.kind = "COMPLETE" /\ q.data = data /\ q.id = handle.id
      BY <2>3, <2>4 DEF Req, NoReq
    <2>6. ReqOK(q)
      BY <2>2, <2>5 DEF ReqOK, Permuted
    <2>7. Uploading(c, "complete", p) /\ handle # NoHandle /\ handle' = NoHandle
      BY <1>4, <2>1, <2>3 DEF complete
    <2>8. BeginCall(c, "complete", q) /\ uploading /\ \A d \in Client : ~Busy(d)
      BY <2>4, <2>7 DEF Uploading
    <2>. QED BY <2>2, <2>5, <2>6, <2>7, <2>8
  <1>5. ASSUME NEW n \in PartNumber, NEW v \in Payload, upload_part(c, n, v)
        PROVE  \E q : /\ BeginCall(c, "part", q) /\ ReqOK(q) /\ q.kind = "PART"
                      /\ handle # NoHandle /\ handle' = handle /\ q.id = handle.id
                      /\ uploading /\ \A d \in Client : ~Busy(d)
    <2>1. PICK x : x = <<n, v>>
      OBVIOUS
    <2>2. x \in Part
      BY <2>1 DEF Part
    <2>3. PICK p : p = [Req("PART", Object) EXCEPT !.data = <<x>>]
      OBVIOUS
    <2>4. PICK q : q = [p EXCEPT !.id = handle.id]
      OBVIOUS
    <2>5. q.kind = "PART" /\ q.data = <<x>> /\ q.id = handle.id
      BY <2>3, <2>4 DEF Req, NoReq
    <2>6. q.data[1] = x
      BY <2>5
    <2>7. ReqOK(q)
      BY <2>2, <2>5, <2>6 DEF ReqOK
    <2>8. Uploading(c, "part", p) /\ handle # NoHandle /\ handle' = handle
      BY <1>5, <2>1, <2>3 DEF upload_part
    <2>9. BeginCall(c, "part", q) /\ uploading /\ \A d \in Client : ~Busy(d)
      BY <2>4, <2>8 DEF Uploading
    <2>. QED BY <2>5, <2>7, <2>8, <2>9
  <1>. QED BY <1>2, <1>3, <1>4, <1>5

\* The types hold in every step.
LEMMA KeptStep == RemoteInv /\ KeptOK /\ [RemoteNext]_remoteVars => KeptOK'
  <1> SUFFICES ASSUME RemoteInv, KeptOK, [RemoteNext]_remoteVars PROVE KeptOK'
    OBVIOUS
  <1>0. handle \in Handles /\ NoHandle \in Handles
    BY DEF KeptOK, Handles, NoHandle
  <1>1. ASSUME UNCHANGED <<max_attempts, uploading, object, upload, handle, net, client>> PROVE KeptOK'
    BY <1>1 DEF KeptOK, Counted
  <1>2. CASE UNCHANGED remoteVars
    BY <1>1, <1>2 DEF remoteVars, setup, serviceVars
  <1>3. CASE Tick
    BY <1>1, <1>3 DEF Tick, setup, serviceVars
  <1>4. ASSUME NEW c \in Client, NEW op, NEW req, Plain(c, op, req), ObjectReq(op, req) PROVE KeptOK'
    <2>1. BeginCall(c, op, req) /\ handle' = handle /\ ReqOK(req)
      BY <1>4 DEF Plain, ObjectReq
    <2>. QED BY <1>0, <2>1, KeptBegun
  <1>5. ASSUME NEW c \in Client, create_multipart_upload(c) \/ complete(c) \/ abort(c) PROVE KeptOK'
    <2>1. \E op, q : BeginCall(c, op, q) /\ ReqOK(q) /\ handle' \in {handle, NoHandle}
      BY <1>0, <1>5, UploadRequests
    <2>. QED BY <1>0, <2>1, KeptBegun
  <1>6. ASSUME NEW c \in Client, NEW n \in PartNumber, NEW v \in Payload, upload_part(c, n, v)
        PROVE  KeptOK'
    <2>1. \E op, q : BeginCall(c, op, q) /\ ReqOK(q) /\ handle' = handle
      BY <1>0, <1>6, UploadRequests
    <2>. QED BY <1>0, <2>1, KeptBegun
  <1>7. CASE RemoteNext
    BY <1>3, <1>4, <1>5, <1>6, <1>7, RemoteCases, KeptGoes, KeptReceived, KeptServed, KeptRefused
  <1>. QED BY <1>2, <1>7

\* In every state.
LEMMA KeptInductive == Spec => []KeptOK
  <1>1. Init => KeptOK
    <2> SUFFICES ASSUME Init PROVE KeptOK
      OBVIOUS
    <2>1. /\ max_attempts \in Attempts \cup {1} /\ object \in Initial
          /\ upload = [u \in UploadId |-> Missing] /\ uploading \in BOOLEAN /\ net = {}
          /\ client = [c \in Client |-> NoCall] /\ handle = NoHandle
      BY DEF Init, RemoteInit
    <2>2. max_attempts \in Nat /\ object \in Objects
      BY <2>1, RemoteAssumption DEF Objects
    <2>3. upload \in Uploads /\ handle \in Handles
      BY <2>1 DEF Uploads, Handles, NoHandle
    <2>4. Counted(NoCall)
      BY <2>2 DEF Counted, NoCall, NoReq, ReqOK
    <2>. QED BY <2>1, <2>2, <2>3, <2>4 DEF KeptOK, Objects, Uploads, Handles
  <1>2. RemoteInv /\ KeptOK /\ [Next]_vars => KeptOK'
    <2>1. UNCHANGED remoteVars => (KeptOK => KeptOK')
      BY DEF remoteVars, setup, serviceVars, KeptOK, Counted
    <2>. QED BY <2>1, KeptStep DEF Next, vars
  <1>. QED BY <1>1, <1>2, RemoteInvariance, PTL DEF Spec

\* RemoteTypeOK is part of it.
LEMMA RemoteTypeFacts ==
    ASSUME RemoteInv, KeptOK
    PROVE  RemoteTypeOK
  <1>1. /\ service \in {"s3", "gcs", "azure"} /\ uploading \in BOOLEAN
        /\ object \in [Name -> Seq(Payload) \cup {Missing}]
    BY DEF RemoteInv, RemoteTypes, KeptOK
  <1>2. \A u \in UploadId :
          upload[u] = Missing \/ upload[u] \in [PartNumber -> Payload \cup {Missing}]
    BY DEF KeptOK
  <1>3. handle.id \in UploadId \cup {0}
    BY DEF KeptOK
  <1>4. /\ \A c \in Client : client[c].tries <= max_attempts
        /\ \A m \in net : m.from \in Client /\ m.try \in 0..max_attempts
    BY DEF KeptOK, Counted, RemoteInv, NetOK
  <1>. QED BY <1>1, <1>2, <1>3, <1>4 DEF RemoteTypeOK
-----------------------------------------------------------------------------
(***************************************************************************)
(* Who may be uploading, in every step.                                    *)
(***************************************************************************)
\* A step that starts no call.
LEMMA ModesKept ==
    ASSUME UploadModes, UNCHANGED <<service, uploading>>, faults' \in Nat, handle' # NoHandle => uploading,
           \A c \in Client : /\ client'[c].op = client[c].op
                             /\ client'[c].phase # "idle" => client[c].phase # "idle"
    PROVE  UploadModes'
  BY DEF UploadModes, Busy

\* A call begins.
LEMMA ModesBegun ==
    ASSUME RemoteInv, UploadModes, NEW c \in Client, NEW op, NEW req, BeginCall(c, op, req),
           IF uploading THEN op \in Multipart /\ \A d \in Client : ~Busy(d) ELSE op \notin Multipart,
           handle' \in {handle, NoHandle}
    PROVE  UploadModes'
  <1>1. UNCHANGED <<service, uploading, faults>>
    BY DEF BeginCall, setup
  <1>2. client'[c].op = op /\ \A d \in Client \ {c} : client'[d] = client[d]
    BY Begun, ZenonT(20)
  <1>. QED BY <1>1, <1>2 DEF UploadModes, Busy

\* Every step.
LEMMA ModesStep == RemoteInv /\ KeptOK /\ UploadModes /\ [RemoteNext]_remoteVars => UploadModes'
  <1> SUFFICES ASSUME RemoteInv, KeptOK, UploadModes, [RemoteNext]_remoteVars PROVE UploadModes'
    OBVIOUS
  <1>0. handle \in Handles /\ faults \in Nat /\ faults + 1 \in Nat
    BY DEF KeptOK, Handles, UploadModes
  <1>1. ASSUME UNCHANGED <<service, uploading, faults, handle, client>> PROVE UploadModes'
    BY <1>1 DEF UploadModes, Busy
  <1>2. CASE UNCHANGED remoteVars
    BY <1>1, <1>2 DEF remoteVars, setup
  <1>3. CASE Tick
    BY <1>1, <1>3 DEF Tick, setup
  <1>4. ASSUME NEW c \in Client, NEW op, NEW req, Plain(c, op, req), ObjectReq(op, req) PROVE UploadModes'
    <2>1. BeginCall(c, op, req) /\ handle' = handle /\ ~uploading /\ op \notin Multipart
      BY <1>4 DEF Plain, ObjectReq, Multipart
    <2>. QED BY <2>1, ModesBegun
  <1>5. ASSUME NEW c \in Client, create_multipart_upload(c) \/ complete(c) \/ abort(c) PROVE UploadModes'
    <2>1. \E op, q : /\ BeginCall(c, op, q) /\ op \in Multipart /\ handle' \in {handle, NoHandle}
                     /\ uploading /\ \A d \in Client : ~Busy(d)
      <3>1. CASE create_multipart_upload(c)
        BY <1>0, <3>1, UploadRequests DEF Multipart
      <3>2. CASE complete(c)
        BY <1>0, <3>2, UploadRequests DEF Multipart
      <3>3. CASE abort(c)
        BY <1>0, <3>3, UploadRequests DEF Multipart
      <3>. QED BY <1>5, <3>1, <3>2, <3>3
    <2>. QED BY <2>1, ModesBegun
  <1>6. ASSUME NEW c \in Client, NEW n \in PartNumber, NEW v \in Payload, upload_part(c, n, v)
        PROVE  UploadModes'
    <2>1. \E q : /\ BeginCall(c, "part", q) /\ handle' = handle
                 /\ uploading /\ \A d \in Client : ~Busy(d)
      BY <1>0, <1>6, UploadRequests
    <2>2. "part" \in Multipart
      BY DEF Multipart
    <2>. QED BY <2>1, <2>2, ModesBegun
  <1>7. ASSUME NEW c \in Client, Goes(c) PROVE UploadModes'
    <2>1. UNCHANGED <<service, uploading, handle>> /\ faults' \in Nat
      BY <1>0, <1>7 DEF Goes
    <2>2. /\ \A d \in Client \ {c} : client'[d] = client[d]
          /\ Busy(c) /\ client'[c].op = client[c].op
      BY <1>7 DEF Goes, Moves, SameList
    <2>3. handle' # NoHandle => uploading
      BY <2>1 DEF UploadModes
    <2>. QED BY <2>1, <2>2, <2>3, ModesKept DEF Busy
  <1>8. ASSUME NEW c \in Client, Receive(c) PROVE UploadModes'
    <2>1. PICK s : s = client[c]
      OBVIOUS
    <2>2. /\ UNCHANGED <<service, uploading, faults>> /\ s.phase = "wait"
      BY <1>8, <2>1 DEF Receive, setup
    <2>3. /\ Shape(s) /\ ReqShape(s.req) /\ Match(s.op, s.req.kind)
          /\ DOMAIN client = Client /\ client = [d \in Client |-> client[d]]
      BY <2>1 DEF RemoteInv, RemoteTypes, CallOK, Formed
    <2>4. PICK r : /\ client' = [client EXCEPT ![c] = r] /\ (r = Resend(s) \/ r = Received(s))
                   /\ s.op \notin {"create", "part"} => handle' = handle
      BY <1>8, <2>1 DEF Receive
    <2>5. client'[c] = r /\ \A d \in Client \ {c} : client'[d] = client[d]
      BY <2>3, <2>4
    <2>6. r.op = s.op
      BY <2>3, <2>4, Resent, ReceivedFacts DEF SameList, Advances, Kept
    <2>7. handle' # NoHandle => uploading
      BY <2>1, <2>4 DEF UploadModes, Multipart
    <2>. QED BY <1>0, <2>1, <2>2, <2>5, <2>6, <2>7, ModesKept
  <1>9. ASSUME NEW m \in net, Serve(m) PROVE UploadModes'
    <2>1. RemoteTypes /\ m.req.kind \in Kinds
      BY DEF RemoteInv, NetOK
    <2>2. PICK objects, up, a : Served(m, objects, up, a)
      BY <1>9, <2>1, ServeFacts
    <2>3. UNCHANGED <<service, uploading, faults, handle>>
      BY <2>2 DEF Served, setup
    <2>4. \A d \in Client : client'[d].op = client[d].op /\ client'[d].phase = client[d].phase
      BY <2>2, ServedList
    <2>5. handle' # NoHandle => uploading
      BY <2>3 DEF UploadModes
    <2>. QED BY <1>0, <2>3, <2>4, <2>5, ModesKept
  <1>10. ASSUME NEW m \in net, Refuse(m) PROVE UploadModes'
    <2>1. UNCHANGED <<service, uploading, handle>> /\ faults' \in Nat
      BY <1>0, <1>10 DEF Refuse, setup
    <2>2. \A d \in Client : client'[d].op = client[d].op /\ client'[d].phase = client[d].phase
      BY <1>10, RefusedList DEF SameList
    <2>3. handle' # NoHandle => uploading
      BY <2>1 DEF UploadModes
    <2>. QED BY <2>1, <2>2, <2>3, ModesKept
  <1>11. CASE RemoteNext
    BY <1>3, <1>4, <1>5, <1>6, <1>7, <1>8, <1>9, <1>10, <1>11, RemoteCases
  <1>. QED BY <1>2, <1>11

\* In every state.
LEMMA ModesInductive == Spec => []UploadModes
  <1>1. Init => UploadModes
    <2> SUFFICES ASSUME Init PROVE UploadModes
      OBVIOUS
    <2>1. /\ uploading \in BOOLEAN /\ (uploading => service = "s3") /\ faults = 0 /\ handle = NoHandle
          /\ client = [c \in Client |-> NoCall]
      BY DEF Init, RemoteInit
    <2>2. NoCall.op = "none" /\ NoCall.phase = "idle"
      BY DEF NoCall
    <2>. QED BY <2>1, <2>2 DEF UploadModes, Busy, Multipart
  <1>2. RemoteInv /\ KeptOK /\ UploadModes /\ [Next]_vars => UploadModes'
    <2>1. UNCHANGED remoteVars => (UploadModes => UploadModes')
      BY DEF remoteVars, setup, UploadModes, Busy
    <2>. QED BY <2>1, ModesStep DEF Next, vars
  <1>. QED BY <1>1, <1>2, RemoteInvariance, KeptInductive, PTL DEF Spec
-----------------------------------------------------------------------------
(***************************************************************************)
(* As long as nothing is given up or refused.                              *)
(***************************************************************************)
\* The parts of a handle, sorted, are accepted, or there are none, or two
\* have the same number.
LEMMA CompleteReady ==
    ASSUME NEW parts \in Seq(Part), NEW data, Permuted(parts, data), NEW u,
           \A i \in DOMAIN parts : Single(parts, i) => upload[u][parts[i][1]] = parts[i][2]
    PROVE  Unusable(data) \/ Acceptable(u, data)
  <1> SUFFICES ASSUME ~Unusable(data) PROVE Acceptable(u, data)
    OBVIOUS
  <1>1. PICK n : n = Len(parts)
    OBVIOUS
  <1>2. n \in Nat /\ DOMAIN parts = 1..n /\ data \in Seq(Part) /\ DOMAIN data = 1..n
    BY <1>1 DEF Permuted
  <1>3. PICK g \in [1..Len(parts) -> 1..Len(parts)] :
           /\ \A p \in 1..Len(parts) : data[p] = parts[g[p]]
           /\ \A p, q \in 1..Len(parts) : g[p] = g[q] => p = q
           /\ \A i \in 1..Len(parts) : \E p \in 1..Len(parts) : g[p] = i
           /\ \A p, q \in 1..Len(parts) : p < q => data[p][1] <= data[q][1]
    BY Zenon DEF Permuted
  <1>4. /\ \A p \in 1..n : data[p] = parts[g[p]] /\ g[p] \in 1..n
        /\ \A i \in 1..n : \E p \in 1..n : g[p] = i
        /\ \A p, q \in 1..n : p < q => data[p][1] <= data[q][1]
    BY <1>1, <1>3
  <1>5. data # <<>> /\ \A i, j \in 1..n : i # j => data[i][1] # data[j][1]
    BY <1>2 DEF Unusable
  <1>6. \A p \in 1..n : data[p][1] \in Nat
    <2> SUFFICES ASSUME NEW p \in 1..n PROVE data[p][1] \in Nat
      OBVIOUS
    <2>1. data[p] \in Part
      BY <1>2
    <2>2. data[p][1] \in PartNumber
      BY <2>1 DEF Part
    <2>. QED BY <2>2, RemoteAssumption
  <1>7. \A p, q \in 1..n : p < q => data[p][1] < data[q][1]
    <2> SUFFICES ASSUME NEW p \in 1..n, NEW q \in 1..n, p < q PROVE data[p][1] < data[q][1]
      OBVIOUS
    <2>1. p # q
      BY <1>2
    <2>2. data[p][1] <= data[q][1] /\ data[p][1] # data[q][1]
      BY <1>4, <1>5, <2>1
    <2>3. data[p][1] \in Nat /\ data[q][1] \in Nat
      BY <1>6
    <2>. QED BY <2>2, <2>3
  <1>8. ASSUME NEW p \in 1..n PROVE upload[u][data[p][1]] = data[p][2]
    <2>1. g[p] \in 1..n /\ data[p] = parts[g[p]]
      BY <1>4
    <2>2. ASSUME NEW j \in 1..n, j # g[p] PROVE parts[j][1] # parts[g[p]][1]
      <3>1. PICK q \in 1..n : g[q] = j
        BY <1>4
      <3>2. q # p /\ data[q] = parts[j]
        BY <1>4, <2>2, <3>1
      <3>. QED BY <1>5, <2>1, <3>2
    <2>3. Single(parts, g[p])
      BY <1>2, <2>2 DEF Single
    <2>. QED BY <1>2, <2>1, <2>3
  <1>. QED BY <1>2, <1>5, <1>7, <1>8 DEF Acceptable

\* How the last call of an idle client ended.
Ended(s) == s.op = "complete" /\ s.res = "multipart_error" => Unusable(s.req.data)

\* It is part of what holds of a call.
LEMMA EndedFacts ==
    ASSUME NEW s, UploadCall(s)
    PROVE  Ended(s)
  BY DEF UploadCall, Ended

\* Nothing is on its way when the busy client is not waiting for an answer.
LEMMA NothingSent ==
    ASSUME UploadModes, NetAwaited, uploading, NEW c \in Client,
           \A d \in Client : Busy(d) => d = c,
           client[c].phase # "wait" \/ client[c].answer # NoAnswer,
           \A m \in net : m.from \in Client
    PROVE  net = {}
  <1> SUFFICES ASSUME NEW m \in net PROVE FALSE
    OBVIOUS
  <1>1. Awaits(m.from, m) /\ m.from \in Client
    BY DEF NetAwaited
  <1>2. m.from = c
    BY <1>1 DEF Awaits, Busy
  <1>. QED BY <1>1, <1>2 DEF Awaits

\* What is stored of the handle's parts does not depend on who is idle.
LEMMA HandleSame ==
    ASSUME HandleKept, UNCHANGED <<handle, upload>>, \A n : Arrived(n) => Arrived(n)'
    PROVE  HandleKept'
  BY DEF HandleKept

\* An upload's call begins.
LEMMA CleanBegun ==
    ASSUME RemoteInv, KeptOK, UploadModes, UploadClean, uploading, NEW c \in Client, NEW op, NEW q,
           BeginCall(c, op, q), \A d \in Client : ~Busy(d), handle' \in {handle, NoHandle},
           op \in {"create", "part"} => handle' = handle,
           op = "part" => handle # NoHandle /\ q.id = handle.id,
           op \in {"complete", "abort"} => handle' = NoHandle,
           op = "complete" => handle # NoHandle /\ q.id = handle.id /\ Permuted(handle.parts, q.data)
    PROVE  UploadClean'
  <1>1. UNCHANGED <<uploading, faults, upload, net>>
    BY DEF BeginCall, setup, serviceVars
  <1> SUFFICES ASSUME faults = 0 PROVE (NetAwaited /\ HandleKept /\ \A d \in Client : UploadCall(client[d]))'
    BY <1>1 DEF UploadClean
  <1>2. NetAwaited /\ HandleKept /\ \A d \in Client : UploadCall(client[d])
    BY DEF UploadClean
  <1>3. net = {}
    BY <1>2, NothingSent DEF RemoteInv, NetOK, Busy
  <1>4. PICK r : r = client'[c]
    OBVIOUS
  <1>5. /\ r.op = op /\ r.req = q /\ r.res = "none" /\ r.answer = NoAnswer
        /\ r.phase \in {"token", "send"} /\ \A d \in Client \ {c} : client'[d] = client[d]
    BY <1>4, Begun, ZenonT(20)
  <1>6. \A n : ~Arrived(n)
    BY DEF Arrived, Busy
  <1>7. HandleKept'
    <2>1. CASE handle' = handle
      BY <1>1, <1>2, <1>6, <2>1, HandleSame
    <2>2. CASE handle' = NoHandle
      BY <2>2 DEF HandleKept
    <2>. QED BY <2>1, <2>2
  <1>8. UploadCall(r)'
    <2>1. op = "complete" => upload[q.id] # Missing /\ (Unusable(q.data) \/ Acceptable(q.id, q.data))
      <3> SUFFICES ASSUME op = "complete"
                   PROVE  upload[q.id] # Missing /\ (Unusable(q.data) \/ Acceptable(q.id, q.data))
        OBVIOUS
      <3>1. upload[q.id] # Missing
        BY <1>2 DEF HandleKept
      <3>2. PICK parts : parts = handle.parts
        OBVIOUS
      <3>3. parts \in Seq(Part) /\ Permuted(parts, q.data)
        BY <3>2 DEF KeptOK
      <3>4. \A i \in DOMAIN parts : Single(parts, i) => upload[q.id][parts[i][1]] = parts[i][2]
        BY <1>2, <1>6, <3>2 DEF HandleKept
      <3>. QED BY <3>1, <3>3, <3>4, CompleteReady
    <2>2. op = "complete" => (upload[q.id] # Missing /\ (Unusable(q.data) \/ Acceptable(q.id, q.data)))'
      BY <1>1, <2>1 DEF Acceptable
    <2>. QED BY <1>5, <2>2, AnswerFacts DEF UploadCall
  <1>9. ASSUME NEW d \in Client \ {c} PROVE UploadCall(client[d])'
    <2>1. client'[d] = client[d] /\ client[d].phase = "idle" /\ Ended(client[d])
      BY <1>2, <1>5, EndedFacts DEF Busy
    <2>. QED BY <2>1 DEF UploadCall, Ended
  <1>10. UploadCall(client[c])'
    BY <1>4, <1>8 DEF UploadCall, Acceptable
  <1>11. NetAwaited'
    BY <1>1, <1>3 DEF NetAwaited
  <1>. QED BY <1>7, <1>9, <1>10, <1>11

\* An upload's call goes on; giving up an attempt is a fault.
LEMMA CleanGoes ==
    ASSUME RemoteInv, KeptOK, UploadModes, UploadClean, uploading, NEW c \in Client, Goes(c)
    PROVE  UploadClean'
  <1>1. UNCHANGED <<uploading, upload, handle>>
    BY DEF Goes
  <1> SUFFICES ASSUME faults' = 0 PROVE (NetAwaited /\ HandleKept /\ \A d \in Client : UploadCall(client[d]))'
    BY <1>1 DEF UploadClean
  <1>2. client[c].phase # "wait" /\ faults = 0
    BY DEF Goes, UploadModes
  <1>3. NetAwaited /\ HandleKept /\ \A d \in Client : UploadCall(client[d])
    BY <1>2 DEF UploadClean
  <1>4. PICK s, r : s = client[c] /\ r = client'[c]
    OBVIOUS
  <1>5. /\ \A d \in Client \ {c} : client'[d] = client[d]
        /\ Busy(c) /\ SameList(s, r) /\ r.answer = NoAnswer
        /\ \/ net' = net /\ r.phase = "send" /\ r.res = "none"
           \/ net' = net /\ r.phase = "idle" /\ r.res \in {"retry_exhausted", "error"}
           \/ /\ r.phase = "wait" /\ r.res = "none" /\ r.tries = s.tries + 1
              /\ net' = net \cup {[from |-> c, try |-> s.tries, call |-> s.id, req |-> s.req]}
    BY <1>4 DEF Goes, Moves
  <1>6. \A d \in Client : Busy(d) => d = c
    BY <1>5 DEF UploadModes
  <1>7. net = {}
    BY <1>2, <1>3, <1>6, NothingSent DEF RemoteInv, NetOK
  <1>8. NetAwaited'
    <2> SUFFICES ASSUME NEW m \in net' PROVE Message(m) /\ Awaits(m.from, m)'
      BY DEF NetAwaited, Message
    <2>1. /\ m = [from |-> c, try |-> s.tries, call |-> s.id, req |-> s.req]
          /\ r.phase = "wait" /\ r.tries = s.tries + 1
      BY <1>5, <1>7
    <2>2. Message(m) /\ m.from = c /\ m.try = s.tries /\ m.call = s.id /\ m.req = s.req
      BY <2>1 DEF Message
    <2>3. client'[c].id = s.id /\ client'[c].req = s.req /\ client'[c].answer = NoAnswer
      BY <1>4, <1>5 DEF SameList
    <2>. QED BY <1>4, <2>1, <2>2, <2>3 DEF Awaits
  <1>9. HandleKept'
    <2>1. ASSUME NEW n, Arrived(n) PROVE Arrived(n)'
      <3>1. PICK d \in Client : /\ client[d].op = "part" /\ client[d].phase = "wait"
                                /\ client[d].answer # NoAnswer /\ client[d].req.data[1][1] = n
        BY <2>1 DEF Arrived
      <3>2. d # c
        BY <1>2, <3>1
      <3>3. client'[d] = client[d]
        BY <1>5, <3>2
      <3>. QED BY <3>1, <3>3 DEF Arrived
    <2>. QED BY <1>1, <1>3, <2>1, HandleSame
  <1>10. UploadCall(r)'
    <2>1. UploadCall(s) /\ s.phase # "idle" /\ s.phase # "wait"
      BY <1>2, <1>3, <1>4, <1>5 DEF Busy
    <2>2. r.op = s.op /\ r.req = s.req /\ r.answer = NoAnswer /\ r.answer.status = 0 /\ r.res # "multipart_error"
      BY <1>5, AnswerFacts DEF SameList
    <2>. QED BY <1>1, <2>1, <2>2 DEF UploadCall, Acceptable
  <1>11. ASSUME NEW d \in Client PROVE UploadCall(client[d])'
    <2>1. CASE d = c
      BY <1>4, <1>10, <2>1 DEF UploadCall, Acceptable
    <2>2. CASE d # c
      <3>1. client'[d] = client[d] /\ UploadCall(client[d])
        BY <1>3, <1>5, <2>2
      <3>. QED BY <1>1, <3>1 DEF UploadCall, Acceptable
    <2>. QED BY <2>1, <2>2
  <1>. QED BY <1>8, <1>9, <1>11

\* The parts of a handle are kept when one more has been stored.
LEMMA PartAdded ==
    ASSUME NEW parts \in Seq(Part), NEW x \in Part, NEW f, f[x[1]] = x[2],
           \A i \in DOMAIN parts : Single(parts, i) /\ parts[i][1] # x[1] => f[parts[i][1]] = parts[i][2],
           NEW i \in DOMAIN Append(parts, x), Single(Append(parts, x), i)
    PROVE  f[Append(parts, x)[i][1]] = Append(parts, x)[i][2]
  <1>1. PICK n, new : n = Len(parts) /\ new = Append(parts, x)
    OBVIOUS
  <1>2. n \in Nat /\ DOMAIN parts = 1..n /\ DOMAIN new = 1..(n + 1)
    BY <1>1
  <1>3. new[n + 1] = x /\ \A j \in 1..n : new[j] = parts[j]
    BY <1>1
  <1>4. CASE i = n + 1
    BY <1>1, <1>3, <1>4
  <1>5. CASE i # n + 1
    <2>1. i \in 1..n /\ n + 1 \in 1..(n + 1) /\ \A j \in 1..n : j \in 1..(n + 1)
      BY <1>1, <1>2, <1>5
    <2>2. new[i] = parts[i]
      BY <1>3, <2>1
    <2>3. parts[i][1] # x[1]
      BY <1>1, <1>2, <1>3, <1>5, <2>1, <2>2 DEF Single
    <2>4. Single(parts, i)
      BY <1>1, <1>2, <1>3, <2>1, <2>2 DEF Single
    <2>. QED BY <1>1, <1>2, <2>1, <2>2, <2>3, <2>4
  <1>. QED BY <1>4, <1>5

\* An upload's call looks at its answer.
LEMMA CleanReceived ==
    ASSUME RemoteInv, KeptOK, UploadModes, UploadClean, uploading, NEW c \in Client, Receive(c)
    PROVE  UploadClean'
  <1>1. PICK s : s = client[c]
    OBVIOUS
  <1>2. /\ UNCHANGED <<uploading, upload, net, faults>> /\ s.phase = "wait" /\ s.answer # NoAnswer
    BY <1>1 DEF Receive, setup, serviceVars
  <1> SUFFICES ASSUME faults = 0 PROVE (NetAwaited /\ HandleKept /\ \A d \in Client : UploadCall(client[d]))'
    BY <1>2 DEF UploadClean
  <1>3. NetAwaited /\ HandleKept /\ \A d \in Client : UploadCall(client[d])
    BY DEF UploadClean
  <1>4. /\ Shape(s) /\ ReqShape(s.req) /\ Match(s.op, s.req.kind) /\ s.res = "none"
        /\ service \in {"s3", "gcs", "azure"} /\ DOMAIN client = Client
        /\ client = [d \in Client |-> client[d]]
    BY <1>1, <1>2 DEF RemoteInv, RemoteTypes, CallOK, Formed
  <1>5. PICK r : /\ client' = [client EXCEPT ![c] = r]
                 /\ r = IF service = "s3" /\ should_retry_status(s.answer.status)
                        THEN Resend(s) ELSE Received(s)
                 /\ handle' = CASE r.res = "ok" /\ s.op = "create" -> [id |-> s.answer.body, parts |-> <<>>]
                                [] r.res = "ok" /\ s.op = "part" ->
                                     [handle EXCEPT !.parts = Append(@, s.req.data[1])]
                                [] OTHER -> handle
    BY <1>1 DEF Receive
  <1>6. client'[c] = r /\ \A d \in Client \ {c} : client'[d] = client[d]
    BY <1>4, <1>5
  <1>7. Busy(c) /\ s.op \in Multipart /\ \A d \in Client : Busy(d) => d = c
    BY <1>1, <1>2 DEF Busy, UploadModes
  <1>8. NetAwaited' /\ net = {}
    <2>1. net = {}
      BY <1>1, <1>2, <1>3, <1>7, NothingSent DEF RemoteInv, NetOK
    <2>. QED BY <1>2, <2>1 DEF NetAwaited
  <1>9. \A d \in Client \ {c} : client[d].phase = "idle"
    BY <1>7 DEF Busy
  <1>10. r.op = s.op /\ r.req = s.req /\ r.answer = NoAnswer /\ r.phase \in {"send", "idle"}
    <2>1. CASE r = Resend(s)
      BY <1>4, <2>1, Resent DEF SameList
    <2>2. CASE r = Received(s)
      BY <1>4, <1>7, <2>2, UploadReturns
    <2>. QED BY <1>5, <2>1, <2>2
  <1>11. r.res = "ok" => r = Received(s)
    BY <1>4, <1>5, Resent
  <1>12. \A n : ~Arrived(n)'
    BY <1>6, <1>9, <1>10 DEF Arrived
  <1>13. ASSUME NEW n, Arrived(n) PROVE s.op = "part" /\ n = s.req.data[1][1]
    BY <1>1, <1>9, <1>13 DEF Arrived
  <1>14. UploadCall(s) /\ Counted(s)
    BY <1>1, <1>3 DEF KeptOK
  <1>15. s.op = "part" => /\ r = Received(s) /\ r.res = "ok" /\ r.phase = "idle"
                          /\ handle # NoHandle /\ s.req.id = handle.id
                          /\ upload[s.req.id][s.req.data[1][1]] = s.req.data[1][2]
    <2> SUFFICES ASSUME s.op = "part"
                 PROVE  /\ r = Received(s) /\ r.res = "ok" /\ r.phase = "idle"
                        /\ handle # NoHandle /\ s.req.id = handle.id
                        /\ upload[s.req.id][s.req.data[1][1]] = s.req.data[1][2]
      OBVIOUS
    <2>1. /\ s.answer.status = 200 /\ handle # NoHandle /\ s.req.id = handle.id
          /\ upload[s.req.id][s.req.data[1][1]] = s.req.data[1][2]
      BY <1>2, <1>14 DEF UploadCall
    <2>2. r = Received(s)
      BY <1>5, <2>1 DEF should_retry_status
    <2>. QED BY <1>4, <1>7, <2>1, <2>2, UploadReturns
  <1>16. HandleKept'
    <2>1. CASE r.res = "ok" /\ s.op = "create"
      <3>1. s.answer.status = 200
        BY <1>4, <1>7, <1>11, <2>1, UploadReturns
      <3>2. s.answer.body \in UploadId /\ upload[s.answer.body] # Missing
        BY <1>2, <1>14, <2>1, <3>1 DEF Counted, UploadCall
      <3>3. handle' = [id |-> s.answer.body, parts |-> <<>>]
        BY <1>5, <2>1
      <3>4. handle'.id = s.answer.body /\ DOMAIN handle'.parts = {}
        BY <3>3
      <3>. QED BY <1>2, <3>2, <3>4 DEF HandleKept
    <2>2. CASE s.op = "part"
      <3>1. PICK x, parts : x = s.req.data[1] /\ parts = handle.parts
        OBVIOUS
      <3>2. handle \in Handles /\ parts \in Seq(Part)
        BY <3>1 DEF KeptOK, Handles
      <3>3. x \in Part
        BY <1>4, <1>14, <2>2, <3>1 DEF Counted, ReqOK, Match
      <3>4. handle' = [handle EXCEPT !.parts = Append(@, x)]
        BY <1>5, <1>15, <2>2, <3>1
      <3>5. handle'.id = handle.id /\ handle'.parts = Append(parts, x)
        BY <3>1, <3>2, <3>4 DEF Handles
      <3>6. PICK f : f = upload[handle.id]
        OBVIOUS
      <3>7. f[x[1]] = x[2] /\ handle # NoHandle
        BY <1>15, <2>2, <3>1, <3>6
      <3>8. ASSUME NEW i \in DOMAIN parts, Single(parts, i), parts[i][1] # x[1]
            PROVE  f[parts[i][1]] = parts[i][2]
        <4>1. ~Arrived(parts[i][1])
          BY <1>13, <3>1, <3>8
        <4>. QED BY <1>3, <3>1, <3>6, <3>7, <3>8, <4>1 DEF HandleKept
      <3>9. \A i \in DOMAIN Append(parts, x) : Single(Append(parts, x), i) =>
               f[Append(parts, x)[i][1]] = Append(parts, x)[i][2]
        BY <3>2, <3>3, <3>7, <3>8, PartAdded
      <3>10. handle.id \in UploadId /\ upload[handle.id] # Missing
        BY <1>3, <3>7 DEF HandleKept
      <3>11. upload'[handle'.id] = f /\ upload'[handle'.id] # Missing /\ handle'.id \in UploadId
        BY <1>2, <3>5, <3>6, <3>10
      <3>. QED BY <3>5, <3>9, <3>11 DEF HandleKept
    <2>3. CASE ~(r.res = "ok" /\ s.op = "create") /\ s.op # "part"
      <3>1. handle' = handle
        BY <1>5, <2>3
      <3>2. \A n : ~Arrived(n)
        BY <1>13, <2>3
      <3>. QED BY <1>2, <1>3, <3>1, <3>2, HandleSame
    <2>. QED BY <2>1, <2>2, <2>3
  <1>17. UploadCall(r)'
    <2>1. CASE s.op = "create"
      BY <1>4, <1>10, <2>1, AnswerFacts DEF UploadCall
    <2>2. CASE s.op = "part"
      BY <1>10, <1>15, <2>2 DEF UploadCall
    <2>3. CASE s.op = "abort"
      <3>1. handle = NoHandle /\ handle' = handle
        BY <1>2, <1>5, <1>14, <2>3 DEF UploadCall
      <3>. QED BY <1>10, <2>3, <3>1 DEF UploadCall
    <2>4. CASE s.op = "complete"
      <3>1. s.answer.status = 200 \/ (s.answer.status = 400 /\ Unusable(s.req.data))
        BY <1>2, <1>14, <2>4 DEF UploadCall
      <3>2. r = Received(s)
        BY <1>5, <3>1 DEF should_retry_status
      <3>3. r.phase = "idle" /\ (r.res = "ok" <=> s.answer.status = 200)
        BY <1>4, <1>7, <2>4, <3>2, UploadReturns
      <3>4. r.res = "multipart_error" => Unusable(r.req.data)
        BY <1>10, <3>1, <3>3
      <3>. QED BY <1>10, <2>4, <3>3, <3>4 DEF UploadCall
    <2>. QED BY <1>7, <2>1, <2>2, <2>3, <2>4 DEF Multipart
  <1>18. ASSUME NEW d \in Client PROVE UploadCall(client[d])'
    <2>1. CASE d = c
      BY <1>6, <1>17, <2>1 DEF UploadCall, Acceptable
    <2>2. CASE d # c
      <3>1. client'[d] = client[d] /\ client[d].phase = "idle" /\ Ended(client[d])
        BY <1>3, <1>6, <1>9, <2>2, EndedFacts
      <3>. QED BY <3>1 DEF UploadCall, Ended
    <2>. QED BY <2>1, <2>2
  <1>. QED BY <1>8, <1>16, <1>18

\* The request of the one call under way is served: what does not depend on
\* the request.
OneAnswer(m, up, a) ==
    LET c == m.from
        s == client[c]
        r == client'[c]
    IN  /\ c \in Client /\ s.op \in Multipart /\ s.req = m.req /\ s.phase = "wait" /\ s.answer = NoAnswer
        /\ r.op = s.op /\ r.req = s.req /\ r.phase = "wait" /\ r.answer = a /\ r.res = "none"
        /\ UNCHANGED <<uploading, faults, handle>> /\ upload' = up /\ NetAwaited'
        /\ \A d \in Client \ {c} :
              client[d].phase = "idle" /\ client'[d].phase = "idle" /\ UploadCall(client[d])'

\* Every answer is one.
LEMMA CleanAnswer ==
    ASSUME RemoteInv, KeptOK, UploadModes, NetAwaited, uploading, NEW m \in net,
           NEW objects, NEW up, NEW a, Served(m, objects, up, a),
           \A d \in Client : UploadCall(client[d])
    PROVE  OneAnswer(m, up, a)
  <1>0. PICK c, s, r : c = m.from /\ s = client[c] /\ r = client'[c]
    OBVIOUS
  <1> USE <1>0
  <1>1. c \in Client /\ Message(m) /\ Awaits(c, m)
    BY DEF NetAwaited, RemoteInv, NetOK
  <1>2. /\ s.phase = "wait" /\ s.answer = NoAnswer /\ s.req = m.req /\ s.tries = m.try + 1 /\ s.id = m.call
        /\ Busy(c)
    BY <1>1 DEF Awaits, Busy
  <1>3. s.op \in Multipart /\ \A d \in Client : Busy(d) => d = c
    BY <1>1, <1>2 DEF UploadModes
  <1>4. s.res = "none"
    BY <1>1, <1>2 DEF RemoteInv, CallOK, Formed
  <1>5. r.op = s.op /\ r.req = s.req /\ r.phase = s.phase /\ r.res = s.res /\ r.answer = a
    BY <1>1, ServedList
  <1>6. UNCHANGED <<uploading, faults, handle>> /\ upload' = up /\ net' = net \ {m}
    BY DEF Served, setup
  <1>7. NetAwaited'
    <2>1. ASSUME NEW x \in net PROVE x = m
      <3>1. Message(x) /\ Awaits(x.from, x) /\ x.from \in Client
        BY DEF NetAwaited, RemoteInv, NetOK
      <3>2. x.from = c
        BY <1>3, <3>1 DEF Awaits, Busy
      <3>3. x.call = s.id /\ x.req = s.req /\ s.tries = x.try + 1
        BY <3>1, <3>2 DEF Awaits
      <3>4. x.try \in Nat /\ m.try \in Nat
        BY DEF KeptOK
      <3>5. x.try = m.try
        BY <1>2, <3>3, <3>4
      <3>. QED BY <1>1, <1>2, <3>1, <3>2, <3>3, <3>5 DEF Message
    <2>2. net' = {}
      BY <1>6, <2>1
    <2>. QED BY <2>2 DEF NetAwaited
  <1>8. ASSUME NEW d \in Client \ {c}
         PROVE  client[d].phase = "idle" /\ client'[d].phase = "idle" /\ UploadCall(client[d])'
    <2>1. client[d].phase = "idle" /\ Ended(client[d])
      BY <1>3, EndedFacts DEF Busy
    <2>2. /\ client'[d].op = client[d].op /\ client'[d].req = client[d].req
          /\ client'[d].phase = client[d].phase /\ client'[d].res = client[d].res
      BY ServedList
    <2>. QED BY <2>1, <2>2 DEF UploadCall, Ended
  <1>. QED BY <1>1, <1>2, <1>3, <1>4, <1>5, <1>6, <1>7, <1>8 DEF OneAnswer

\* Nothing has arrived unless a part has.
LEMMA NoneArrived ==
    ASSUME NEW c \in Client, \A d \in Client \ {c} : client[d].phase = "idle"
    PROVE  /\ client[c].answer = NoAnswer \/ client[c].op # "part" => \A n : ~Arrived(n)
           /\ client[c].op = "part" /\ client[c].phase = "wait" /\ client[c].answer # NoAnswer =>
                 Arrived(client[c].req.data[1][1])
  BY DEF Arrived

\* The service's answer to the request of an upload.
LEMMA CleanServed ==
    ASSUME RemoteInv, KeptOK, UploadModes, UploadClean, uploading, NEW m \in net, Serve(m)
    PROVE  UploadClean'
  <1>1. m.req.kind \in Kinds /\ RemoteTypes
    BY DEF RemoteInv, NetOK
  <1>2. PICK objects, up, a : Served(m, objects, up, a)
    BY <1>1, ServeFacts
  <1>3. UNCHANGED <<uploading, faults, handle>>
    BY <1>2 DEF Served, setup
  <1> SUFFICES ASSUME faults = 0 PROVE (NetAwaited /\ HandleKept /\ \A d \in Client : UploadCall(client[d]))'
    BY <1>3 DEF UploadClean
  <1>4. NetAwaited /\ HandleKept /\ \A d \in Client : UploadCall(client[d])
    BY DEF UploadClean
  <1>5. PICK c, q, s, r : c = m.from /\ q = m.req /\ s = client[c] /\ r = client'[c]
    OBVIOUS
  <1>6. /\ c \in Client /\ s.op \in Multipart /\ s.req = q /\ s.phase = "wait" /\ s.answer = NoAnswer
        /\ r.op = s.op /\ r.req = s.req /\ r.phase = "wait" /\ r.answer = a /\ r.res = "none"
        /\ upload' = up /\ NetAwaited'
        /\ \A d \in Client \ {c} :
              client[d].phase = "idle" /\ client'[d].phase = "idle" /\ UploadCall(client[d])'
    <2>1. OneAnswer(m, up, a)
      BY <1>2, <1>4, CleanAnswer
    <2>. QED BY <1>5, <2>1 DEF OneAnswer
  <1>7. ASSUME NEW o2, NEW up2, NEW a2, Served(m, o2, up2, a2) PROVE upload' = up2 /\ r.answer = a2
    <2>1. OneAnswer(m, up2, a2)
      BY <1>4, <1>7, CleanAnswer
    <2>. QED BY <1>5, <2>1 DEF OneAnswer
  <1>8. Match(s.op, q.kind) /\ UploadCall(s) /\ ReqOK(q) /\ ~Expired(m.from)
    BY <1>4, <1>5, <1>6 DEF RemoteInv, CallOK, Formed, KeptOK, Expired, UploadModes
  <1>9. \A n : ~Arrived(n)
    BY <1>5, <1>6, NoneArrived
  <1>10. SUFFICES HandleKept' /\ UploadCall(r)'
    <2>1. UploadCall(r)' => UploadCall(client[c])'
      BY <1>5 DEF UploadCall, Acceptable
    <2>. QED BY <1>6, <2>1
  <1>11. CASE s.op = "create"
    <2> DEFINE free == {x \in UploadId : upload[x] = Missing}
               new == [n \in PartNumber |-> Missing]
    <2>1. q.kind = "CREATE"
      BY <1>8, <1>11 DEF Match
    <2>2. PICK u : u = Min(free)
      OBVIOUS
    <2>3. free # {} /\ Served(m, object, [upload EXCEPT ![u] = new], Answer(200, u))
      BY <1>5, <1>8, <2>1, <2>2 DEF Serve
    <2>4. u \in UploadId /\ upload[u] = Missing
      <3>1. free \in SUBSET Nat
        BY RemoteAssumption
      <3>2. u \in free
        <4> HIDE DEF free
        <4>. QED BY <2>2, <2>3, <3>1, LeastMember
      <3>. QED BY <3>2
    <2>5. new # Missing
      <3>1. new \in [PartNumber -> Payload \cup {Missing}]
        OBVIOUS
      <3> HIDE DEF new
      <3>. QED BY <3>1, RemoteAssumption
    <2> HIDE DEF new
    <2>6. upload' = [upload EXCEPT ![u] = new] /\ r.answer = Answer(200, u)
      BY <1>7, <2>3
    <2>7. Answer(200, u).body = u
      BY DEF Answer, NoAnswer
    <2>8. upload'[u] # Missing /\ \A x \in UploadId \ {u} : upload'[x] = upload[x]
      BY <2>4, <2>5, <2>6 DEF KeptOK
    <2>9. HandleKept'
      <3> SUFFICES ASSUME handle # NoHandle
                   PROVE  /\ handle.id \in UploadId /\ upload'[handle.id] # Missing
                          /\ \A i \in DOMAIN handle.parts : Single(handle.parts, i) =>
                                upload'[handle.id][handle.parts[i][1]] = handle.parts[i][2]
        BY <1>3 DEF HandleKept
      <3>1. /\ handle.id \in UploadId /\ upload[handle.id] # Missing
            /\ \A i \in DOMAIN handle.parts : Single(handle.parts, i) =>
                  upload[handle.id][handle.parts[i][1]] = handle.parts[i][2]
        BY <1>4, <1>9 DEF HandleKept
      <3>2. upload'[handle.id] = upload[handle.id]
        BY <2>4, <2>8, <3>1
      <3>. QED BY <3>1, <3>2
    <2>10. UploadCall(r)'
      BY <1>6, <1>11, <2>6, <2>7, <2>8 DEF UploadCall
    <2>. QED BY <2>9, <2>10
  <1>12. CASE s.op = "part"
    <2>1. q.kind = "PART" /\ handle # NoHandle /\ q.id = handle.id
      BY <1>6, <1>8, <1>12 DEF Match, UploadCall
    <2>2. handle.id \in UploadId /\ upload[q.id] # Missing
      BY <1>4, <2>1 DEF HandleKept
    <2>3. PICK n, v : n = q.data[1][1] /\ v = q.data[1][2]
      OBVIOUS
    <2>4. n \in PartNumber /\ v \in Payload
      BY <1>8, <2>1, <2>3 DEF ReqOK, Part
    <2>5. Served(m, object, [upload EXCEPT ![q.id][n] = v], Answer(200, <<>>))
      BY <1>5, <1>8, <2>1, <2>2, <2>3 DEF Serve
    <2>6. upload' = [upload EXCEPT ![q.id][n] = v] /\ r.answer = Answer(200, <<>>)
      BY <1>7, <2>5
    <2>7. r.answer.status = 200 /\ r.answer # NoAnswer
      BY <2>6, AnswerFacts
    <2>8. upload[q.id] \in [PartNumber -> Payload \cup {Missing}] /\ DOMAIN upload = UploadId
      BY <2>1, <2>2 DEF KeptOK
    <2>9. PICK f : f = [upload[q.id] EXCEPT ![n] = v]
      OBVIOUS
    <2>10. f \in [PartNumber -> Payload \cup {Missing}] /\ f[n] = v
      BY <2>4, <2>8, <2>9
    <2>11. upload'[q.id] = f
      BY <2>1, <2>2, <2>6, <2>8, <2>9
    <2>12. f # Missing
      BY <2>10, RemoteAssumption
    <2>13. HandleKept'
      <3> SUFFICES ASSUME NEW i \in DOMAIN handle.parts, Single(handle.parts, i),
                          ~Arrived(handle.parts[i][1])'
                   PROVE  upload'[handle.id][handle.parts[i][1]] = handle.parts[i][2]
        BY <1>3, <2>1, <2>2, <2>11, <2>12 DEF HandleKept
      <3>1. Arrived(n)'
        BY <1>5, <1>6, <1>12, <2>3, <2>7 DEF Arrived
      <3>2. handle.parts[i][1] # n
        BY <1>3, <3>1
      <3>3. upload[handle.id][handle.parts[i][1]] = handle.parts[i][2]
        BY <1>4, <1>9, <2>1 DEF HandleKept
      <3>4. handle.parts[i][1] \in PartNumber
        <4>1. handle.parts \in Seq(Part)
          BY DEF KeptOK
        <4>2. handle.parts[i] \in Part
          BY <4>1
        <4>. QED BY <4>2 DEF Part
      <3>5. f[handle.parts[i][1]] = upload[q.id][handle.parts[i][1]]
        BY <2>8, <2>9, <3>2, <3>4
      <3>. QED BY <2>1, <2>11, <3>3, <3>5
    <2>14. upload'[q.id][q.data[1][1]] = q.data[1][2]
      BY <2>3, <2>10, <2>11
    <2>15. UploadCall(r)'
      BY <1>3, <1>6, <1>12, <2>1, <2>7, <2>14 DEF UploadCall
    <2>. QED BY <2>13, <2>15
  <1>13. CASE s.op \in {"complete", "abort"}
    <2>1. handle = NoHandle /\ handle' = NoHandle
      BY <1>3, <1>6, <1>8, <1>13 DEF UploadCall
    <2>2. HandleKept'
      BY <2>1 DEF HandleKept
    <2>3. CASE s.op = "abort"
      BY <1>6, <2>1, <2>2, <2>3 DEF UploadCall
    <2>4. CASE s.op = "complete"
      <3>1. /\ q.kind = "COMPLETE" /\ upload[q.id] # Missing
            /\ Unusable(q.data) \/ Acceptable(q.id, q.data)
        BY <1>6, <1>8, <2>4 DEF Match, UploadCall
      <3>2. \/ /\ Served(m, object, upload, Answer(400, <<>>)) /\ ~Acceptable(q.id, q.data)
            \/ \E o2, up2 : Served(m, o2, up2, Answer(200, <<>>))
        BY <1>5, <1>8, <3>1 DEF Serve
      <3>3. \/ r.answer = Answer(400, <<>>) /\ Unusable(q.data)
            \/ r.answer = Answer(200, <<>>)
        BY <1>7, <3>1, <3>2
      <3>4. /\ r.answer.status = 200 \/ (r.answer.status = 400 /\ Unusable(q.data))
            /\ r.answer # NoAnswer
        BY <3>3, AnswerFacts
      <3>5. UploadCall(r)'
        BY <1>6, <2>1, <2>4, <3>4 DEF UploadCall
      <3>. QED BY <2>2, <3>5
    <2>. QED BY <1>13, <2>3, <2>4
  <1>. QED BY <1>6, <1>11, <1>12, <1>13 DEF Multipart

\* Uploads stay clean in every step, until an attempt is given up or refused.
LEMMA CleanStep ==
    RemoteInv /\ KeptOK /\ UploadModes /\ UploadClean /\ [RemoteNext]_remoteVars => UploadClean'
  <1> SUFFICES ASSUME RemoteInv, KeptOK, UploadModes, UploadClean, [RemoteNext]_remoteVars PROVE UploadClean'
    OBVIOUS
  <1>0. handle \in Handles /\ faults \in Nat
    BY DEF KeptOK, Handles, UploadModes
  <1>1. ASSUME UNCHANGED <<uploading, faults, upload, handle, net, client>> PROVE UploadClean'
    BY <1>1 DEF UploadClean, NetAwaited, Message, Awaits, HandleKept, Arrived, UploadCall, Acceptable
  <1>2. CASE UNCHANGED remoteVars
    BY <1>1, <1>2 DEF remoteVars, setup, serviceVars
  <1>3. CASE Tick
    BY <1>1, <1>3 DEF Tick, setup, serviceVars
  <1>4. ASSUME uploading' = uploading, ~uploading PROVE UploadClean'
    BY <1>4 DEF UploadClean
  <1>5. ASSUME NEW c \in Client, NEW op, NEW req, Plain(c, op, req), ObjectReq(op, req) PROVE UploadClean'
    <2>1. uploading' = uploading /\ ~uploading
      BY <1>5 DEF Plain, BeginCall, setup
    <2>. QED BY <1>4, <2>1
  <1>6. ASSUME NEW c \in Client, create_multipart_upload(c) \/ complete(c) \/ abort(c) PROVE UploadClean'
    <2>1. CASE create_multipart_upload(c)
      <3>1. PICK q : /\ BeginCall(c, "create", q) /\ handle' = handle
                     /\ uploading /\ \A d \in Client : ~Busy(d)
        BY <1>0, <2>1, UploadRequests
      <3>. QED BY <3>1, CleanBegun
    <2>2. CASE complete(c)
      <3>1. PICK q : /\ BeginCall(c, "complete", q)
                     /\ handle # NoHandle /\ handle' = NoHandle /\ q.id = handle.id
                     /\ Permuted(handle.parts, q.data)
                     /\ uploading /\ \A d \in Client : ~Busy(d)
        BY <1>0, <2>2, UploadRequests
      <3>. QED BY <3>1, CleanBegun
    <2>3. CASE abort(c)
      <3>1. PICK q : /\ BeginCall(c, "abort", q) /\ handle' = NoHandle
                     /\ uploading /\ \A d \in Client : ~Busy(d)
        BY <1>0, <2>3, UploadRequests
      <3>. QED BY <3>1, CleanBegun
    <2>. QED BY <1>6, <2>1, <2>2, <2>3
  <1>7. ASSUME NEW c \in Client, NEW n \in PartNumber, NEW v \in Payload, upload_part(c, n, v)
        PROVE  UploadClean'
    <2>1. PICK q : /\ BeginCall(c, "part", q) /\ handle # NoHandle /\ handle' = handle /\ q.id = handle.id
                   /\ uploading /\ \A d \in Client : ~Busy(d)
      BY <1>0, <1>7, UploadRequests
    <2>. QED BY <2>1, CleanBegun
  <1>8. ASSUME NEW c \in Client, Goes(c) PROVE UploadClean'
    <2>1. uploading' = uploading
      BY <1>8 DEF Goes
    <2>2. CASE uploading
      BY <1>8, <2>2, CleanGoes
    <2>3. CASE ~uploading
      BY <1>4, <2>1, <2>3
    <2>. QED BY <2>2, <2>3
  <1>9. ASSUME NEW c \in Client, Receive(c) PROVE UploadClean'
    <2>1. uploading' = uploading
      BY <1>9 DEF Receive, setup
    <2>2. CASE uploading
      BY <1>9, <2>2, CleanReceived
    <2>3. CASE ~uploading
      BY <1>4, <2>1, <2>3
    <2>. QED BY <2>2, <2>3
  <1>10. ASSUME NEW m \in net, Serve(m) PROVE UploadClean'
    <2>1. RemoteTypes /\ m.req.kind \in Kinds
      BY DEF RemoteInv, NetOK
    <2>2. uploading' = uploading
      BY <1>10, <2>1, ServeFacts DEF Served, setup
    <2>3. CASE uploading
      BY <1>10, <2>3, CleanServed
    <2>4. CASE ~uploading
      BY <1>4, <2>2, <2>4
    <2>. QED BY <2>3, <2>4
  <1>11. ASSUME NEW m \in net, Refuse(m) PROVE UploadClean'
    <2>1. faults' # 0
      BY <1>0, <1>11 DEF Refuse
    <2>. QED BY <2>1 DEF UploadClean
  <1>12. CASE RemoteNext
    BY <1>3, <1>5, <1>6, <1>7, <1>8, <1>9, <1>10, <1>11, <1>12, RemoteCases
  <1>. QED BY <1>2, <1>12

\* In every state.
LEMMA CleanInductive == Spec => []UploadClean
  <1>1. Init => UploadClean
    <2> SUFFICES ASSUME Init PROVE UploadClean
      OBVIOUS
    <2>1. net = {} /\ handle = NoHandle /\ client = [c \in Client |-> NoCall]
      BY DEF Init, RemoteInit
    <2>2. NoCall.op = "none" /\ NoCall.phase = "idle"
      BY DEF NoCall
    <2>3. UploadCall(NoCall)
      BY <2>2 DEF UploadCall
    <2>. QED BY <2>1, <2>3 DEF UploadClean, NetAwaited, HandleKept
  <1>2. RemoteInv /\ KeptOK /\ UploadModes /\ UploadClean /\ [Next]_vars => UploadClean'
    <2>1. UNCHANGED remoteVars => (UploadClean => UploadClean')
      BY DEF remoteVars, setup, serviceVars, UploadClean, NetAwaited, Message, Awaits, HandleKept,
             Arrived, UploadCall, Acceptable
    <2>. QED BY <2>1, CleanStep DEF Next, vars
  <1>. QED BY <1>1, <1>2, RemoteInvariance, KeptInductive, ModesInductive, PTL DEF Spec

\* CompleteSucceeds is what the invariant says of a complete that failed.
LEMMA CompleteFacts ==
    ASSUME UploadModes, UploadClean
    PROVE  CompleteSucceeds
  <1> SUFFICES ASSUME NEW c \in Client, client[c].op = "complete", client[c].res = "multipart_error",
                      ~(faults > 0)
               PROVE  Unusable(client[c].req.data)
    BY DEF CompleteSucceeds, Unusable
  <1>1. uploading /\ faults = 0
    BY DEF UploadModes, Multipart
  <1>2. UploadCall(client[c])
    BY <1>1 DEF UploadClean
  <1>. QED BY <1>2 DEF UploadCall

\* A client is told an error only if there is a reason for it; above all,
\* complete fails only after an attempt was given up or refused, or if a part
\* number was used twice or none at all.
THEOREM Errors == Spec => []ErrorsHonest
  <1>1. UploadModes /\ UploadClean => CompleteSucceeds
    BY CompleteFacts
  <1>2. (NotFoundHonest /\ TokenOutlastsMargin) /\ CompleteSucceeds => ErrorsHonest
    BY DEF ErrorsHonest
  <1>. QED BY <1>1, <1>2, ErrorsHaveReasons, ModesInductive, CleanInductive, PTL
=============================================================================
