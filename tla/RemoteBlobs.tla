---------------------------- MODULE RemoteBlobs ------------------------------
(***************************************************************************)
(* S3BlobStore, GcsBlobStore and AzureBlobStore: clients of an object      *)
(* service across a network.                                               *)
(*                                                                         *)
(* A call builds a request, sends it and waits for the answer.  The        *)
(* service serves a request once, some time after it was sent, or never,   *)
(* or refuses it.  A client that waited too long gives up the attempt,     *)
(* which may be served nevertheless, later.  S3BlobStore then tries again, *)
(* up to max_attempts; the other two return an error.  Listings come in    *)
(* pages.  GcsBlobStore first needs a bearer token, which its handles      *)
(* share.  S3's multipart uploads are calls on a handle.                   *)
(*                                                                         *)
(* The service is external: Serve says what its documented interface does. *)
(***************************************************************************)
EXTENDS Sequences, FiniteSetsExt, Ascending

CONSTANTS Client,
          Names,         \* the keys, in lexicographic order
          Payload,       \* what is put
          Initial,       \* initial objects
          Missing,       \* no object
          Unknown,       \* no prediction
          Attempts,      \* the values of max_attempts to consider
          PartNumber,    \* part numbers of an upload
          UploadId,      \* numbers the service gives to uploads
          Margin,        \* the 60 seconds acquire_token wants a token to last
          TokenLife,     \* the expires_in the token endpoint answers
          MaxClock,      \* bound on the clock
          MaxPage,       \* bound on the keys of a page
          MaxCalls,      \* bound on the calls of a client of objects
          MaxSteps,      \* bound on the calls of a client of an upload
          MaxFaults(_)   \* bound, per service, on attempts given up or refused

Name == {Names[i] : i \in DOMAIN Names}
Rank(k) == CHOOSE i \in DOMAIN Names : Names[i] = k

ASSUME RemoteAssumption ==
    /\ Attempts \subseteq Nat /\ PartNumber \subseteq Nat /\ TokenLife \subseteq Nat
    /\ Margin \in Nat /\ MaxClock \in Nat /\ MaxPage \in Nat /\ MaxCalls \in Nat
    /\ MaxSteps \in Nat /\ UploadId \subseteq Nat \ {0}
    /\ \A s \in {"s3", "gcs", "azure"} : MaxFaults(s) \in Nat
    /\ Names \in Seq(Name) /\ \A i, j \in DOMAIN Names : Names[i] = Names[j] => i = j
    /\ Initial \subseteq [Name -> Seq(Payload) \cup {Missing}]
    /\ Missing \notin [PartNumber -> Payload \cup {Missing}]

VARIABLES
    service,       \* "s3", "gcs" or "azure"
    max_attempts,  \* RetryConfig::max_attempts; 1 where there is no retry
    object,        \* the service's objects, each the sequence of its parts
    upload,        \* the service's multipart uploads: their parts, or Missing
    uploading,     \* do the clients upload in parts
    net,           \* requests sent and not served
    client,        \* what every client is doing
    handle,        \* the S3MultipartUpload: upload id and parts recorded
    token,         \* GCS: expiry of the cached token, 0 for none
    clock,
    calls,         \* calls begun
    faults,        \* attempts given up and requests refused
    expected       \* history: the object a key must have, or Unknown

setup == <<service, max_attempts, uploading>>   \* fixed
serviceVars == <<object, upload>>
remoteVars == <<setup, serviceVars, net, client, handle, token, clock,
                calls, faults, expected>>

-----------------------------------------------------------------------------
(***************************************************************************)
(* Clients.                                                                *)
(***************************************************************************)
\* id: tells calls apart; req: the request; phase: what the call is at;
\* tries: attempts made; answer: arrived and not yet looked at; out, todo: a
\* listing's keys and the ones list_meta has still to look at; lasts, since:
\* expiry of the token in use and when it was acquired; brief: it was new and
\* short-lived; dirty: keys that requests of other calls wrote meanwhile;
\* absent: keys missing at some instant of the call; ever, always: keys there
\* at some, at every, instant; hollow: a page was empty.
NoReq == [kind |-> "none", key |-> Missing, data |-> <<>>, src |-> Missing, marker |-> 0,
          id |-> 0]
NoAnswer == [status |-> 0, body |-> <<>>, more |-> FALSE, marker |-> 0]
NoCall == [op |-> "none", id |-> 0, req |-> NoReq, phase |-> "idle", tries |-> 0, res |-> "none",
           answer |-> NoAnswer, out |-> <<>>, todo |-> <<>>, lasts |-> 0, since |-> 0,
           brief |-> FALSE, dirty |-> {},
           absent |-> {}, ever |-> {}, always |-> {}, hollow |-> FALSE]

Busy(c) == client[c].phase # "idle"
There(objects) == {k \in Name : objects[k] # Missing}
Writes(req) == req.kind \in {"PUT", "COPY", "DELETE", "COMPLETE"}

\* history: a write of k is under way, or an attempt at one may still land.
Disturbed(c, k) ==
    \/ \E d \in Client \ {c} : Busy(d) /\ Writes(client[d].req) /\ client[d].req.key = k
    \/ \E m \in net : Writes(m.req) /\ m.req.key = k
    \/ k \in client[c].dirty

NoHandle == [id |-> 0, parts |-> <<>>]

RemoteInit ==
    /\ service \in {"s3", "gcs", "azure"}
    /\ max_attempts \in (IF service = "s3" THEN Attempts ELSE {1})
    /\ object \in Initial
    /\ upload = [u \in UploadId |-> Missing]
    /\ uploading \in (IF service = "s3" THEN BOOLEAN ELSE {FALSE})
    /\ net = {}
    /\ client = [c \in Client |-> NoCall]
    /\ handle = NoHandle
    /\ token \in (IF service = "gcs" THEN {Margin + 1} ELSE {0})
    /\ clock = 0
    /\ calls = 0
    /\ faults = 0
    /\ expected = object

\* The keys the histories of a call are about.
Watched(req) ==
    CASE req.kind = "LIST" -> Name
      [] req.kind = "COPY" -> {req.src}
      [] req.kind \in {"GET", "HEAD", "DELETE"} -> {req.key}
      [] OTHER -> {}

\* GCS acquires a token first, once per call.
BeginCall(c, op, req) ==
    /\ ~Busy(c)
    /\ calls' = calls + 1
    /\ client' = [client EXCEPT ![c] =
                    [NoCall EXCEPT !.op = op, !.id = calls + 1, !.req = req,
                                   !.phase = IF service = "gcs" THEN "token" ELSE "send",
                                   !.absent = Watched(req) \ There(object),
                                   !.ever = Watched(req) \cap There(object),
                                   !.always = Watched(req) \cap There(object)]]
    /\ expected' = IF Writes(req) THEN [expected EXCEPT ![req.key] = Unknown] ELSE expected
    /\ UNCHANGED <<setup, serviceVars, net, token, clock, faults>>

Req(kind, k) == [NoReq EXCEPT !.kind = kind, !.key = k]

Plain(c, op, req) ==
    /\ ~uploading /\ calls < MaxCalls
    /\ BeginCall(c, op, req)
    /\ UNCHANGED handle

Put(c, k, v) == Plain(c, "put", [Req("PUT", k) EXCEPT !.data = <<v>>])
Get(c, k) == Plain(c, "get", Req("GET", k))
Delete(c, k) == Plain(c, "delete", Req("DELETE", k))
HeadOf(c, k) == Plain(c, "head", Req("HEAD", k))
List(c) == Plain(c, "list", Req("LIST", Missing))

s3_put(c, k, v) == service = "s3" /\ Put(c, k, v)
s3_get(c, k) == service = "s3" /\ Get(c, k)
s3_delete(c, k) == service = "s3" /\ Delete(c, k)
s3_head(c, k) == service = "s3" /\ HeadOf(c, k)
s3_list(c) == service = "s3" /\ List(c)
\* On the service: no data passes the client.
s3_copy(c, src, dst) == service = "s3" /\ Plain(c, "copy", [Req("COPY", dst) EXCEPT !.src = src])

gcs_put(c, k, v) == service = "gcs" /\ Put(c, k, v)
gcs_get(c, k) == service = "gcs" /\ Get(c, k)
gcs_delete(c, k) == service = "gcs" /\ Delete(c, k)
gcs_head(c, k) == service = "gcs" /\ HeadOf(c, k)
gcs_list(c) == service = "gcs" /\ List(c)

azure_put(c, k, v) == service = "azure" /\ Put(c, k, v)
azure_get(c, k) == service = "azure" /\ Get(c, k)
azure_delete(c, k) == service = "azure" /\ Delete(c, k)
azure_head(c, k) == service = "azure" /\ HeadOf(c, k)
azure_list(c) == service = "azure" /\ List(c)

\* The trait's default: list, then head for every key.
remote_list_meta(c) == Plain(c, "list_meta", Req("LIST", Missing))

\* The handle of an upload has one owner, who makes one call at a time.
Uploading(c, op, req) ==
    /\ uploading /\ calls < MaxSteps
    /\ \A d \in Client : ~Busy(d)
    /\ BeginCall(c, op, [req EXCEPT !.id = handle.id])

Object == Names[1]
create_multipart_upload(c) ==
    /\ handle = NoHandle
    /\ Uploading(c, "create", Req("CREATE", Object))
    /\ UNCHANGED handle
upload_part(c, n, v) ==
    /\ handle # NoHandle
    /\ Uploading(c, "part", [Req("PART", Object) EXCEPT !.data = <<<<n, v>>>>])
    /\ UNCHANGED handle

\* sort_by_key on the part numbers, a stable sort: a part comes after those
\* with a smaller number and those with the same number before it.
Place(parts, i) ==
    LET before(j) == parts[j][1] < parts[i][1] \/ (parts[j][1] = parts[i][1] /\ j <= i)
    IN  Cardinality({j \in DOMAIN parts : before(j)})
sort_by_key(parts) == [p \in DOMAIN parts |-> parts[CHOOSE i \in DOMAIN parts : Place(parts, i) = p]]

\* Mutant: the parts go in the order they were uploaded.
complete_unsorted(c) ==
    /\ handle # NoHandle
    /\ Uploading(c, "complete", [Req("COMPLETE", Object) EXCEPT !.data = handle.parts])
    /\ handle' = NoHandle

\* complete and abort take the handle, whatever comes of them.
complete(c) ==
    /\ handle # NoHandle
    /\ Uploading(c, "complete", [Req("COMPLETE", Object) EXCEPT !.data = sort_by_key(handle.parts)])
    /\ handle' = NoHandle
abort(c) ==
    /\ handle # NoHandle
    /\ Uploading(c, "abort", Req("ABORT", Object))
    /\ handle' = NoHandle

-----------------------------------------------------------------------------
(***************************************************************************)
(* The bearer token.  acquire_token holds the mutex over the exchange, so  *)
(* it is one step; the exchange may fail.                                  *)
(***************************************************************************)
Lasts(expiry) == clock + Margin < expiry

acquire_token(c) ==
    /\ client[c].phase = "token"
    /\ \E life \in TokenLife :
        LET expiry == IF Lasts(token) THEN token ELSE clock + life
        IN  /\ token' = expiry
            /\ client' = [client EXCEPT ![c].phase = "send", ![c].lasts = expiry,
                                        ![c].since = clock,
                                        ![c].brief = ~Lasts(token) /\ life <= Margin]
    /\ UNCHANGED <<setup, serviceVars, net, handle, clock, calls, faults, expected>>

acquire_token_fails(c) ==
    /\ client[c].phase = "token"
    /\ ~Lasts(token)
    /\ client' = [client EXCEPT ![c].phase = "idle", ![c].res = "error"]
    /\ UNCHANGED <<setup, serviceVars, net, handle, token, clock, calls, faults, expected>>

Tick ==
    /\ service = "gcs"
    /\ clock < MaxClock
    /\ clock' = clock + 1
    /\ UNCHANGED <<setup, serviceVars, net, client, handle, token, calls, faults, expected>>

-----------------------------------------------------------------------------
(***************************************************************************)
(* Sending and waiting.                                                    *)
(***************************************************************************)
\* A call out of attempts returns RetryExhausted, with max_attempts = 0 at
\* once; the services without a retry return the transport error.
Resend(s) ==
    IF s.tries < max_attempts THEN [s EXCEPT !.phase = "send", !.answer = NoAnswer]
    ELSE [s EXCEPT !.phase = "idle", !.answer = NoAnswer,
                 !.res = IF service = "s3" THEN "retry_exhausted" ELSE "error"]

send_once(c) ==
    LET s == client[c]
    IN  /\ s.phase = "send"
        /\ IF s.tries < max_attempts
           THEN /\ net' = net \cup {[from |-> c, try |-> s.tries, call |-> s.id, req |-> s.req]}
                /\ client' = [client EXCEPT ![c].phase = "wait", ![c].tries = @ + 1]
           ELSE /\ client' = [client EXCEPT ![c] = Resend(s)]
                /\ UNCHANGED net
        /\ UNCHANGED <<setup, serviceVars, handle, token, clock, calls, faults, expected>>

\* A transport error: the connection broke or the timeout passed, before or
\* after the service answered.
TransportError(c) ==
    LET s == client[c]
    IN  /\ s.phase = "wait"
        /\ faults < MaxFaults(service)
        /\ faults' = faults + 1
        /\ client' = [client EXCEPT ![c] = Resend(s)]
        /\ UNCHANGED <<setup, serviceVars, net, handle, token, clock, calls, expected>>

\* Is client c still waiting for the answer to m?
Awaits(c, m) ==
    /\ m.from = c /\ m.call = client[c].id /\ client[c].phase = "wait" /\ client[c].answer = NoAnswer
    /\ client[c].tries = m.try + 1 /\ client[c].req = m.req

\* The body of an error is <<>> for a missing key, NoSuchKey or none at all,
\* and ErrorCode for any other code.
Answer(status, body) == [NoAnswer EXCEPT !.status = status, !.body = body]
ErrorCode == <<"code">>

\* m is served: the objects become objects, the upload up, the answer a.
Served(m, objects, up, a) ==
    /\ net' = net \ {m}
    /\ object' = objects
    /\ upload' = up
    /\ client' = [c \in Client |->
                   LET s == IF Awaits(c, m) THEN [client[c] EXCEPT !.answer = a] ELSE client[c]
                   IN  IF ~Busy(c) THEN s
                       ELSE [s EXCEPT !.dirty = IF Writes(m.req) /\ m.call # s.id
                                                THEN @ \cup {m.req.key} ELSE @,
                                      !.absent = @ \cup (Watched(s.req) \ There(objects)),
                                      !.ever = @ \cup (Watched(s.req) \cap There(objects)),
                                      !.always = @ \cap There(objects)]]
    /\ UNCHANGED <<setup, handle, token, clock, calls, faults, expected>>

\* The pages the service may answer with: some of the next keys, or none, and,
\* when there are more, where to go on.
Pages(marker) ==
    LET rest == Sorted({i \in DOMAIN Names : object[Names[i]] # Missing /\ i > marker})
    IN  {[status |-> 200, body |-> [i \in 1..n |-> Names[rest[i]]],
          more |-> n < Len(rest), marker |-> IF n = Len(rest) THEN 0 ELSE rest[n + 1] - 1] :
            n \in {i \in 0..Len(rest) : i <= MaxPage}}

\* The parts named by a CompleteMultipartUpload are ascending and as stored.
Acceptable(u, parts) ==
    /\ parts # <<>>
    /\ \A i, j \in DOMAIN parts : i < j => parts[i][1] < parts[j][1]
    /\ \A i \in DOMAIN parts : upload[u][parts[i][1]] = parts[i][2]

Expired(c) == service = "gcs" /\ client[c].lasts <= clock

Serve(m) ==
    LET q == m.req
        k == q.key
        same(a) == Served(m, object, upload, a)
        found == k \in Name /\ object[k] # Missing
    IN  /\ m \in net
        /\ IF Expired(m.from) THEN same(Answer(401, <<>>)) ELSE
           CASE q.kind = "PUT" ->
                  Served(m, [object EXCEPT ![k] = q.data], upload,
                         Answer(IF service = "azure" THEN 201 ELSE 200, <<>>))
             [] q.kind = "GET" -> same(IF found THEN Answer(200, object[k]) ELSE Answer(404, <<>>))
             [] q.kind = "HEAD" -> same(Answer(IF found THEN 200 ELSE 404, <<>>))
             [] q.kind = "DELETE" ->
                  \* S3 itself says 204 for a missing object, compatible services 404.
                  \E status \in {202, 204, 404} :
                    /\ status = 404 => ~found
                    /\ status # 404 /\ ~found => service = "s3"
                    /\ status = 202 <=> service = "azure" /\ found
                    /\ Served(m, [object EXCEPT ![k] = Missing], upload, Answer(status, <<>>))
             [] q.kind = "COPY" ->
                  IF object[q.src] = Missing THEN same(Answer(404, <<>>))
                  ELSE Served(m, [object EXCEPT ![k] = object[q.src]], upload, Answer(200, <<>>))
             [] q.kind = "LIST" -> \E page \in Pages(q.marker) : same(page)
             [] q.kind = "CREATE" ->
                  LET free == {x \in UploadId : upload[x] = Missing}
                      u == Min(free)
                  IN  free # {} /\ Served(m, object, [upload EXCEPT ![u] = [n \in PartNumber |-> Missing]],
                             Answer(200, u))
             [] q.kind \in {"PART", "COMPLETE", "ABORT"} /\ upload[q.id] = Missing ->
                  same(Answer(404, <<>>))
             [] q.kind = "PART" /\ upload[q.id] # Missing ->
                  Served(m, object, [upload EXCEPT ![q.id][q.data[1][1]] = q.data[1][2]], Answer(200, <<>>))
             [] q.kind = "COMPLETE" /\ upload[q.id] # Missing ->
                  IF ~Acceptable(q.id, q.data) THEN same(Answer(400, <<>>))
                  ELSE Served(m, [object EXCEPT ![k] = [i \in DOMAIN q.data |-> q.data[i][2]]],
                              [upload EXCEPT ![q.id] = Missing], Answer(200, <<>>))
             [] q.kind = "ABORT" /\ upload[q.id] # Missing ->
                  Served(m, object, [upload EXCEPT ![q.id] = Missing], Answer(204, <<>>))

\* What a service that is overloaded or broken answers; S3 may be missing
\* something else than the key, and may fail a copy or a completion after it
\* has sent the status 200.
Refusals(req) ==
    {Answer(500, <<>>), Answer(503, <<>>)}
        \cup (IF service = "s3" THEN {Answer(404, ErrorCode)} ELSE {})
        \cup (IF req.kind \in {"COPY", "COMPLETE"} THEN {Answer(200, ErrorCode)} ELSE {})

\* The service does not serve m.
Refuse(m) ==
    /\ m \in net
    /\ faults < MaxFaults(service)
    /\ faults' = faults + 1
    /\ \E a \in Refusals(m.req) :
        client' = [c \in Client |->
                    IF Awaits(c, m) THEN [client[c] EXCEPT !.answer = a] ELSE client[c]]
    /\ net' = net \ {m}
    /\ UNCHANGED <<setup, serviceVars, handle, token, clock, calls, expected>>

-----------------------------------------------------------------------------
(***************************************************************************)
(* What the clients make of an answer.                                     *)
(***************************************************************************)
\* The statuses that mean success, per operation.
s3_accepts(op) ==
    CASE op \in {"get", "head", "list", "list_meta", "create", "complete"} -> {200}
      [] op = "part" -> {200, 206}
      [] OTHER -> {200, 204}
gcs_accepts(op) ==
    CASE op = "put" -> {200, 201} [] op = "delete" -> {200, 204} [] OTHER -> {200}
azure_accepts(op) ==
    CASE op = "put" -> {200, 201} [] op = "delete" -> {200, 202, 204} [] OTHER -> {200}

Accepts(op) ==
    CASE service = "s3" -> s3_accepts(op)
      [] service = "gcs" -> gcs_accepts(op)
      [] service = "azure" -> azure_accepts(op)

\* The errors the other statuses make.
http_error_to_blob_error(status, body) ==
    IF status = 404 /\ body # ErrorCode THEN "not_found" ELSE "error"
gcs_status_to_blob_error(status) ==
    CASE status = 404 -> "not_found" [] status = 401 -> "denied" [] OTHER -> "error"
azure_error(status) == IF status = 404 THEN "not_found" ELSE "error"

\* Mutant: every other answer means the request was served.
ResultAnyAnswer(s) == IF s.answer.status = 404 THEN "not_found" ELSE "ok"

Result(s) ==
    LET status == s.answer.status
    IN  CASE status \in Accepts(s.op) -> "ok"
          [] status \notin Accepts(s.op) /\ s.op \in {"create", "part", "complete", "abort"} ->
               "multipart_error"
          [] OTHER ->
               CASE service = "s3" -> http_error_to_blob_error(status, s.answer.body)
                 [] service = "gcs" /\ s.req.kind # "LIST" -> gcs_status_to_blob_error(status)
                 [] service = "azure" /\ s.req.kind \notin {"PUT", "LIST"} -> azure_error(status)
                 [] OTHER -> "error"

Return(s, res) == [s EXCEPT !.phase = "idle", !.res = res, !.answer = NoAnswer]
Another(s, phase, req) ==
    [s EXCEPT !.phase = phase, !.req = req, !.tries = 0, !.answer = NoAnswer]

\* list_meta's next key; a key deleted meanwhile fails the whole call.
HeadNext(s) ==
    IF s.todo = <<>> THEN Return(s, "ok")
    ELSE Another(s, IF service = "gcs" THEN "token" ELSE "send", Req("HEAD", Head(s.todo)))

\* Is a page the last one?  GCS takes a page without items for it.
parse_list_objects_v2_page(a) == ~a.more
parse_list_page(a) == ~a.more \/ a.body = <<>>
parse_list_response(a) == ~a.more

\* The loop over the pages.
PageReceived(s) ==
    LET a == s.answer
        got == [s EXCEPT !.out = @ \o a.body,
                         !.hollow = @ \/ (a.body = <<>> /\ a.more)]
        last == CASE service = "s3" -> parse_list_objects_v2_page(a)
                  [] service = "gcs" -> parse_list_page(a)
                  [] service = "azure" -> parse_list_response(a)
    IN  IF ~last THEN Another(got, "send", [s.req EXCEPT !.marker = a.marker])
        ELSE IF s.op = "list" THEN Return(got, "ok")
        ELSE HeadNext([got EXCEPT !.todo = got.out])

\* One HEAD of list_meta answered.
HeadReceived(s) ==
    IF Result(s) # "ok" THEN Return(s, Result(s)) ELSE HeadNext([s EXCEPT !.todo = Tail(@)])

Received(s) ==
    CASE s.req.kind = "LIST" /\ s.answer.status = 200 -> PageReceived(s)
      [] s.req.kind = "LIST" /\ s.answer.status # 200 -> Return(s, Result(s))
      [] s.op = "list_meta" /\ s.req.kind = "HEAD" -> HeadReceived(s)
      [] s.op = "get" -> Return([s EXCEPT !.out = s.answer.body], Result(s))
      [] OTHER -> Return(s, Result(s))

\* history: what an acknowledged write says of its key, when nothing else
\* can be writing it and the answer was not an error with the status 200.
Prediction(s) ==
    CASE s.op = "put" -> s.req.data
      [] s.op = "delete" -> Missing
      [] s.op = "complete" -> [i \in DOMAIN s.req.data |-> s.req.data[i][2]]
      [] OTHER -> Unknown

should_retry_status(status) == status \in {429, 503}

Receive(c) ==
    LET s == client[c]
        again == service = "s3" /\ should_retry_status(s.answer.status)
        next == IF again THEN Resend(s) ELSE Received(s)
        acked == next.phase = "idle" /\ next.res = "ok" /\ Writes(s.req) /\ s.answer.body # ErrorCode
    IN  /\ s.phase = "wait" /\ s.answer # NoAnswer
        /\ client' = [client EXCEPT ![c] = next]
        /\ expected' = IF acked /\ ~Disturbed(c, s.req.key)
                       THEN [expected EXCEPT ![s.req.key] = Prediction(s)] ELSE expected
        /\ handle' = CASE next.res = "ok" /\ s.op = "create" -> [id |-> s.answer.body, parts |-> <<>>]
                       [] next.res = "ok" /\ s.op = "part" ->
                            [handle EXCEPT !.parts = Append(@, s.req.data[1])]
                       [] OTHER -> handle
        /\ UNCHANGED <<setup, serviceVars, net, token, clock, calls, faults>>

-----------------------------------------------------------------------------
RemoteNext ==
    \/ \E c \in Client :
        \/ \E k \in Name :
            \/ s3_get(c, k) \/ s3_delete(c, k) \/ s3_head(c, k)
            \/ gcs_get(c, k) \/ gcs_delete(c, k) \/ gcs_head(c, k)
            \/ azure_get(c, k) \/ azure_delete(c, k) \/ azure_head(c, k)
            \/ \E v \in Payload : s3_put(c, k, v) \/ gcs_put(c, k, v) \/ azure_put(c, k, v)
            \/ \E src \in Name \ {k} : s3_copy(c, src, k)
        \/ s3_list(c) \/ gcs_list(c) \/ azure_list(c) \/ remote_list_meta(c)
        \/ create_multipart_upload(c) \/ complete(c) \/ abort(c)
        \/ \E n \in PartNumber, v \in Payload : upload_part(c, n, v)
        \/ acquire_token(c) \/ acquire_token_fails(c)
        \/ send_once(c) \/ TransportError(c) \/ Receive(c)
    \/ \E m \in net : Serve(m) \/ Refuse(m)
    \/ Tick

-----------------------------------------------------------------------------
(***************************************************************************)
(* Properties.                                                             *)
(***************************************************************************)
\* Every variable holds a value of the shape the code gives it.
RemoteTypeOK ==
    /\ service \in {"s3", "gcs", "azure"} /\ uploading \in BOOLEAN
    /\ object \in [Name -> Seq(Payload) \cup {Missing}]
    /\ \A u \in UploadId :
          upload[u] = Missing \/ upload[u] \in [PartNumber -> Payload \cup {Missing}]
    /\ handle.id \in UploadId \cup {0}
    /\ \A c \in Client : client[c].tries <= max_attempts
    /\ \A m \in net : m.from \in Client /\ m.try \in 0..max_attempts

\* A write that was acknowledged is in effect and stays so, through retries,
\* refusals and lost answers, until another write of the key is begun, unless
\* a request of another call hit the key meanwhile, an attempt that was given
\* up can still reach the service, or a completion's status 200 came with an
\* error, which complete does not look for.
AckedWritesStay == \A k \in Name : expected[k] \in {Unknown, object[k]}

\* NotFound is never invented: the key was missing at some instant of the call.
NotFoundHonest ==
    \A c \in Client :
        LET s == client[c]
        IN  s.res = "not_found" => (IF s.op = "copy" THEN s.req.src ELSE s.req.key) \in s.absent

\* A listing put together from pages is in order, names every key that was
\* there all along and no key that never was; only GcsBlobStore may stop
\* early, at a page without items.
PagesComplete ==
    \A c \in Client :
        LET s == client[c]
            listed == {s.out[i] : i \in DOMAIN s.out}
        IN  s.op \in {"list", "list_meta"} /\ s.res = "ok" =>
              /\ \A i, j \in DOMAIN s.out : i < j => Rank(s.out[i]) < Rank(s.out[j])
              /\ listed \subseteq s.ever
              /\ s.always \subseteq listed \/ (s.hollow /\ service = "gcs")

\* Parts uploaded in any order make a complete upload: complete fails only if
\* an attempt was given up or refused, or a part number was used twice or
\* none at all.
CompleteSucceeds ==
    \A c \in Client :
        LET s == client[c]
            parts == s.req.data
        IN  s.op = "complete" /\ s.res = "multipart_error" =>
              \/ faults > 0
              \/ parts = <<>>
              \/ \E i, j \in DOMAIN parts : i # j /\ parts[i][1] = parts[j][1]

\* A GCS request is denied for an expired token only if the margin passed
\* since the call acquired it, or the endpoint hands out shorter-lived ones.
TokenOutlastsMargin ==
    \A c \in Client :
        client[c].res = "denied" => clock > client[c].since + Margin \/ client[c].brief
=============================================================================
