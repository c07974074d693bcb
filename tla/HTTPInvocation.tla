--------------------------- MODULE HTTPInvocation ---------------------------
(***************************************************************************)
(* One invocation over HTTP: the executor that Effectus resolves from a    *)
(* descriptor (invocation/descriptor.go, http_resolver.go, http.go), the   *)
(* boundary of a business service (executorhttp/handler.go) and the review *)
(* service of the standalone example behind it, with its database.         *)
(*                                                                         *)
(* A call is sent as a first copy.  The transport of net/http may send a   *)
(* second copy of a request that carries an Idempotency-Key when a reused  *)
(* connection breaks before the first byte of an answer, and a proxy may   *)
(* redirect a copy.  A copy keeps running in the service after its client  *)
(* gave up.                                                                *)
(***************************************************************************)
EXTENDS Naturals, Sequences, FiniteSets, TLC

CONSTANTS
  Calls,            \* the calls
  Workloads,        \* what they may ask for, functions from calls to requests
  HTTPDescriptors,  \* the descriptors an executor may be resolved from
  RedirectTargets,  \* the URLs a proxy may redirect to
  MaxRequestBytes,  \* executorhttp.Options.MaxRequestBytes
  MaxFaults         \* bound on the resends, redirects and outages of a behaviour

VARIABLES
  executor,    \* what the registry made of a descriptor
  request,     \* call -> the request it makes
  call,        \* call -> the client's side of it
  copy,        \* call -> copy number -> the service's side of it
  reviews,     \* order_reviews, by idempotency key
  wrote,       \* the calls one of whose copies committed a change (history)
  faults       \* resends, redirects and outages so far

httpVars == <<executor, request, call, copy, reviews, wrote, faults>>

Copies == {1, 2}
Keys == {w[c].key : w \in Workloads, c \in Calls}

-----------------------------------------------------------------------------
(* Descriptors and the resolver.  A setting is a set with at most one      *)
(* element, its value; text that does not parse is the value 0, and stays  *)
(* text where a truth value is expected.                                   *)

reservedHTTPHeaders == {"x-effectus-*", "idempotency-key"}

\* Header names differ in case: [fold, rank], rank the place of the spelling
\* in byte order.
validateStaticHTTPHeaders(headers) ==
  /\ \A i, j \in DOMAIN headers :
        i # j => headers[i].fold # headers[j].fold
  /\ \A i \in DOMAIN headers : headers[i].fold \notin reservedHTTPHeaders

validateCanonicalDescriptorValues(headers) ==
  /\ \A i \in DOMAIN headers : headers[i].fold # ""
  /\ \A i, j \in DOMAIN headers : i < j => headers[i].rank < headers[j].rank
  /\ validateStaticHTTPHeaders(headers)

validateDescriptor(d) ==
  /\ d.type \in {"http", "grpc", "stream", "oci", "embedded"}
  /\ d.type = "oci" => d.pinned
  /\ validateCanonicalDescriptorValues(d.headers)

allowedIP(allowPrivate, ip) ==
  /\ ip \notin {"none", "unspecified", "multicast", "link_local"}
  /\ allowPrivate \/ ip \in {"public", "special_public"}

\* ip is the address class of a literal host, "none" for a name.
validateURL(allowPrivate, url) ==
  /\ url.scheme \in {"http", "https"}
  /\ url.host # "" /\ ~ url.user
  /\ url.host = "localhost" => allowPrivate
  /\ url.ip # "none" => allowedIP(allowPrivate, url.ip)

validateResolvedIPs(allowPrivate, addresses) ==
  addresses # {} /\ \A ip \in addresses : allowedIP(allowPrivate, ip)

Port(url) ==
  IF url.port # 0 THEN url.port ELSE IF url.scheme = "https" THEN 443 ELSE 80

sameHTTPOrigin(left, right) ==
  left.scheme = right.scheme /\ left.host = right.host /\ Port(left) = Port(right)

Unresolved == [ok |-> FALSE]

Setting(values, default) ==
  IF values = {} THEN default ELSE CHOOSE v \in values : TRUE

ResolveHTTP(d) ==
  LET allowPrivate == Setting(d.settings.allow_private_network, "false") = "true"
  IN  IF \/ d.type # "http"
         \/ 0 \in d.settings.timeout
         \/ 0 \in d.settings.max_response_bytes
         \/ ~ d.settings.allow_private_network \subseteq {"true", "false"}
         \/ ~ validateURL(allowPrivate, d.reference)
         \/ ~ validateStaticHTTPHeaders(d.headers)
        THEN Unresolved
        ELSE [ok |-> TRUE, url |-> d.reference,
              method |-> Setting(d.settings.method, "POST"),
              token |-> \E i \in DOMAIN d.headers :
                           d.headers[i].fold = "x-demo-token",
              max |-> Setting(d.settings.max_response_bytes, 1000),
              allowPrivate |-> allowPrivate]

\* Registry.Resolve with the one resolver that the daemon registers.
Resolve(d) ==
  IF validateDescriptor(d) /\ d.resolver = "effectus/http/v1"
    THEN ResolveHTTP(d) ELSE Unresolved

-----------------------------------------------------------------------------
(* Outcomes, and the answers that carry them.                              *)

Success == "success"
Retryable == "retryable_failure_known_not_committed"
Permanent == "permanent_failure"
Unknown == "unknown_outcome"
StaleFence == "stale_fence"
Failures == {Retryable, Permanent, Unknown, StaleFence}

NoAnswer == [status |-> 0, class |-> "", json |-> FALSE, bytes |-> 0]

\* Plain text of http.Error, without the outcome header.
ErrorAnswer(status) == [NoAnswer EXCEPT !.status = status]

writeOutcome(class) ==
  CASE class = Success -> [status |-> 200, class |-> "", json |-> TRUE, bytes |-> 10]
    [] class = Retryable -> [ErrorAnswer(503) EXCEPT !.class = class]
    [] class = Permanent -> [ErrorAnswer(422) EXCEPT !.class = class]
    [] class = StaleFence -> [ErrorAnswer(409) EXCEPT !.class = class]
    [] class = Unknown -> [ErrorAnswer(500) EXCEPT !.class = class]


OutcomeOf(a) ==
  CASE a.bytes > executor.max -> Unknown
    [] a.bytes <= executor.max /\ a.status \in 200..299 ->
         IF a.json THEN Success ELSE Unknown
    [] a.bytes <= executor.max /\ a.status \notin 200..299 ->
         IF a.class \in Failures THEN a.class ELSE Unknown

-----------------------------------------------------------------------------
(* The state.                                                              *)

NoReview == [order |-> "", hash |-> "", status |-> "", cancelKey |-> "",
             cancelHash |-> ""]

NoCopy == [at |-> "none", method |-> "", url |-> [scheme |-> ""], via |-> 0,
           stripped |-> FALSE, work |-> "", answer |-> NoAnswer]

Gone(m) == [m EXCEPT !.at = "gone", !.work = "", !.answer = NoAnswer]

NotCalled == [st |-> "idle", copies |-> 0, outcome |-> ""]

HTTPStart ==
  /\ call = [c \in Calls |-> NotCalled]
  /\ copy = [c \in Calls |-> [i \in Copies |-> NoCopy]]
  /\ reviews = [k \in Keys |-> NoReview]
  /\ wrote = {}
  /\ faults = 0

HTTPInit ==
  /\ executor \in {Resolve(d) : d \in HTTPDescriptors}
  /\ request \in Workloads
  /\ HTTPStart

Fault == faults < MaxFaults /\ faults' = faults + 1

Set(c, i, fields) == copy' = [copy EXCEPT ![c][i] = fields]
Finish(c, class) ==
  call' = [call EXCEPT ![c].st = "done", ![c].outcome = class]

\* The copy whose answer the client of c reads.
Current(c) == copy[c][call[c].copies]

-----------------------------------------------------------------------------
(* The client: HTTPExecutor.Invoke.                                        *)

\* A compensation is enqueued once the forward call of its order succeeded.
Due(c) ==
  request[c].direction = "compensation" =>
    \E d \in Calls :
      /\ request[d].direction = "forward"
      /\ request[d].order = request[c].order
      /\ call[d].outcome = Success

\* Every dial resolves the name again and asks the policy.
Invoke(c, addresses) ==
  /\ executor.ok
  /\ call[c].st = "idle" /\ Due(c)
  /\ IF validateResolvedIPs(executor.allowPrivate, addresses)
       THEN /\ call' = [call EXCEPT ![c].st = "waiting", ![c].copies = 1]
            /\ Set(c, 1, [NoCopy EXCEPT !.at = "wire", !.method = executor.method,
                                        !.url = executor.url])
       ELSE Finish(c, Unknown) /\ UNCHANGED copy
  /\ UNCHANGED <<executor, request, reviews, wrote, faults>>

\* The context is done before anything is sent.
InvokeExpired(c) ==
  /\ executor.ok
  /\ call[c].st = "idle" /\ Due(c)
  /\ Finish(c, Retryable)
  /\ UNCHANGED <<executor, request, copy, reviews, wrote, faults>>

\* Client.Do or the read of the body fails: the timeout of the client, a
\* cancelled context or a broken connection.
SendFails(c) ==
  /\ call[c].st = "waiting"
  /\ Finish(c, Unknown)
  /\ Set(c, call[c].copies,
         IF Current(c).at = "answered" THEN Gone(Current(c)) ELSE Current(c))
  /\ UNCHANGED <<executor, request, reviews, wrote, faults>>

\* The transport of net/http sends the request again: the connection was
\* reused, nothing of an answer has arrived, and Idempotency-Key makes the
\* request replayable.  The first copy goes on.
Resend(c) ==
  /\ call[c].st = "waiting" /\ call[c].copies = 1
  /\ Fault
  /\ call' = [call EXCEPT ![c].copies = 2]
  /\ copy' = [copy EXCEPT ![c] =
       (1 :> IF @[1].at = "answered" THEN Gone(@[1]) ELSE @[1]) @@
       (2 :> [@[1] EXCEPT !.at = "wire", !.work = "", !.answer = NoAnswer])]
  /\ UNCHANGED <<executor, request, reviews, wrote>>

\* CheckRedirect: the limit, the policy, the downgrade, and the headers that
\* another origin does not get.  net/http goes on with a GET on 301, 302 and
\* 303, and sends the request again as it was on 307 and 308.
Redirect(c, status, target) ==
  LET m == Current(c)
      allowed == /\ m.via + 1 < 3
                 /\ validateURL(executor.allowPrivate, target)
                 /\ ~ (m.url.scheme = "https" /\ target.scheme = "http")
  IN  /\ call[c].st = "waiting" /\ m.at = "wire"
      /\ Fault
      /\ IF allowed
           THEN /\ Set(c, call[c].copies,
                       [m EXCEPT !.method = IF status \in {301, 302, 303} THEN "GET" ELSE m.method,
                                 !.url = target, !.via = m.via + 1,
                                 !.stripped = ~ sameHTTPOrigin(executor.url, target)])
                /\ UNCHANGED call
           ELSE /\ Set(c, call[c].copies, Gone(m))
                /\ Finish(c, Unknown)
      /\ UNCHANGED <<executor, request, reviews, wrote>>

ReadAnswer(c) ==
  /\ call[c].st = "waiting" /\ Current(c).at = "answered"
  /\ Finish(c, OutcomeOf(Current(c).answer))
  /\ Set(c, call[c].copies, Gone(Current(c)))
  /\ UNCHANGED <<executor, request, reviews, wrote, faults>>

-----------------------------------------------------------------------------
(* The service.                                                            *)

\* The answer of a copy nobody waits for is dropped.
Reply(c, i, answer) ==
  Set(c, i, IF call[c].st = "waiting" /\ call[c].copies = i
              THEN [copy[c][i] EXCEPT !.at = "answered", !.work = "", !.answer = answer]
              ELSE Gone(copy[c][i]))

\* decodeMetadata and decodeRequest on what setInvocationHeaders wrote: only
\* the headers another origin lost, the size and the hash can be missing.
decodeRequest(m, r) ==
  ~ m.stripped /\ r.bytes <= MaxRequestBytes /\ r.hash = r.canonical

\* The checks of requestReview and cancelReview before a transaction.
Acceptable(r) ==
  /\ r.direction = IF r.verb = "RequestManualReview" THEN "forward" ELSE "compensation"
  /\ r.order # ""

listReviews ==
  [writeOutcome(Success) EXCEPT
     !.bytes = 20 * (1 + Cardinality({k \in Keys : reviews[k] # NoReview}))]

\* The mux, requireToken and NewHandler, to the business function.  A GET of
\* the collection lists the reviews.
Serve(c, i) ==
  LET m == copy[c][i]
      r == request[c]
      lists == m.method = "GET" /\ r.verb = "RequestManualReview"
  IN  /\ m.at = "wire"
      /\ IF ~ (m.method = "POST" \/ lists) THEN Reply(c, i, ErrorAnswer(405))
         ELSE IF m.stripped \/ ~ executor.token THEN Reply(c, i, ErrorAnswer(401))
         ELSE IF lists THEN Reply(c, i, listReviews)
         ELSE IF ~ decodeRequest(m, r) THEN Reply(c, i, ErrorAnswer(400))
         ELSE IF ~ Acceptable(r) THEN Reply(c, i, writeOutcome(Permanent))
         ELSE Set(c, i, [m EXCEPT !.at = "handler"])
      /\ UNCHANGED <<executor, request, call, reviews, wrote, faults>>

BeginTx(c, i) ==
  /\ copy[c][i].at = "handler"
  /\ \/ Set(c, i, [copy[c][i] EXCEPT !.at = "begun"])
     \/ Reply(c, i, writeOutcome(Retryable))
  /\ UNCHANGED <<executor, request, call, reviews, wrote, faults>>

Holding(c, i) == {p \in Calls \X Copies :
                    p # <<c, i>> /\ copy[p[1]][p[2]].at = "holding"}

\* The INSERT of requestReview waits for a transaction that inserted the same
\* key or the same review_id, which is made of the order.
InsertReview(c, i) ==
  LET r == request[c]
      row == reviews[r.key]
  IN  /\ copy[c][i].at = "begun" /\ r.verb = "RequestManualReview"
      /\ \A p \in Holding(c, i) :
           copy[p[1]][p[2]].work = "insert" =>
             request[p[1]].key # r.key /\ request[p[1]].order # r.order
      /\ IF row # NoReview
           THEN IF row.hash # r.hash
                  THEN Reply(c, i, writeOutcome(Permanent))
                  ELSE Set(c, i, [copy[c][i] EXCEPT !.at = "holding", !.work = "read"])
           ELSE IF \E k \in Keys : reviews[k] # NoReview /\ reviews[k].order = r.order
                  THEN Reply(c, i, writeOutcome(Unknown))
                  ELSE Set(c, i, [copy[c][i] EXCEPT !.at = "holding", !.work = "insert"])
      /\ UNCHANGED <<executor, request, call, reviews, wrote, faults>>

ReviewOf(order) == {k \in Keys : reviews[k] # NoReview /\ reviews[k].order = order}

\* SELECT ... FOR UPDATE of cancelReview and the branches after it.
LockReview(c, i) ==
  LET r == request[c]
      row == reviews[CHOOSE k \in ReviewOf(r.order) : TRUE]
  IN  /\ copy[c][i].at = "begun" /\ r.verb = "CancelManualReview"
      /\ \A p \in Holding(c, i) :
           copy[p[1]][p[2]].work \in {"cancel", "locked"} =>
             request[p[1]].order # r.order
      /\ IF ReviewOf(r.order) = {} THEN Reply(c, i, writeOutcome(Permanent))
         ELSE IF row.cancelKey = ""
           THEN Set(c, i, [copy[c][i] EXCEPT !.at = "holding", !.work = "cancel"])
         ELSE IF row.cancelKey # r.key \/ row.cancelHash # r.hash
           THEN Reply(c, i, writeOutcome(Permanent))
           ELSE Set(c, i, [copy[c][i] EXCEPT !.at = "holding", !.work = "locked"])
      /\ UNCHANGED <<executor, request, call, reviews, wrote, faults>>

\* What the transaction of a copy changes.
Committed(c, work) ==
  LET r == request[c]
      k == CHOOSE k \in ReviewOf(r.order) : TRUE
  IN  CASE work = "insert" ->
             [reviews EXCEPT ![r.key] = [NoReview EXCEPT !.order = r.order, !.hash = r.hash,
                                                         !.status = "pending"]]
        [] work = "cancel" ->
             [reviews EXCEPT ![k].status = "cancelled", ![k].cancelKey = r.key,
                             ![k].cancelHash = r.hash]
        [] work \in {"read", "locked"} -> reviews

\* Commit answers, or its answer is lost and the change stands.
Commit(c, i, class) ==
  /\ copy[c][i].at = "holding"
  /\ class \in {Success, Unknown}
  /\ reviews' = Committed(c, copy[c][i].work)
  /\ wrote' = IF copy[c][i].work \in {"insert", "cancel"} THEN wrote \cup {c} ELSE wrote
  /\ Reply(c, i, writeOutcome(class))
  /\ UNCHANGED <<executor, request, call, faults>>

\* A statement or the commit fails, the cancelled context of a gone client
\* included: the transaction is rolled back.
Rollback(c, i) ==
  /\ copy[c][i].at \in {"begun", "holding"}
  /\ Reply(c, i, writeOutcome(Unknown))
  /\ UNCHANGED <<executor, request, call, reviews, wrote, faults>>

\* The service stops: what it was doing is rolled back and never answered.
Outage ==
  /\ Fault
  /\ \E c \in Calls, i \in Copies : copy[c][i].at \in {"handler", "begun", "holding"}
  /\ copy' = [c \in Calls |-> [i \in Copies |->
                IF copy[c][i].at \in {"handler", "begun", "holding", "answered"}
                  THEN Gone(copy[c][i]) ELSE copy[c][i]]]
  /\ UNCHANGED <<executor, request, call, reviews, wrote>>

HTTPNext ==
  \/ \E c \in Calls :
       \/ \E addresses \in SUBSET {"public", "private"} : Invoke(c, addresses)
       \/ InvokeExpired(c) \/ SendFails(c) \/ Resend(c) \/ ReadAnswer(c)
  \/ \E c \in Calls, status \in {302, 307}, target \in RedirectTargets :
       Redirect(c, status, target)
  \/ \E c \in Calls, i \in Copies :
       \/ Serve(c, i) \/ BeginTx(c, i) \/ InsertReview(c, i) \/ LockReview(c, i)
       \/ Rollback(c, i)
       \/ \E class \in {Success, Unknown} : Commit(c, i, class)
  \/ Outage

-----------------------------------------------------------------------------
\* What the call asks for is there.
Stands(c) ==
  IF request[c].direction = "forward"
    THEN reviews[request[c].key].hash = request[c].hash
    ELSE \E k \in ReviewOf(request[c].order) :
           reviews[k].status = "cancelled" /\ reviews[k].cancelKey = request[c].key

=============================================================================
