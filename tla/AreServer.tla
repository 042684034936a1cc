------------------------------ MODULE AreServer ------------------------------
(***************************************************************************)
(* The server loop of the HTTP runtime                                     *)
(* (crates/are-http-runtime/src/server.rs) and the clients around it.  One *)
(* thread takes requests from the queue of tiny_http, reads the body,      *)
(* makes the response and writes it, and only then takes the next.  The    *)
(* store lives as long as the loop: a restart begins with an empty one.    *)
(*                                                                         *)
(* The service has the routes of examples/users_api that reach the store:  *)
(* each of their handlers makes one host call, an action of AreStore.      *)
(* Clients, connections and the queue are outside the program: a client    *)
(* may stop waiting at any time and send again on a new connection, which  *)
(* the server cannot tell from a request of its own.                       *)
(***************************************************************************)
EXTENDS AreStore

CONSTANTS
    Clients,
    MaxSends,       \* bound: requests per client
    MaxEpochs       \* bound: times the process is started

ASSUME ServerAssumption == MaxSends \in Nat /\ MaxEpochs \in Nat \ {0}

VARIABLES
    epoch,      \* how many times the process was started
    queue,      \* requests tiny_http has accepted and the loop has not taken
    current,    \* the request being handled, at most one
    reply,      \* the response made for it and not yet written, at most one
    client,     \* client[cl]: requests sent, the one awaited, the last answer
    made,       \* records made in this epoch: by which request, under which key
    acked       \* records confirmed to their client in this epoch

loopVars == <<epoch, queue, current, reply, client, made, acked>>
serverVars == <<storeVars, loopVars>>

-----------------------------------------------------------------------------
\* Requests and what is answered.

\* A request of a client: the call it asks for, and, for the properties, the
\* records that had been confirmed when it was sent.
Request(cl, call) == [client |-> cl, conn |-> client[cl].sent + 1, call |-> call, known |-> acked]

Calls == [op : {"post"}, coll : Collections, arg : Inputs]
    \cup [op : {"get"}, coll : Collections, arg : Ids]
    \cup [op : {"list"}, coll : Collections, arg : {"none"}]

Success == [post |-> 201, get |-> 200, list |-> 200]
ErrorStatus == [InvalidInput |-> 400, NotFound |-> 404, none |-> 500]

\* The route's status, or the one the ApiError variant declares.
Reply(op, answer) ==
    IF answer.error = NoError
    THEN [status |-> Success[op], value |-> answer.value]
    ELSE [status |-> ErrorStatus[answer.error.variant], value |-> << >>]

\* What a client has when no response came.
NoAnswer == [status |-> 0, value |-> << >>]

\* The client that waits on the connection a request came by.
Waits(request) ==
    \E awaited \in client[request.client].awaited : awaited.conn = request.conn

Confirms(request, answer) ==
    IF request.call.op = "post" /\ answer.status = 201
    THEN {m \in made : m.client = request.client /\ m.conn = request.conn}
    ELSE {}

-----------------------------------------------------------------------------

ServerInit ==
    /\ StoreInit
    /\ epoch = 1 /\ queue = << >>
    /\ current = {} /\ reply = {}
    /\ client = [cl \in Clients |-> [sent |-> 0, awaited |-> {}, last |-> {}]]
    /\ made = {} /\ acked = {}

\* A client sends a request and waits: it has one connection at a time.
Send(cl, call) ==
    /\ client[cl].sent < MaxSends /\ client[cl].awaited = {}
    /\ LET request == Request(cl, call)
       IN  /\ client' = [client EXCEPT ![cl] =
                            [sent |-> request.conn, awaited |-> {request}, last |-> {}]]
           /\ queue' = Append(queue, request)
    /\ UNCHANGED <<storeVars, epoch, current, reply, made, acked>>

\* The client closes the connection, and may send the same again.
GiveUp(cl) ==
    /\ client[cl].awaited # {}
    /\ client' = [client EXCEPT ![cl].awaited = {}]
    /\ UNCHANGED <<storeVars, epoch, queue, current, reply, made, acked>>

\* Mutant: the next request is taken while one is being handled.
TakeWhileHandling ==
    /\ reply = {} /\ queue # << >>
    /\ current' = {Head(queue)} /\ queue' = Tail(queue)
    /\ UNCHANGED <<storeVars, epoch, reply, client, made, acked>>

\* Mutant: a second worker takes requests from the same queue.
TakeConcurrently ==
    /\ reply = {} /\ queue # << >>
    /\ current' = current \cup {Head(queue)} /\ queue' = Tail(queue)
    /\ UNCHANGED <<storeVars, epoch, reply, client, made, acked>>

\* server.incoming_requests(): the next request, in the order of arrival.
TakeRequest ==
    /\ current = {} /\ queue # << >>
    /\ current' = {Head(queue)} /\ queue' = Tail(queue)
    /\ UNCHANGED <<storeVars, epoch, reply, client, made, acked>>

\* The answer reaches the client if it still waits on that connection.
Deliver(request, answer) ==
    IF Waits(request)
    THEN client' = [client EXCEPT ![request.client].awaited = {},
                                  ![request.client].last = {[request |-> request, answer |-> answer]}]
    ELSE UNCHANGED client

\* Mutant: the dropped request's connection is left open.
DropAndHang ==
    /\ reply = {} /\ current # {}
    /\ current' = {}
    /\ UNCHANGED <<storeVars, epoch, queue, reply, client, made, acked>>

\* Reading the body fails (it is cut off, or no UTF-8): the request is
\* dropped without the program's answer.
DropUnreadable ==
    /\ reply = {}
    /\ \E request \in current : Deliver(request, NoAnswer)
    /\ current' = {}
    /\ UNCHANGED <<storeVars, epoch, queue, reply, made, acked>>

\* runtime_response: the handler's host call, and the response made of it.
Handle ==
    /\ reply = {}
    /\ \E request \in current :
          LET call == request.call IN
          /\ CASE call.op = "post" -> insert_model(call.coll, call.arg)
               [] call.op = "get"  -> get_model(call.coll, call.arg)
               [] call.op = "list" -> list_model(call.coll)
          /\ reply' = {Reply(call.op, ret')}
          /\ made' = IF call.op = "post" /\ ret'.error = NoError
                     THEN made \cup {[client |-> request.client, conn |-> request.conn,
                                      coll |-> call.coll, key |-> ret'.key, record |-> ret'.value]}
                     ELSE made
    /\ UNCHANGED <<epoch, queue, current, client, acked>>

\* Mutant: a request whose response cannot be written is queued again.
RespondOrRequeue ==
    /\ \E request \in current, answer \in reply :
          \/ /\ Deliver(request, answer)
             /\ acked' = IF Waits(request) THEN acked \cup Confirms(request, answer) ELSE acked
             /\ UNCHANGED queue
          \/ UNCHANGED <<client, acked>> /\ queue' = Append(queue, request)
    /\ current' = {} /\ reply' = {}
    /\ UNCHANGED <<storeVars, epoch, made>>

\* The response is written, to whoever is still there; or writing fails and
\* is only logged.  Either way the loop goes on with the next request.
Respond ==
    /\ \E request \in current, answer \in reply :
          \/ /\ Deliver(request, answer)
             /\ acked' = IF Waits(request) THEN acked \cup Confirms(request, answer) ELSE acked
          \/ Deliver(request, NoAnswer) /\ UNCHANGED acked
    /\ current' = {} /\ reply' = {}
    /\ UNCHANGED <<storeVars, epoch, queue, made>>

\* The process dies and is started again: queue, connections and store go.
Restart ==
    /\ epoch < MaxEpochs
    /\ epoch' = epoch + 1
    /\ queue' = << >> /\ current' = {} /\ reply' = {}
    /\ client' = [cl \in Clients |-> [sent |-> client[cl].sent, awaited |-> {}, last |-> {}]]
    /\ made' = {} /\ acked' = {}
    /\ next_id' = [c \in Collections |-> 0]
    /\ records' = [c \in Collections |-> << >>]
    /\ UNCHANGED ret

Loop == TakeRequest \/ DropUnreadable \/ Handle \/ Respond

ServerNext ==
    \/ \E cl \in Clients : GiveUp(cl) \/ \E call \in Calls : Send(cl, call)
    \/ Loop
    \/ Restart

\* The loop's thread keeps running: a handler makes a bounded number of host
\* calls, and reading and writing a socket end, by success or by error.
ServerSpec == ServerInit /\ [][ServerNext]_serverVars /\ WF_serverVars(Loop)

-----------------------------------------------------------------------------
(***************************************************************************)
(* Properties.                                                             *)
(***************************************************************************)

Answered(last, op) == last.request.call.op = op /\ last.answer.status # NoAnswer.status

\* The loop holds one request and at most one response, which is its own.
ServerTypeOK ==
    /\ StoreTypeOK
    /\ epoch \in 1..MaxEpochs
    /\ Cardinality(current) <= 1 /\ Cardinality(reply) <= 1
    /\ reply # {} => current # {}
    /\ acked \subseteq made

\* A request a client waits for is in the queue or being handled: the loop
\* loses none, whether a body cannot be read or a response not be written.
AwaitedIsInTheServer ==
    \A cl \in Clients : \A request \in client[cl].awaited :
        request \in current \/ \E i \in DOMAIN queue : queue[i] = request

\* What was confirmed to a client stays as it was confirmed, until the
\* process is restarted: no later insert, failed or not, replaces it.
ConfirmedRecordsStay ==
    \A a \in acked :
        /\ a.key \in DOMAIN records[a.coll]
        /\ records[a.coll][a.key] = a.record

\* Whoever reads an id that had been confirmed when it sent the read gets
\* that record: requests queued, dropped or abandoned in between, and ids
\* burned by failed inserts, do not come between a write and its read.
ReadYourWrites ==
    \A cl \in Clients : \A last \in client[cl].last : \A k \in last.request.known :
        /\ Answered(last, "get")
        /\ k.coll = last.request.call.coll /\ k.key = json_key(last.request.call.arg)
        => last.answer = [status |-> 200, value |-> k.record]

\* A record is there because one request made it, and no request makes two:
\* a response that is lost does not make the server repeat the insert.  (A
\* client that sends again is another request, and gets another record.)
OneRecordPerRequest ==
    /\ \A m, n \in made :
          \/ m.client = n.client /\ m.conn = n.conn
          \/ m.coll = n.coll /\ m.key = n.key
          => m = n
    /\ \A c \in Collections : \A k \in DOMAIN records[c] :
          \E m \in made : m.coll = c /\ m.key = k

\* No client waits forever: each request is answered, dropped, or cut off by
\* a restart.
EveryRequestSettles ==
    \A cl \in Clients : client[cl].awaited # {} ~> client[cl].awaited = {}

=============================================================================
