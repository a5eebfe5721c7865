-------------------------------- MODULE Events --------------------------------
(***************************************************************************)
(* core/restapi/events_endpoint.py: the event streams that clients keep    *)
(* open, the queue of notifications that one task writes to all of them,   *)
(* and the error that waits for the first client.                          *)
(*                                                                         *)
(* Messages are numbered in the order in which they enter the queue.  The  *)
(* server does not cancel the handler of a client that goes away: only a   *)
(* write finds out.  Handlers are cancelled when the server stops.         *)
(***************************************************************************)
EXTENDS Integers, Sequences, SequencesExt

CONSTANTS
    Stream,      \* clients of the endpoint
    MaxMessages, \* bound on the messages that are sent
    MaxErrors    \* bound on the exceptions that reach the endpoint

VARIABLES
    events_responses, \* the streams that are written to, in order
    queue,            \* numbers of the messages that wait
    sent,             \* how many have entered the queue
    writer,           \* what process_queue is writing: message, position, processed streams
    stream,           \* where the handler of each client is
    client,           \* "absent", "open", "stalled" (open, but it does not read), or "gone"
    got,              \* numbers of the messages that each stream was written
    undelivered_error,\* number of the error that waits for a client, 0: none
    errors            \* how many exceptions have been reported

eventVars == <<events_responses, queue, sent, writer, stream, client, got,
               undelivered_error, errors>>

NoWrite  == [message |-> 0, next |-> 1, processed |-> <<>>]
Writing  == writer.message # 0
Listed   == ToSet(events_responses)

EventsInit ==
    /\ events_responses = <<>> /\ queue = <<>> /\ sent = 0 /\ writer = NoWrite
    /\ stream = [s \in Stream |-> "none"] /\ client = [s \in Stream |-> "absent"]
    /\ got = [s \in Stream |-> <<>>]
    /\ undelivered_error = 0 /\ errors = 0
-----------------------------------------------------------------------------
\* send_event: nobody there, no message.
SendEvent ==
    IF events_responses = <<>> THEN UNCHANGED <<queue, sent>>
    ELSE sent' = sent + 1 /\ queue' = Append(queue, sent + 1)

\* A notification that the GUI is to see.
Notify ==
    /\ sent < MaxMessages
    /\ events_responses # <<>> /\ SendEvent
    /\ UNCHANGED <<events_responses, writer, stream, client, got, undelivered_error, errors>>

\* An exception that nobody caught goes to the GUI, or is kept: the first one only.
Kept(error) == IF undelivered_error = 0 THEN error ELSE undelivered_error
OnTriblerException ==
    /\ errors < MaxErrors /\ errors' = errors + 1
    /\ sent < MaxMessages /\ SendEvent
    /\ undelivered_error' = IF events_responses = <<>> THEN Kept(errors + 1) ELSE undelivered_error
    /\ UNCHANGED <<events_responses, writer, stream, client, got>>

\* get_events: the headers and the initial message, then the error that waits, then the
\* stream is listed.  A client that goes away meanwhile makes the handler raise.
Connect(s) ==
    /\ stream[s] = "none" /\ client[s] = "absent"
    /\ stream' = [stream EXCEPT ![s] = "greeting"]
    /\ client' = [client EXCEPT ![s] = "open"]
    /\ UNCHANGED <<events_responses, queue, sent, writer, got, undelivered_error, errors>>

List(s) == /\ events_responses' = Append(events_responses, s)
           /\ stream' = [stream EXCEPT ![s] = "listed"]

Greeted(s) ==
    /\ stream[s] = "greeting"
    /\ IF client[s] = "gone"
       THEN /\ stream' = [stream EXCEPT ![s] = "done"]
            /\ UNCHANGED <<events_responses, undelivered_error>>
       ELSE IF undelivered_error = 0 THEN List(s) /\ UNCHANGED undelivered_error
       ELSE /\ undelivered_error' = 0
            /\ stream' = [stream EXCEPT ![s] = "told"]
            /\ UNCHANGED events_responses
    /\ UNCHANGED <<queue, sent, writer, client, got, errors>>

Told(s) ==
    /\ stream[s] = "told"
    /\ IF client[s] = "gone"
       THEN stream' = [stream EXCEPT ![s] = "done"] /\ UNCHANGED events_responses
       ELSE List(s)
    /\ UNCHANGED <<queue, sent, writer, client, got, undelivered_error, errors>>

Behave(s) ==
    /\ client[s] \in {"open", "stalled"}
    /\ \E state \in {"open", "stalled", "gone"} : client' = [client EXCEPT ![s] = state]
    /\ UNCHANGED <<events_responses, queue, sent, writer, stream, got, undelivered_error, errors>>
-----------------------------------------------------------------------------
\* process_queue takes a message only when the one before is written everywhere.
BugTake == <<queue[Len(queue)], Front(queue)>>
Take    == <<Head(queue), Tail(queue)>>
ProcessQueue ==
    /\ ~Writing /\ queue # <<>>
    /\ queue' = Take[2]
    /\ writer' = IF events_responses = <<>> THEN NoWrite ELSE [NoWrite EXCEPT !.message = Take[1]]
    /\ UNCHANGED <<events_responses, sent, stream, client, got, undelivered_error, errors>>

\* _write_data, one turn of its loop.  The loop runs over the list itself, so that a
\* stream that is listed meanwhile is written to as well.
BugEnds(next) == next >= Len(events_responses)
Ends(next)    == next > Len(events_responses)

Write ==
    LET s == events_responses[writer.next] IN
    /\ Writing /\ ~Ends(writer.next) /\ client[s] # "stalled"
    /\ writer' = [writer EXCEPT !.next = @ + 1,
                                !.processed = IF client[s] = "open" THEN Append(@, s) ELSE @]
    /\ got' = IF client[s] = "open" THEN [got EXCEPT ![s] = Append(@, writer.message)] ELSE got
    /\ UNCHANGED <<events_responses, queue, sent, stream, client, undelivered_error, errors>>

Written ==
    /\ Writing /\ Ends(writer.next)
    /\ events_responses' = writer.processed
    /\ writer' = NoWrite
    /\ UNCHANGED <<queue, sent, stream, client, got, undelivered_error, errors>>

\* The server stops and cancels a handler, which takes its stream off the list, if it is on it.
Cancelled(s) ==
    /\ stream[s] \in {"greeting", "told", "listed"}
    /\ stream' = [stream EXCEPT ![s] = "done"]
    /\ IF s \notin Listed THEN UNCHANGED events_responses
       ELSE \E i \in DOMAIN events_responses :
               events_responses[i] = s /\ events_responses' = RemoveAt(events_responses, i)
    /\ UNCHANGED <<queue, sent, writer, client, got, undelivered_error, errors>>

EventsWork ==
    \/ ProcessQueue \/ Write \/ Written
    \/ \E s \in Stream : Greeted(s) \/ Told(s)

EventsNext ==
    \/ Notify \/ OnTriblerException
    \/ EventsWork
    \/ \E s \in Stream : Connect(s) \/ Behave(s)
-----------------------------------------------------------------------------
\* Every variable keeps its shape.
EventsTypeOK ==
    /\ events_responses \in Seq(Stream) /\ queue \in Seq(1..sent) /\ sent \in 0..MaxMessages
    /\ writer.message \in 0..sent /\ writer.next \in Nat
    /\ ToSet(writer.processed) \subseteq Stream
    /\ stream \in [Stream -> {"none", "greeting", "told", "listed", "done"}]
    /\ client \in [Stream -> {"absent", "open", "stalled", "gone"}]
    /\ got \in [Stream -> Seq(1..sent)]
    /\ errors \in 0..MaxErrors /\ undelivered_error \in 0..errors

\* A client that stays is not forgotten, whoever comes and goes while a message is being
\* written (_write_data replaces the list by the streams that it has processed).
OpenStreamsStayListed ==
    \A s \in Stream : stream[s] = "listed" /\ client[s] # "gone" => s \in Listed

\* What a client gets is what was sent, without a gap and in order, from the first
\* message on that it gets.
NoGaps ==
    \A s \in Stream : \A i \in 1 .. Len(got[s]) - 1 : got[s][i + 1] = got[s][i] + 1

\* Refuted: every message that is queued while a client is listed reaches it if it stays.
\* One client that stops reading keeps the messages from all others, for as long as it
\* likes: no write has a timeout.
EventsArrive ==
    \A s \in Stream : \A m \in 1 .. MaxMessages :
        (s \in Listed /\ Contains(queue, m)) ~> (Contains(got[s], m) \/ stream[s] = "done"
                                                  \/ client[s] # "open")

\* Refuted: the error that waits is lost with the client that it is handed to.
ErrorsAreDelivered == [][\A s \in Stream : stream[s] = "told" => stream'[s] # "done"]_eventVars
=============================================================================
