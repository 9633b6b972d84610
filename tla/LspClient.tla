------------------------------- MODULE LspClient -------------------------------
(***************************************************************************)
(* One language server session: features/lsp/client.py, as                 *)
(* features/lsp/resolver.py drives it.  The client thread starts the       *)
(* server, opens the files, asks for the references of one symbol after    *)
(* another and stops the server; a reader thread takes the server's        *)
(* messages off its unbuffered standard output and hands each to the       *)
(* request with its id, through _pending.  Requests time out, answers come *)
(* late or never, the server dies, asks questions of its own, and is       *)
(* itself blocked when nobody reads what it writes: the reader its output, *)
(* and nobody its error output, which is a pipe, too.                      *)
(***************************************************************************)
EXTENDS Naturals, Sequences

CONSTANTS
    MaxIds,      \* bound on the requests of a session, the first one being
                 \* initialize and the last shutdown
    MaxOpens,    \* files to open
    MaxStdin,    \* messages that fit into the pipe to the server
    MaxPipe,     \* messages that fit into the pipe from the server
    MaxStderr,   \* messages that fit into the pipe of its error output
    MaxNoise     \* bound on the messages of the server that answer nothing

ASSUME LspAssumption ==
    /\ MaxIds \in Nat /\ MaxIds >= 2
    /\ {MaxOpens, MaxStdin, MaxPipe, MaxStderr, MaxNoise} \subseteq Nat

Ids == 1..MaxIds

VARIABLES
    server,   \* the process: _proc.poll() is None when "up"
    stdin,    \* the pipe to it: ids of requests, 0 for a notification
    inbox,    \* requests it has read and not answered
    out,      \* what it is writing: at most one message
    errs,     \* what it has written to its error output: one more than fits
              \* into the pipe when it waits for room there
    pipe,     \* the pipe from it
    reader,   \* the reader thread
    msg,      \* the message it has read
    box,      \* _pending: "none", or the queue of that id, empty or with what
    next,     \* _next_id
    pc,       \* the client thread
    phase,    \* start, the queries of the resolver, stop
    cur,      \* rid of the request under way
    opens,    \* files opened
    result,   \* result[i]: what request i was answered with
    noise,    \* messages of the server that answer nothing
    adverse   \* what has gone wrong so far (history): "ask", the server has
              \* asked something; "race", a request has expired between the
              \* reader's look at _pending and its put; "short", a read has
              \* returned a part of a message

outside == <<server, stdin, inbox, out, errs, noise>>
thread == <<reader, msg>>
client == <<next, pc, phase, cur, opens, result>>
vars == <<server, stdin, inbox, out, errs, pipe, reader, msg, box, next, pc,
          phase, cur, opens, result, noise, adverse>>

\* A response has the id of a request; a request of the server has an id the
\* server has chosen; a notification has none (0).
Message == [id : 0..MaxIds, own : BOOLEAN]
Content(m) == IF m.own THEN "own" ELSE "foreign"

TypeOK ==
    /\ server \in {"off", "up", "dead"}
    /\ stdin \in Seq(0..MaxIds)
    /\ inbox \subseteq Ids
    /\ out \in {{}} \cup {{m} : m \in Message}
    /\ errs \in 0..(MaxStderr + 1)
    /\ pipe \in Seq(Message)
    /\ reader \in {"off", "read", "found", "full", "stuck", "dead"}
    /\ msg \in Message
    /\ box \in [Ids -> {"none", "empty", "own", "foreign"}]
    /\ next \in 1..(MaxIds + 1)
    /\ pc \in {"new", "ready", "send", "note", "wait", "got", "late", "reap",
               "done"}
    /\ phase \in {"init", "query", "stop"}
    /\ cur \in 0..MaxIds
    /\ opens \in 0..MaxOpens
    /\ result \in [Ids -> {"none", "own", "foreign", "late", "error"}]
    /\ noise \in 0..MaxNoise
    /\ adverse \subseteq {"ask", "race", "short"}

Init ==
    /\ server = "off" /\ stdin = <<>> /\ inbox = {} /\ out = {} /\ pipe = <<>>
    /\ errs = 0
    /\ reader = "off" /\ msg = [id |-> 0, own |-> FALSE]
    /\ box = [i \in Ids |-> "none"]
    /\ next = 1 /\ pc = "new" /\ phase = "init" /\ cur = 0 /\ opens = 0
    /\ result = [i \in Ids |-> "none"]
    /\ noise = 0 /\ adverse = {}

(* Slips the properties are checked against: what the same code would do   *)
(* with one line of it wrong.  None of these is part of Next.              *)

\* The counter starts where it should not end.
BeginUnnumbered ==
    /\ pc = "ready" /\ server = "up"
    /\ phase = "query" => next < MaxIds
    /\ box' = [box EXCEPT ![next] = ""]
    /\ cur' = next /\ next' = next + 1
    /\ pc' = "send"
    /\ UNCHANGED <<outside, pipe, thread, phase, opens, result, adverse>>

\* A request waits for its answer without a deadline.
ExpireNever ==
    /\ pc = "wait" /\ box[cur] = "empty" /\ server = "dead"
    /\ pc' = "late"
    /\ UNCHANGED <<outside, pipe, thread, box, next, phase, cur, opens, result,
                   adverse>>

\* wait without kill.
ReapPolitely ==
    /\ pc = "reap"
    /\ pc' = "done"
    /\ UNCHANGED <<outside, pipe, thread, box, next, phase, cur, opens, result,
                   adverse>>

\* Nothing to read is taken for the end of the stream.
EofQuiet ==
    /\ reader = "read" /\ pipe = <<>>
    /\ reader' = "dead"
    /\ UNCHANGED <<outside, pipe, msg, box, client, adverse>>

-----------------------------------------------------------------------------
(* The client thread.                                                      *)

\* start: Popen, with three pipes, and the reader of one of them; or no server,
\* and LspError.
Start ==
    /\ pc = "new"
    /\ \/ server' = "up" /\ reader' = "read" /\ pc' = "ready"
       \/ pc' = "done" /\ UNCHANGED <<server, reader>>
    /\ UNCHANGED <<stdin, inbox, out, errs, pipe, msg, box, next, phase, cur,
                   opens, result, noise, adverse>>

\* request: the server runs; an id and a queue of its own.
Begin ==
    /\ pc = "ready" /\ server = "up"
    /\ phase = "query" => next < MaxIds
    /\ box' = [box EXCEPT ![next] = "empty"]
    /\ cur' = next /\ next' = next + 1
    /\ pc' = "send"
    /\ UNCHANGED <<outside, pipe, thread, phase, opens, result, adverse>>

\* request: the server does not run.  Out of start, which __exit__ does not
\* follow; or on with stop.  (A query that is refused changes nothing.)
Refused ==
    /\ pc = "ready" /\ server = "dead" /\ phase # "query"
    /\ pc' = IF phase = "init" THEN "done" ELSE "reap"
    /\ UNCHANGED <<outside, pipe, thread, box, next, phase, cur, opens, result,
                   adverse>>

\* The resolver opens its files before it asks.
Open ==
    /\ pc = "ready" /\ phase = "query" /\ next = 2
    /\ opens < MaxOpens
    /\ opens' = opens + 1
    /\ pc' = "note"
    /\ UNCHANGED <<outside, pipe, thread, box, next, phase, cur, result, adverse>>

\* No symbol is left: __exit__ calls stop.
EndQueries ==
    /\ pc = "ready" /\ phase = "query"
    /\ phase' = "stop"
    /\ UNCHANGED <<outside, pipe, thread, box, next, pc, cur, opens, result,
                   adverse>>

\* Where a request leads that has returned (ok) or raised LspError.
Then(ok) ==
    pc' = CASE phase = "init"  -> IF ok THEN "note" ELSE "done"
            [] phase = "query" -> "ready"
            [] phase = "stop"  -> IF ok THEN "note" ELSE "reap"

\* _send: the write waits for room in the pipe.
Send ==
    /\ pc = "send" /\ server = "up" /\ Len(stdin) < MaxStdin
    /\ stdin' = Append(stdin, cur)
    /\ pc' = "wait"
    /\ UNCHANGED <<server, inbox, out, errs, noise, pipe, thread, box, next,
                   phase, cur, opens, result, adverse>>

\* BrokenPipeError.  The queue stays in _pending.
SendFails ==
    /\ pc = "send" /\ server = "dead"
    /\ result' = [result EXCEPT ![cur] = "error"]
    /\ Then(FALSE)
    /\ UNCHANGED <<outside, pipe, thread, box, next, phase, cur, opens, adverse>>

\* The queue has something.
Get ==
    /\ pc = "wait" /\ box[cur] \in {"own", "foreign"}
    /\ result' = [result EXCEPT ![cur] = box[cur]]
    /\ box' = [box EXCEPT ![cur] = "empty"]
    /\ pc' = "got"
    /\ UNCHANGED <<outside, pipe, thread, next, phase, cur, opens, adverse>>

\* pop, and return or raise.  Only a response may hold an error.
Pop ==
    /\ pc = "got"
    /\ box' = [box EXCEPT ![cur] = "none"]
    /\ Then(TRUE) \/ (result[cur] = "own" /\ Then(FALSE))
    /\ UNCHANGED <<outside, pipe, thread, next, phase, cur, opens, result,
                   adverse>>

\* queue.Empty, and the deadline has passed.
Expire ==
    /\ pc = "wait" /\ box[cur] = "empty"
    /\ pc' = "late"
    /\ UNCHANGED <<outside, pipe, thread, box, next, phase, cur, opens, result,
                   adverse>>

\* pop, and raise.  A reader that waits for room in the queue now waits for ever.
PopLate ==
    /\ pc = "late"
    /\ box' = [box EXCEPT ![cur] = "none"]
    /\ result' = [result EXCEPT ![cur] = "late"]
    /\ reader' = IF reader = "full" /\ msg.id = cur THEN "stuck" ELSE reader
    /\ adverse' = IF reader = "found" /\ msg.id = cur
                  THEN adverse \cup {"race"} ELSE adverse
    /\ Then(FALSE)
    /\ UNCHANGED <<outside, pipe, msg, next, phase, cur, opens>>

\* notify: initialized, didOpen, exit.
Notify ==
    /\ pc = "note" /\ server = "up" /\ Len(stdin) < MaxStdin
    /\ stdin' = Append(stdin, 0)
    /\ phase' = IF phase = "init" THEN "query" ELSE phase
    /\ pc' = IF phase = "stop" THEN "reap" ELSE "ready"
    /\ UNCHANGED <<server, inbox, out, errs, noise, pipe, thread, box, next,
                   cur, opens, result, adverse>>

NotifyFails ==
    /\ pc = "note" /\ server = "dead"
    /\ pc' = CASE phase = "init"  -> "done"
               [] phase = "query" -> "ready"
               [] phase = "stop"  -> "reap"
    /\ UNCHANGED <<outside, pipe, thread, box, next, phase, cur, opens, result,
                   adverse>>

\* stop: wait for the process, or kill it.
Reap ==
    /\ pc = "reap"
    /\ server' = "dead" /\ stdin' = <<>> /\ inbox' = {} /\ out' = {}
    /\ errs' = 0
    /\ pc' = "done"
    /\ UNCHANGED <<noise, pipe, thread, box, next, phase, cur, opens, result,
                   adverse>>

ClientStep ==
    \/ Start \/ Begin \/ Refused \/ Open \/ EndQueries \/ Send \/ SendFails
    \/ Get \/ Pop \/ Expire \/ PopLate \/ Notify \/ NotifyFails \/ Reap

-----------------------------------------------------------------------------
(* The reader thread.                                                      *)

\* _read_one, and whether the id is in _pending.
Read ==
    /\ reader = "read" /\ pipe # <<>>
    /\ msg' = Head(pipe) /\ pipe' = Tail(pipe)
    /\ reader' = IF msg'.id # 0 /\ box[msg'.id] # "none" THEN "found" ELSE "read"
    /\ UNCHANGED <<outside, box, client, adverse>>

\* read(n) of an unbuffered pipe returns less than n: no JSON, taken for the
\* end of the stream.
ReadShort ==
    /\ reader = "read" /\ pipe # <<>>
    /\ reader' = "dead"
    /\ adverse' = adverse \cup {"short"}
    /\ UNCHANGED <<outside, pipe, msg, box, client>>

\* The end of the stream.
Eof ==
    /\ reader = "read" /\ pipe = <<>> /\ server = "dead"
    /\ reader' = "dead"
    /\ UNCHANGED <<outside, pipe, msg, box, client, adverse>>

\* _pending[rid].put(msg): a KeyError ends the thread; the queue has room for
\* one message.
Put ==
    /\ reader = "found"
    /\ \/ /\ box[msg.id] = "none"
          /\ reader' = "dead" /\ UNCHANGED box
       \/ /\ box[msg.id] = "empty"
          /\ box' = [box EXCEPT ![msg.id] = Content(msg)]
          /\ reader' = "read"
       \/ /\ box[msg.id] \in {"own", "foreign"}
          /\ reader' = "full" /\ UNCHANGED box
    /\ UNCHANGED <<outside, pipe, msg, client, adverse>>

\* The message in the queue has been taken; the queue may be out of _pending
\* by now.
PutWaited ==
    /\ reader = "full" /\ box[msg.id] \in {"empty", "none"}
    /\ box' = IF box[msg.id] = "empty"
              THEN [box EXCEPT ![msg.id] = Content(msg)] ELSE box
    /\ reader' = "read"
    /\ UNCHANGED <<outside, pipe, msg, client, adverse>>

ReaderStep == Read \/ ReadShort \/ Eof \/ Put \/ PutWaited

-----------------------------------------------------------------------------
(* The server: one thread, which reads its input when it is not writing.   *)

\* It writes to its error output, and the pipe of it is full.
Blocked == errs > MaxStderr

Take ==
    /\ server = "up" /\ out = {} /\ ~Blocked /\ stdin # <<>>
    /\ inbox' = (inbox \cup {Head(stdin)}) \ {0}
    /\ stdin' = Tail(stdin)
    /\ UNCHANGED <<server, out, errs, noise, pipe, thread, box, client, adverse>>

Answer(i) ==
    /\ server = "up" /\ out = {} /\ ~Blocked /\ i \in inbox
    /\ inbox' = inbox \ {i}
    /\ out' = {[id |-> i, own |-> TRUE]}
    /\ UNCHANGED <<server, stdin, errs, noise, pipe, thread, box, client, adverse>>

\* Diagnostics, progress, log messages (0); requests (the server numbers them
\* as it likes).
Chatter(i) ==
    /\ server = "up" /\ out = {} /\ ~Blocked /\ noise < MaxNoise
    /\ noise' = noise + 1
    /\ out' = {[id |-> i, own |-> FALSE]}
    /\ adverse' = IF i # 0 THEN adverse \cup {"ask"} ELSE adverse
    /\ UNCHANGED <<server, stdin, inbox, errs, pipe, thread, box, client>>

\* A line of its log, to the error output: the client has a pipe for it and
\* nobody who reads that.
Complain ==
    /\ server = "up" /\ out = {} /\ ~Blocked
    /\ errs' = errs + 1
    /\ UNCHANGED <<server, stdin, inbox, out, noise, pipe, thread, box, client,
                   adverse>>

Flush ==
    /\ server = "up" /\ Len(pipe) < MaxPipe
    /\ \E m \in out : pipe' = Append(pipe, m)
    /\ out' = {}
    /\ UNCHANGED <<server, stdin, inbox, errs, noise, thread, box, client, adverse>>

\* What has reached the pipe can still be read.
Die ==
    /\ server = "up"
    /\ server' = "dead" /\ stdin' = <<>> /\ inbox' = {} /\ out' = {}
    /\ errs' = 0
    /\ UNCHANGED <<noise, pipe, thread, box, client, adverse>>

-----------------------------------------------------------------------------
Next ==
    \/ ClientStep \/ ReaderStep
    \/ Take \/ Flush \/ Complain \/ Die
    \/ \E i \in Ids : Answer(i)
    \/ \E i \in 0..MaxIds : Chatter(i)

Spec == Init /\ [][Next]_vars

(* Threads run and deadlines pass; a server that is up and not blocked     *)
(* reads its input and writes its output when it can.  It need not answer. *)
(* One that stops reading for reasons of its own does what a blocked one   *)
(* does.                                                                   *)
FairSpec ==
    Spec /\ WF_vars(ClientStep) /\ WF_vars(ReaderStep) /\ WF_vars(Take)
         /\ WF_vars(Flush)

-----------------------------------------------------------------------------
(* Properties.                                                             *)

\* "Server-to-client requests + notifications are ignored": what a request
\* returns is the answer to it.
OwnAnswer == \A i \in Ids : result[i] # "foreign"

\* It can be something else in one way only: the server has asked something.
\* Answers that come late, after their request is over, go to no other one.
OwnUnlessAsked == "ask" \notin adverse => OwnAnswer

\* The reader serves as long as the server runs, whatever is late, lost, or
\* out of order, unless one of three things has happened: the server has asked
\* something, a deadline has passed between the reader's look at _pending and
\* its put, or a read has come back short.
ReaderServes ==
    server = "up" /\ adverse = {} => reader \in {"read", "found"}

\* A session that has begun leaves no server behind, however it ends.
ServerStopped == pc = "done" /\ phase # "init" => server # "up"

\* What the client, the reader and the server's thread can do at once.
ClientCan ==
    \/ pc \in {"new", "got", "late", "reap"}
    \/ pc = "ready" /\ (phase = "query" \/ server # "off")
    \/ pc \in {"send", "note"} /\ server = "dead"
    \/ pc \in {"send", "note"} /\ server = "up" /\ Len(stdin) < MaxStdin
    \/ pc = "wait" /\ box[cur] # "none"

ReaderCan ==
    \/ reader = "read" /\ (pipe # <<>> \/ server = "dead")
    \/ reader = "found"
    \/ reader = "full" /\ box[msg.id] \in {"empty", "none"}

ServerCan ==
    /\ server = "up"
    /\ \/ out = {} /\ ~Blocked /\ stdin # <<>>
       \/ out # {} /\ Len(pipe) < MaxPipe

\* The client is in _send, which has no deadline, the pipe to the server is
\* full, and the server lives.
Hung == pc \in {"send", "note"} /\ server = "up" /\ Len(stdin) >= MaxStdin

\* The client waits for nobody else but there, and for ever only if something
\* has gone wrong: the server is blocked in its error output, or nobody may be
\* reading what it answers.
SessionMoves ==
    pc # "done" =>
        \/ ClientCan \/ ReaderCan \/ ServerCan
        \/ Hung /\ (Blocked \/ adverse # {})

\* A session ends, or from some time on hangs in _send, where no deadline
\* bounds it, behind a server that is blocked in its error output or whose
\* answers nobody may be reading.  No request waits for ever for an answer that
\* does not come, and no other write or stop hangs.
SessionEnds == <>(pc = "done") \/ <>[](Hung /\ (Blocked \/ adverse # {}))

-----------------------------------------------------------------------------
(* The inductive invariants behind the types and the properties.           *)

\* Ids last until shutdown.
CountInv ==
    /\ pc = "new" => phase = "init" /\ server = "off"
    /\ phase = "init" => next <= 2
    /\ phase = "init" /\ pc \in {"new", "ready"} => next = 1
    /\ phase = "query" => next <= MaxIds
    /\ phase = "stop" /\ pc = "ready" => next <= MaxIds

\* A request under way has its queue.
WaitInv ==
    /\ pc \in {"send", "wait", "late"} => cur \in Ids /\ box[cur] # "none"
    /\ pc \notin {"new", "done"} => server # "off"

\* A server that has not asked anything writes answers and notifications, and
\* only answers reach a queue.
OwnInv ==
    "ask" \notin adverse =>
        /\ \A m \in out : m.own \/ m.id = 0
        /\ \A k \in 1..Len(pipe) : pipe[k].own \/ pipe[k].id = 0
        /\ reader \in {"found", "full"} => msg.own
        /\ \A i \in Ids : box[i] # "foreign" /\ result[i] # "foreign"

\* Nothing has gone wrong so far.
Quiet == server # "dead" /\ adverse = {}

\* The one request under way is the one in _pending.
Busy == {"send", "wait", "got", "late"}

BoxInv ==
    /\ pc \in Busy => cur \in Ids /\ cur < next
    /\ \A i \in Ids : box[i] # "none" => i = cur /\ pc \in Busy
    /\ \A i \in Ids : box[i] \in {"none", "empty", "own"}

\* A message the reader is about to put has an empty queue to go to.
FoundInv ==
    /\ server = "off" => reader = "off"
    /\ server = "up" => reader \in {"read", "found"}
    /\ reader = "found" => /\ msg.own /\ msg.id = cur
                            /\ pc \in {"wait", "late"} /\ box[cur] = "empty"

\* The answer to request i has been read; request i has not been sent.
Arrived(i) ==
    \/ i = cur /\ pc \in Busy /\ (pc = "got" \/ box[cur] = "own")
    \/ reader = "found" /\ msg.id = i
Unsent(i) == i >= next \/ (pc = "send" /\ i = cur)

Asked(i) == \E k \in 1..Len(stdin) : stdin[k] = i
Held(i) == \E m \in out : m.id = i
Written(i) == \E k \in 1..Len(pipe) : pipe[k].id = i

\* A request is in one place: not sent yet, on its way, with the server, being answered, on
\* its way back, or arrived.
OnePlace(i) ==
    /\ Asked(i) => i \notin inbox
    /\ Asked(i) \/ i \in inbox => ~Held(i)
    /\ Asked(i) \/ i \in inbox \/ Held(i) => ~Written(i)
    /\ Asked(i) \/ i \in inbox \/ Held(i) \/ Written(i) => ~Unsent(i)
    /\ Asked(i) \/ i \in inbox \/ Held(i) \/ Written(i) \/ Unsent(i) =>
          ~Arrived(i)

\* And it is there once; nothing else is written but notifications.
OnceInv ==
    /\ \A k, l \in 1..Len(stdin) : stdin[k] = stdin[l] /\ stdin[k] # 0 => k = l
    /\ \A k, l \in 1..Len(pipe) :
          pipe[k].id = pipe[l].id /\ pipe[k].id # 0 => k = l
    /\ \A k \in 1..Len(pipe) : pipe[k].own \/ pipe[k].id = 0
    /\ \A m \in out : m.own \/ m.id = 0
    /\ \A i \in Ids : OnePlace(i)

QuietInv == Quiet => BoxInv /\ FoundInv /\ OnceInv

=============================================================================
