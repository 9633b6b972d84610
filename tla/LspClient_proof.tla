--------------------------- MODULE LspClient_proof ---------------------------
(***************************************************************************)
(* Theorems about LspClient, for sessions of any length, pipes of any      *)
(* capacity and servers that say anything at any time.                     *)
(***************************************************************************)
EXTENDS LspClient, TLAPS

-----------------------------------------------------------------------------
(* Types.                                                                  *)

\* The first element and the others of a sequence.
LEMMA SeqFacts ==
    ASSUME NEW T, NEW s \in Seq(T)
    PROVE  /\ \A e \in T : /\ Append(s, e) \in Seq(T)
                           /\ Len(Append(s, e)) = Len(s) + 1
                           /\ Append(s, e)[Len(s) + 1] = e
                           /\ \A k \in 1..Len(s) : Append(s, e)[k] = s[k]
           /\ s # <<>> => /\ Head(s) \in T /\ Head(s) = s[1]
                          /\ Tail(s) \in Seq(T)
                          /\ Len(s) \in Nat \ {0} /\ Len(Tail(s)) = Len(s) - 1
                          /\ \A k \in 1..Len(Tail(s)) : Tail(s)[k] = s[k + 1]
           /\ Len(s) \in Nat
           /\ \A k \in 1..Len(s) : s[k] \in T
  OBVIOUS

\* What is not a notification is a request.
LEMMA IdsAdd ==
    ASSUME NEW S, S \subseteq Ids, NEW i \in 0..MaxIds
    PROVE  (S \cup {i}) \ {0} \subseteq Ids
  BY LspAssumption DEF Ids

\* A request that ends leaves the counter alone.
LEMMA ThenType ==
    ASSUME phase \in {"init", "query", "stop"}, NEW ok \in BOOLEAN, Then(ok)
    PROVE  /\ pc' \in {"note", "done", "ready", "reap"}
           /\ pc' = "done" => phase = "init"
           /\ pc' = "ready" => phase = "query"
  BY DEF Then

\* The types and the count of requests go together: request numbers stay
\* within the bound because one is left for shutdown.
LEMMA TypeStep ==
    ASSUME TypeOK, CountInv, [Next]_vars
    PROVE  TypeOK' /\ CountInv'
<1> USE LspAssumption DEF TypeOK, CountInv, Ids, outside, thread, client
<1>1. CASE UNCHANGED vars
  BY <1>1 DEF vars
<1>2. CASE Start
  BY <1>2 DEF Start
<1>3. CASE Begin
  BY <1>3 DEF Begin
<1>4. CASE Refused \/ Open \/ EndQueries
  <2>1. CASE Refused
    BY <2>1 DEF Refused
  <2>2. CASE Open
    BY <2>2 DEF Open
  <2>3. CASE EndQueries
    BY <2>3 DEF EndQueries
  <2>4. QED
    BY <1>4, <2>1, <2>2, <2>3
<1>5. CASE Send
  BY <1>5, SeqFacts DEF Send
<1>6. CASE SendFails
  <2>1. result' \in [Ids -> {"none", "own", "foreign", "late", "error"}]
    BY <1>6 DEF SendFails
  <2>2. UNCHANGED <<outside, pipe, thread, box, next, phase, cur, opens, adverse>>
    BY <1>6 DEF SendFails
  <2>3. /\ pc' \in {"note", "done", "ready", "reap"}
        /\ pc' = "ready" => phase = "query"
    BY <1>6, ThenType DEF SendFails
  <2>4. QED
    BY <2>1, <2>2, <2>3
<1>7. CASE Get \/ Expire
  <2>1. CASE Get
    <3>1. result' \in [Ids -> {"none", "own", "foreign", "late", "error"}]
      BY <2>1 DEF Get
    <3>2. box' \in [Ids -> {"none", "empty", "own", "foreign"}]
      BY <2>1 DEF Get
    <3>3. /\ pc = "wait" /\ pc' = "got"
          /\ UNCHANGED <<outside, pipe, thread, next, phase, cur, opens, adverse>>
      BY <2>1 DEF Get
    <3>4. QED
      BY <3>1, <3>2, <3>3
  <2>2. CASE Expire
    BY <2>2 DEF Expire
  <2>3. QED
    BY <1>7, <2>1, <2>2
<1>8. CASE Pop
  <2>1. box' \in [Ids -> {"none", "empty", "own", "foreign"}]
    BY <1>8 DEF Pop
  <2>2. UNCHANGED <<outside, pipe, thread, next, phase, cur, opens, result,
                    adverse>>
    BY <1>8 DEF Pop
  <2>3. /\ pc' \in {"note", "done", "ready", "reap"}
        /\ pc' = "ready" => phase = "query"
    BY <1>8, ThenType DEF Pop
  <2>4. QED
    BY <2>1, <2>2, <2>3
<1>9. CASE PopLate
  <2>1. result' \in [Ids -> {"none", "own", "foreign", "late", "error"}]
    BY <1>9 DEF PopLate
  <2>2. box' \in [Ids -> {"none", "empty", "own", "foreign"}]
    BY <1>9 DEF PopLate
  <2>3. /\ reader' \in {reader, "stuck"}
        /\ adverse' \subseteq {"ask", "race", "short"}
    BY <1>9 DEF PopLate
  <2>4. UNCHANGED <<outside, pipe, msg, next, phase, cur, opens>>
    BY <1>9 DEF PopLate
  <2>5. /\ pc' \in {"note", "done", "ready", "reap"}
        /\ pc' = "ready" => phase = "query"
    BY <1>9, ThenType DEF PopLate
  <2>6. QED
    BY <2>1, <2>2, <2>3, <2>4, <2>5
<1>10. CASE Notify
  BY <1>10, SeqFacts DEF Notify
<1>11. CASE NotifyFails
  BY <1>11 DEF NotifyFails
<1>12. CASE Reap
  BY <1>12 DEF Reap
<1>13. CASE Read
  <2>1. msg' \in Message /\ pipe' \in Seq(Message)
    BY <1>13, SeqFacts DEF Read
  <2>2. /\ reader' \in {"found", "read"}
        /\ UNCHANGED <<outside, box, client, adverse>>
    BY <1>13 DEF Read
  <2>3. CountInv'
    BY <2>2
  <2>4. TypeOK'
    BY <2>1, <2>2
  <2>5. QED
    BY <2>3, <2>4
<1>14. CASE ReadShort \/ Eof
  <2>1. CASE ReadShort
    BY <2>1 DEF ReadShort
  <2>2. CASE Eof
    BY <2>2 DEF Eof
  <2>3. QED
    BY <1>14, <2>1, <2>2
<1>15. CASE Put
  <2>1. box' \in [Ids -> {"none", "empty", "own", "foreign"}]
    BY <1>15 DEF Put, Content
  <2>2. /\ reader' \in {"dead", "read", "full"}
        /\ UNCHANGED <<outside, pipe, msg, client, adverse>>
    BY <1>15 DEF Put
  <2>3. QED
    BY <2>1, <2>2
<1>16. CASE PutWaited
  <2>1. box' \in [Ids -> {"none", "empty", "own", "foreign"}]
    BY <1>16 DEF PutWaited, Content
  <2>2. reader' = "read" /\ UNCHANGED <<outside, pipe, msg, client, adverse>>
    BY <1>16 DEF PutWaited
  <2>3. QED
    BY <2>1, <2>2
<1>17. CASE Take
  <2>1. stdin' \in Seq(0..MaxIds) /\ Head(stdin) \in 0..MaxIds
    BY <1>17, SeqFacts DEF Take
  <2>2. inbox' = (inbox \cup {Head(stdin)}) \ {0}
    BY <1>17 DEF Take
  <2>3. inbox' \subseteq Ids
    <3>1. inbox \subseteq Ids
      BY DEF TypeOK
    <3> HIDE DEF TypeOK, CountInv, client, thread, outside, Ids
    <3>2. QED
      BY ONLY <2>1, <2>2, <3>1, IdsAdd
  <2>4. UNCHANGED <<server, out, errs, noise, pipe, thread, box, client, adverse>>
    BY <1>17 DEF Take
  <2>5. CountInv'
    BY <2>4
  <2>6. TypeOK'
    BY <2>1, <2>3, <2>4
  <2>7. QED
    BY <2>5, <2>6
<1>18. CASE \E i \in Ids : Answer(i)
  <2>1. PICK i \in Ids : Answer(i)
    BY <1>18
  <2>2. [id |-> i, own |-> TRUE] \in Message
    BY <2>1 DEF Message
  <2>3. /\ out' \in {{m} : m \in Message}
        /\ inbox' \subseteq Ids
    BY <2>1, <2>2 DEF Answer
  <2>4. UNCHANGED <<server, stdin, errs, noise, pipe, thread, box, client, adverse>>
    BY <2>1 DEF Answer
  <2>5. QED
    BY <2>3, <2>4
<1>19. CASE \E i \in 0..MaxIds : Chatter(i)
  <2>1. PICK i \in 0..MaxIds : Chatter(i)
    BY <1>19
  <2>2. [id |-> i, own |-> FALSE] \in Message
    BY <2>1 DEF Message
  <2>3. out' \in {{m} : m \in Message}
    BY <2>1, <2>2 DEF Chatter
  <2>4. noise' \in 0..MaxNoise /\ adverse' \subseteq {"ask", "race", "short"}
    BY <2>1 DEF Chatter
  <2>5. UNCHANGED <<server, stdin, inbox, errs, pipe, thread, box, client>>
    BY <2>1 DEF Chatter
  <2>6. QED
    BY <2>3, <2>4, <2>5
<1>20. CASE Flush
  BY <1>20, SeqFacts DEF Flush
<1>21. CASE Die
  BY <1>21 DEF Die
<1>22. CASE Complain
  <2>1. errs' \in 0..(MaxStderr + 1)
    BY <1>22 DEF Complain, Blocked
  <2>2. UNCHANGED <<server, stdin, inbox, out, noise, pipe, thread, box, client,
                    adverse>>
    BY <1>22 DEF Complain
  <2>3. QED
    BY <2>1, <2>2
<1>23. QED
  BY <1>1, <1>2, <1>3, <1>4, <1>5, <1>6, <1>7, <1>8, <1>9, <1>10, <1>11, <1>12,
     <1>13, <1>14, <1>15, <1>16, <1>17, <1>18, <1>19, <1>20, <1>21, <1>22
  DEF Next, ClientStep, ReaderStep

\* Every variable keeps its type.
THEOREM TypeCorrect == Spec => [](TypeOK /\ CountInv)
<1>1. Init => TypeOK /\ CountInv
  BY LspAssumption DEF Init, TypeOK, CountInv, Message, Ids
<1>2. QED
  BY <1>1, TypeStep, PTL DEF Spec

-----------------------------------------------------------------------------
(* What a session leaves behind.                                           *)

\* A session that has begun, whose initialization was answered, ends by stop,
\* and stop does not return before the server is gone.
THEOREM ServerStoppedHolds == Spec => []ServerStopped
<1>1. Init => ServerStopped
  BY DEF Init, ServerStopped
<1>2. TypeOK /\ CountInv /\ ServerStopped /\ [Next]_vars => ServerStopped'
  <2> SUFFICES ASSUME TypeOK, CountInv, ServerStopped, [Next]_vars
               PROVE  ServerStopped'
    OBVIOUS
  <2> USE DEF ServerStopped, client
  <2>1. CASE UNCHANGED vars
    BY <2>1 DEF vars
  <2>2. CASE Start \/ Begin \/ Refused \/ Open \/ EndQueries
    BY <2>2 DEF CountInv, Start, Begin, Refused, Open, EndQueries
  <2>3. CASE Send \/ Get \/ Expire
    BY <2>3 DEF Send, Get, Expire
  <2>4. CASE Notify \/ NotifyFails \/ Reap
    <3>1. CASE Notify
      BY <3>1 DEF Notify
    <3>2. CASE NotifyFails
      BY <3>2 DEF NotifyFails, TypeOK
    <3>3. CASE Reap
      BY <3>3 DEF Reap
    <3>4. QED
      BY <2>4, <3>1, <3>2, <3>3
  <2>5. CASE SendFails \/ Pop \/ PopLate
    <3>1. phase' = phase /\ (pc' = "done" => phase = "init")
      BY <2>5, ThenType DEF TypeOK, SendFails, Pop, PopLate
    <3>2. QED
      BY <3>1
  <2>6. CASE ReaderStep
    BY <2>6 DEF ReaderStep, Read, ReadShort, Eof, Put, PutWaited, outside
  <2>7. CASE Take \/ Flush \/ Complain \/ Die
    BY <2>7 DEF Take, Flush, Complain, Die
  <2>8. CASE (\E i \in Ids : Answer(i)) \/ (\E i \in 0..MaxIds : Chatter(i))
    BY <2>8 DEF Answer, Chatter
  <2>9. QED
    BY <2>1, <2>2, <2>3, <2>4, <2>5, <2>6, <2>7, <2>8 DEF Next, ClientStep
<1>3. QED
  BY <1>1, <1>2, TypeCorrect, PTL DEF Spec

-----------------------------------------------------------------------------
(* The reader.                                                             *)

\* What has gone wrong stays so.
LEMMA QuietBefore ==
    ASSUME CountInv, [Next]_vars, Quiet'
    PROVE  Quiet
<1> USE DEF Quiet
<1>1. CASE UNCHANGED vars
  BY <1>1 DEF vars
<1>2. CASE Start
  BY <1>2 DEF Start, CountInv
<1>3. CASE Begin \/ Refused \/ Open \/ EndQueries \/ Send \/ SendFails
  BY <1>3 DEF Begin, Refused, Open, EndQueries, Send, SendFails, outside
<1>4. CASE Get \/ Pop \/ Expire \/ PopLate
  BY <1>4 DEF Get, Pop, Expire, PopLate, outside
<1>5. CASE Notify \/ NotifyFails \/ Reap
  BY <1>5 DEF Notify, NotifyFails, Reap, outside
<1>6. CASE ReaderStep
  BY <1>6 DEF ReaderStep, Read, ReadShort, Eof, Put, PutWaited, outside
<1>7. CASE Take \/ Flush \/ Complain \/ Die
  BY <1>7 DEF Take, Flush, Complain, Die
<1>8. CASE (\E i \in Ids : Answer(i)) \/ (\E i \in 0..MaxIds : Chatter(i))
  BY <1>8 DEF Answer, Chatter
<1>9. QED
  BY <1>1, <1>2, <1>3, <1>4, <1>5, <1>6, <1>7, <1>8 DEF Next, ClientStep

\* Of the steps of a quiet session, these alone do something the invariants
\* speak of.
LEMMA QuietSteps ==
    ASSUME TypeOK, CountInv, QuietInv, [Next]_vars, Quiet'
    PROVE  \/ UNCHANGED vars
           \/ Start \/ Begin \/ Open \/ EndQueries \/ Send \/ Get \/ Pop
           \/ Expire \/ (PopLate /\ ~(reader = "found" /\ msg.id = cur))
           \/ Notify
           \/ Read \/ (Put /\ box[msg.id] = "empty")
           \/ Take \/ Flush \/ Complain
           \/ \E i \in Ids : Answer(i)
           \/ Chatter(0)
<1>1. Quiet /\ BoxInv /\ FoundInv
  BY QuietBefore DEF QuietInv
<1>2. server # "dead" /\ server' # "dead" /\ adverse' = {}
  BY <1>1 DEF Quiet
<1>3. ~Refused /\ ~SendFails /\ ~NotifyFails /\ ~Reap /\ ~Die
  BY <1>2 DEF Refused, SendFails, NotifyFails, Reap, Die
<1>4. ~ReadShort /\ ~Eof
  BY <1>2 DEF ReadShort, Eof
<1>5. PopLate => ~(reader = "found" /\ msg.id = cur)
  BY <1>2 DEF PopLate
<1>6. Put => box[msg.id] = "empty"
  BY <1>1 DEF Put, FoundInv
<1>7. ~PutWaited
  BY <1>1, <1>2 DEF PutWaited, FoundInv, TypeOK
<1>8. ASSUME NEW i \in 0..MaxIds, Chatter(i) PROVE Chatter(0)
  BY <1>2, <1>8 DEF Chatter
<1>9. QED
  BY <1>3, <1>4, <1>5, <1>6, <1>7, <1>8 DEF Next, ClientStep, ReaderStep


\* At most one request is under way, it is the one in _pending, and a message
\* about to be put has an empty queue to go to.
LEMMA BoxFound ==
    ASSUME TypeOK, CountInv, QuietInv, [Next]_vars, Quiet'
    PROVE  BoxInv' /\ FoundInv'
<1>1. Quiet /\ BoxInv /\ FoundInv /\ OnceInv
  BY QuietBefore DEF QuietInv
<1>2. server # "dead" /\ server' # "dead"
  BY <1>1 DEF Quiet
<1> USE <1>1, <1>2 DEF BoxInv, FoundInv, Busy, outside, thread, client
<1>3. CASE UNCHANGED vars
  BY <1>3 DEF vars
<1>4. CASE Start
  <2>1. ASSUME NEW i \in Ids PROVE box[i] = "none"
    BY <1>4 DEF Start
  <2>2. QED
    BY <1>4, <2>1 DEF Start, CountInv, TypeOK
<1>5. CASE Begin
  <2>1. next \in Ids
    BY <1>5, LspAssumption DEF Begin, CountInv, TypeOK, Ids
  <2>2. /\ pc = "ready" /\ pc' = "send" /\ cur' = next /\ next' = next + 1
        /\ box' = [box EXCEPT ![next] = "empty"]
        /\ UNCHANGED <<server, reader, msg>>
    BY <1>5 DEF Begin
  <2>3. cur' \in Ids /\ cur' < next'
    BY <2>1, <2>2 DEF Ids
  <2>4. ASSUME NEW i \in Ids PROVE box'[i] = IF i = next THEN "empty" ELSE "none"
    BY <2>2 DEF TypeOK
  <2>5. reader # "found"
    BY <2>2
  <2>6. QED
    BY <2>2, <2>3, <2>4, <2>5
<1>6. CASE Open \/ EndQueries \/ Notify
  BY <1>6 DEF Open, EndQueries, Notify
<1>7. CASE Send \/ Expire
  BY <1>7 DEF Send, Expire
<1>8. CASE Get
  <2>1. /\ pc = "wait" /\ pc' = "got" /\ UNCHANGED <<server, reader, msg, next, cur>>
        /\ box' = [box EXCEPT ![cur] = "empty"]
        /\ box[cur] \in {"own", "foreign"}
    BY <1>8 DEF Get
  <2>2. ASSUME NEW i \in Ids PROVE box'[i] = IF i = cur THEN "empty" ELSE box[i]
    BY <2>1 DEF TypeOK
  <2>3. QED
    BY <2>1, <2>2
<1>9. CASE Pop \/ (PopLate /\ ~(reader = "found" /\ msg.id = cur))
  <2>1. /\ pc \in {"got", "late"} /\ pc' \notin Busy
        /\ UNCHANGED <<server, msg, next, cur>>
        /\ box' = [box EXCEPT ![cur] = "none"]
    BY <1>9, ThenType DEF Pop, PopLate, TypeOK
  <2>2. ASSUME NEW i \in Ids PROVE box'[i] = "none"
    BY <2>1 DEF TypeOK
  <2>3. reader' = reader /\ reader # "found"
    BY <1>9 DEF Pop, PopLate, TypeOK
  <2>4. QED
    BY <2>1, <2>2, <2>3
<1>10. CASE Read
  <2>1. /\ reader = "read" /\ pipe # <<>> /\ msg' = pipe[1]
        /\ reader' = IF msg'.id # 0 /\ box[msg'.id] # "none" THEN "found" ELSE "read"
        /\ UNCHANGED <<server, box, next, pc, cur>>
    BY <1>10, SeqFacts DEF Read, TypeOK
  <2>2. 1 \in 1..Len(pipe) /\ msg' \in Message
    BY <2>1, SeqFacts DEF TypeOK
  <2>3. ASSUME reader' = "found"
        PROVE  msg'.own /\ msg'.id = cur /\ pc \in {"wait", "late"} /\ box[cur] = "empty"
    <3>1. msg'.id \in Ids /\ box[msg'.id] # "none" /\ msg'.id # 0
      BY <2>1, <2>2, <2>3, LspAssumption DEF Message, Ids
    <3>2. msg'.own
      BY <2>1, <2>2, <3>1 DEF OnceInv
    <3>3. msg'.id = cur /\ pc \in Busy
      BY <3>1
    <3>4. Written(cur)
      BY <2>1, <2>2, <3>3 DEF Written
    <3>5. ~Arrived(cur) /\ ~Unsent(cur)
      BY <3>1, <3>3, <3>4 DEF OnceInv, OnePlace
    <3>6. pc # "got" /\ box[cur] # "own" /\ pc # "send"
      BY <3>3, <3>5 DEF Arrived, Unsent
    <3>7. QED
      BY <3>1, <3>2, <3>3, <3>6
  <2>4. QED
    BY <2>1, <2>3
<1>11. CASE Put /\ box[msg.id] = "empty"
  <2>1. /\ reader = "found" /\ reader' = "read"
        /\ box' = [box EXCEPT ![cur] = "own"]
        /\ UNCHANGED <<server, msg, next, pc, cur>>
    BY <1>11 DEF Put, Content
  <2>2. ASSUME NEW i \in Ids PROVE box'[i] = IF i = cur THEN "own" ELSE box[i]
    BY <2>1 DEF TypeOK
  <2>3. QED
    BY <2>1, <2>2
<1>12. CASE Take \/ Flush \/ Complain
  BY <1>12 DEF Take, Flush, Complain
<1>13. CASE (\E i \in Ids : Answer(i)) \/ Chatter(0)
  BY <1>13 DEF Answer, Chatter
<1>14. QED
  BY <1>3, <1>4, <1>5, <1>6, <1>7, <1>8, <1>9, <1>10, <1>11, <1>12, <1>13, QuietSteps

\* Steps that move no message lose none and duplicate none.
LEMMA Unmoved ==
    ASSUME OnceInv, UNCHANGED <<stdin, inbox, out, pipe>>,
           \A i \in Ids : (Arrived(i)' => Arrived(i)) /\ (Unsent(i)' => Unsent(i))
    PROVE  OnceInv'
<1>1. ASSUME NEW i \in Ids PROVE OnePlace(i)'
  <2>1. /\ Asked(i)' = Asked(i) /\ Held(i)' = Held(i) /\ Written(i)' = Written(i)
        /\ inbox' = inbox
    BY DEF Asked, Held, Written
  <2>2. (Arrived(i)' => Arrived(i)) /\ (Unsent(i)' => Unsent(i)) /\ OnePlace(i)
    BY DEF OnceInv
  <2>3. QED
    BY <2>1, <2>2 DEF OnePlace
<1>2. QED
  BY <1>1 DEF OnceInv

\* Every place is filled from the one before it, which is left.
LEMMA Moved ==
    ASSUME NEW i \in Ids, OnePlace(i),
           Unsent(i)' => Unsent(i),
           Asked(i)' => Asked(i) \/ (Unsent(i) /\ ~Unsent(i)'),
           i \in inbox' => i \in inbox \/ (Asked(i) /\ ~Asked(i)'),
           Held(i)' => Held(i) \/ (i \in inbox /\ i \notin inbox'),
           Written(i)' => Written(i) \/ (Held(i) /\ ~Held(i)'),
           Arrived(i)' => Arrived(i) \/ (Written(i) /\ ~Written(i)')
    PROVE  OnePlace(i)'
  BY DEF OnePlace

\* The places in a sequence that has grown.
LEMMA AppendIn ==
    ASSUME NEW T, NEW s \in Seq(T), NEW e \in T
    PROVE  \A k \in 1..Len(Append(s, e)) :
              \/ k \in 1..Len(s) /\ Append(s, e)[k] = s[k]
              \/ k = Len(s) + 1 /\ Append(s, e)[k] = e
  BY SeqFacts

\* The places in a sequence that has lost its first element.
LEMMA TailIn ==
    ASSUME NEW T, NEW s \in Seq(T), s # <<>>
    PROVE  /\ 1 \in 1..Len(s) /\ s[1] = Head(s) /\ s[1] \in T
           /\ \A k \in 1..Len(Tail(s)) :
                 /\ k + 1 \in 1..Len(s) /\ k + 1 # 1
                 /\ Tail(s)[k] = s[k + 1]
  BY SeqFacts

\* A request is in one place, and there once.
LEMMA Once ==
    ASSUME TypeOK, CountInv, QuietInv, [Next]_vars, Quiet'
    PROVE  OnceInv'
<1>1. Quiet /\ BoxInv /\ FoundInv /\ OnceInv /\ BoxInv' /\ FoundInv'
  BY QuietBefore, BoxFound DEF QuietInv
<1> USE <1>1 DEF outside, thread, client
<1>2. CASE UNCHANGED vars
  BY <1>2, Unmoved DEF vars, Arrived, Unsent
<1>3. CASE Start \/ Open \/ EndQueries \/ Complain
  BY <1>3, Unmoved DEF Start, Open, EndQueries, Complain, Arrived, Unsent, Busy
<1>4. CASE Begin
  <2>1. /\ pc = "ready" /\ pc' = "send" /\ cur' = next /\ next' = next + 1
        /\ box' = [box EXCEPT ![next] = "empty"]
        /\ UNCHANGED <<server, reader, msg, stdin, inbox, out, pipe>>
    BY <1>4 DEF Begin
  <2>2. next \in Ids
    BY <1>4, LspAssumption DEF Begin, CountInv, TypeOK, Ids
  <2>3. reader' # "found" /\ box'[cur'] = "empty"
    BY <2>1, <2>2 DEF FoundInv, TypeOK
  <2>4. ASSUME NEW i \in Ids PROVE ~Arrived(i)' /\ (Unsent(i)' => Unsent(i))
    BY <2>1, <2>2, <2>3 DEF Arrived, Unsent, Ids
  <2>5. QED
    BY <2>1, <2>4, Unmoved
<1>5. CASE Expire
  BY <1>5, Unmoved DEF Expire, Arrived, Unsent, Busy
<1>6. CASE Get
  <2>1. /\ pc = "wait" /\ pc' = "got" /\ box[cur] = "own"
        /\ UNCHANGED <<reader, msg, next, cur, stdin, inbox, out, pipe>>
    BY <1>6 DEF Get, BoxInv, Busy
  <2>2. ASSUME NEW i \in Ids PROVE /\ Arrived(i)' => Arrived(i)
                                   /\ Unsent(i)' => Unsent(i)
    BY <2>1 DEF Arrived, Unsent, Busy
  <2>3. QED
    BY <2>1, <2>2, Unmoved
<1>7. CASE Pop \/ (PopLate /\ ~(reader = "found" /\ msg.id = cur))
  <2>1. /\ pc \in {"got", "late"} /\ pc' \notin Busy /\ pc' # "send"
        /\ UNCHANGED <<msg, next, cur, stdin, inbox, out, pipe>>
    BY <1>7, ThenType DEF Pop, PopLate, TypeOK, Busy
  <2>2. reader' # "found"
    BY <1>7 DEF Pop, PopLate, FoundInv
  <2>3. ASSUME NEW i \in Ids PROVE /\ Arrived(i)' => Arrived(i)
                                   /\ Unsent(i)' => Unsent(i)
    BY <2>1, <2>2 DEF Arrived, Unsent
  <2>4. QED
    BY <2>1, <2>3, Unmoved
<1>8. CASE Put /\ box[msg.id] = "empty"
  <2>1. /\ reader = "found" /\ reader' = "read" /\ msg.id = cur
        /\ UNCHANGED <<msg, next, pc, cur, stdin, inbox, out, pipe>>
    BY <1>8 DEF Put, FoundInv
  <2>2. ASSUME NEW i \in Ids PROVE /\ Arrived(i)' => Arrived(i)
                                   /\ Unsent(i)' => Unsent(i)
    BY <2>1 DEF Arrived, Unsent
  <2>3. QED
    BY <2>1, <2>2, Unmoved
<1>9. CASE Send
  <2>1. /\ pc = "send" /\ pc' = "wait" /\ stdin' = Append(stdin, cur)
        /\ UNCHANGED <<inbox, out, pipe, reader, msg, box, next, cur>>
    BY <1>9 DEF Send
  <2>2. cur \in Ids /\ cur < next /\ next \in Nat
    BY <2>1 DEF BoxInv, Busy, TypeOK
  <2>3. Unsent(cur)
    BY <2>1, <2>2 DEF Unsent, Ids
  <2>4. \A k \in 1..Len(stdin') : \/ k \in 1..Len(stdin) /\ stdin'[k] = stdin[k]
                                  \/ k = Len(stdin) + 1 /\ stdin'[k] = cur
    BY <2>1, <2>2, AppendIn DEF TypeOK, Ids
  <2>5. ~Asked(cur)
    BY <2>2, <2>3 DEF OnceInv, OnePlace
  <2>6. \A k, l \in 1..Len(stdin') : stdin'[k] = stdin'[l] /\ stdin'[k] # 0 => k = l
    BY <2>4, <2>5 DEF OnceInv, Asked
  <2>7. ASSUME NEW i \in Ids PROVE OnePlace(i)'
    <3>1. OnePlace(i)
      BY DEF OnceInv
    <3>2. /\ Unsent(i)' => Unsent(i)
          /\ Arrived(i)' => Arrived(i)
      BY <2>1 DEF Unsent, Arrived, Busy
    <3>3. Asked(i)' => Asked(i) \/ i = cur
      BY <2>4 DEF Asked
    <3>4. i = cur => Unsent(i) /\ ~Unsent(i)'
      BY <2>1, <2>2 DEF Unsent, Ids
    <3>5. Held(i)' = Held(i) /\ Written(i)' = Written(i) /\ inbox' = inbox
      BY <2>1 DEF Held, Written
    <3>6. QED
      BY <3>1, <3>2, <3>3, <3>4, <3>5, Moved
  <2>8. QED
    BY <2>1, <2>6, <2>7 DEF OnceInv
<1>10. CASE Notify
  <2>1. /\ pc = "note" /\ pc' \in {"reap", "ready"} /\ stdin' = Append(stdin, 0)
        /\ UNCHANGED <<inbox, out, pipe, reader, msg, box, next, cur>>
    BY <1>10 DEF Notify
  <2>2. \A k \in 1..Len(stdin') : \/ k \in 1..Len(stdin) /\ stdin'[k] = stdin[k]
                                  \/ k = Len(stdin) + 1 /\ stdin'[k] = 0
    BY <2>1, AppendIn, LspAssumption DEF TypeOK
  <2>3. \A k, l \in 1..Len(stdin') : stdin'[k] = stdin'[l] /\ stdin'[k] # 0 => k = l
    BY <2>2 DEF OnceInv
  <2>4. ASSUME NEW i \in Ids PROVE OnePlace(i)'
    <3>1. OnePlace(i)
      BY DEF OnceInv
    <3>2. /\ Unsent(i)' => Unsent(i)
          /\ Arrived(i)' => Arrived(i)
      BY <2>1 DEF Unsent, Arrived, Busy
    <3>3. Asked(i)' => Asked(i)
      BY <2>2 DEF Asked, Ids
    <3>4. Held(i)' = Held(i) /\ Written(i)' = Written(i) /\ inbox' = inbox
      BY <2>1 DEF Held, Written
    <3>5. QED
      BY <3>1, <3>2, <3>3, <3>4, Moved
  <2>5. QED
    BY <2>1, <2>3, <2>4 DEF OnceInv
<1>11. CASE Read
  <2>1. /\ reader = "read" /\ pipe # <<>> /\ msg' = Head(pipe) /\ pipe' = Tail(pipe)
        /\ UNCHANGED <<stdin, inbox, out, box, next, pc, cur>>
    BY <1>11 DEF Read
  <2>2. /\ 1 \in 1..Len(pipe) /\ pipe[1] = msg' /\ msg' \in Message
        /\ \A k \in 1..Len(pipe') : /\ k + 1 \in 1..Len(pipe) /\ k + 1 # 1
                                    /\ pipe'[k] = pipe[k + 1]
    BY <2>1, TailIn DEF TypeOK
  <2>3. /\ \A k, l \in 1..Len(pipe') :
              pipe'[k].id = pipe'[l].id /\ pipe'[k].id # 0 => k = l
        /\ \A k \in 1..Len(pipe') : pipe'[k].own \/ pipe'[k].id = 0
    <3>1. ASSUME NEW k \in 1..Len(pipe'), NEW l \in 1..Len(pipe'),
                 pipe'[k].id = pipe'[l].id, pipe'[k].id # 0
          PROVE  k = l
      <4>1. /\ k + 1 \in 1..Len(pipe) /\ pipe'[k] = pipe[k + 1]
            /\ l + 1 \in 1..Len(pipe) /\ pipe'[l] = pipe[l + 1]
        BY <2>2
      <4>2. k + 1 = l + 1
        BY <3>1, <4>1 DEF OnceInv
      <4>3. QED
        BY <4>2
    <3>2. \A k \in 1..Len(pipe') : pipe'[k].own \/ pipe'[k].id = 0
      BY <2>2 DEF OnceInv
    <3>3. QED
      BY <3>1, <3>2
  <2>4. ASSUME NEW i \in Ids PROVE OnePlace(i)'
    <3>1. OnePlace(i) /\ i # 0
      BY DEF OnceInv, Ids
    <3>2. Unsent(i)' => Unsent(i)
      BY <2>1 DEF Unsent
    <3>3. ASSUME Written(i)' PROVE Written(i) /\ msg'.id # i
      <4>1. PICK k \in 1..Len(pipe') : pipe'[k].id = i
        BY <3>3 DEF Written
      <4>2. k + 1 \in 1..Len(pipe) /\ k + 1 # 1 /\ pipe[k + 1].id = i
        BY <2>2, <4>1
      <4>3. pipe[1].id # i
        BY <2>2, <3>1, <4>2 DEF OnceInv
      <4>4. QED
        BY <2>2, <4>2, <4>3 DEF Written
    <3>4. msg'.id = i => Written(i)
      BY <2>2 DEF Written
    <3>5. Arrived(i)' => Arrived(i) \/ msg'.id = i
      BY <2>1 DEF Arrived, Busy
    <3>6. Held(i)' = Held(i) /\ Asked(i)' = Asked(i) /\ inbox' = inbox
      BY <2>1 DEF Held, Asked
    <3>7. QED
      BY <3>1, <3>2, <3>3, <3>4, <3>5, <3>6, Moved
  <2>5. QED
    BY <2>1, <2>3, <2>4 DEF OnceInv
<1>12. CASE Take
  <2>1. /\ stdin # <<>> /\ stdin' = Tail(stdin)
        /\ inbox' = (inbox \cup {Head(stdin)}) \ {0}
        /\ UNCHANGED <<out, pipe, reader, msg, box, next, pc, cur>>
    BY <1>12 DEF Take
  <2>2. /\ 1 \in 1..Len(stdin) /\ stdin[1] = Head(stdin)
        /\ \A k \in 1..Len(stdin') : /\ k + 1 \in 1..Len(stdin) /\ k + 1 # 1
                                     /\ stdin'[k] = stdin[k + 1]
    BY <2>1, TailIn DEF TypeOK
  <2>3. \A k, l \in 1..Len(stdin') : stdin'[k] = stdin'[l] /\ stdin'[k] # 0 => k = l
    BY <2>2 DEF OnceInv
  <2>4. ASSUME NEW i \in Ids PROVE OnePlace(i)'
    <3>1. OnePlace(i) /\ i # 0
      BY DEF OnceInv, Ids
    <3>2. /\ Unsent(i)' => Unsent(i)
          /\ Arrived(i)' => Arrived(i)
      BY <2>1 DEF Unsent, Arrived
    <3>3. Asked(i)' => Asked(i) /\ Head(stdin) # i
      BY <2>2, <3>1 DEF Asked, OnceInv
    <3>4. Head(stdin) = i => Asked(i)
      BY <2>2 DEF Asked
    <3>5. i \in inbox' => i \in inbox \/ Head(stdin) = i
      BY <2>1
    <3>6. Held(i)' = Held(i) /\ Written(i)' = Written(i)
      BY <2>1 DEF Held, Written
    <3>7. QED
      BY <3>1, <3>2, <3>3, <3>4, <3>5, <3>6, Moved
  <2>5. QED
    BY <2>1, <2>3, <2>4 DEF OnceInv
<1>13. CASE \E j \in Ids : Answer(j)
  <2>1. PICK j \in Ids : Answer(j)
    BY <1>13
  <2>2. /\ out = {} /\ out' = {[id |-> j, own |-> TRUE]}
        /\ j \in inbox /\ inbox' = inbox \ {j}
        /\ UNCHANGED <<stdin, pipe, reader, msg, box, next, pc, cur>>
    BY <2>1 DEF Answer
  <2>3. ASSUME NEW i \in Ids PROVE OnePlace(i)'
    <3>1. OnePlace(i)
      BY DEF OnceInv
    <3>2. /\ Unsent(i)' = Unsent(i) /\ Arrived(i)' = Arrived(i)
          /\ Asked(i)' = Asked(i) /\ Written(i)' = Written(i)
      BY <2>2 DEF Unsent, Arrived, Asked, Written
    <3>3. Held(i)' => i = j
      BY <2>2 DEF Held
    <3>4. QED
      BY <2>2, <3>1, <3>2, <3>3, Moved
  <2>4. \A m \in out' : m.own \/ m.id = 0
    BY <2>2
  <2>5. QED
    BY <2>2, <2>3, <2>4 DEF OnceInv
<1>14. CASE Chatter(0)
  <2>1. /\ out = {} /\ out' = {[id |-> 0, own |-> FALSE]}
        /\ UNCHANGED <<stdin, inbox, pipe, reader, msg, box, next, pc, cur>>
    BY <1>14 DEF Chatter
  <2>2. ASSUME NEW i \in Ids PROVE OnePlace(i)'
    <3>1. OnePlace(i)
      BY DEF OnceInv
    <3>2. /\ Unsent(i)' = Unsent(i) /\ Arrived(i)' = Arrived(i)
          /\ Asked(i)' = Asked(i) /\ Written(i)' = Written(i)
      BY <2>1 DEF Unsent, Arrived, Asked, Written
    <3>3. ~Held(i)'
      BY <2>1 DEF Held, Ids
    <3>4. QED
      BY <2>1, <3>1, <3>2, <3>3, Moved
  <2>3. \A m \in out' : m.own \/ m.id = 0
    BY <2>1
  <2>4. QED
    BY <2>1, <2>2, <2>3 DEF OnceInv
<1>15. CASE Flush
  <2>1. PICK m \in out : pipe' = Append(pipe, m)
    BY <1>15 DEF Flush
  <2>2. out' = {} /\ UNCHANGED <<stdin, inbox, reader, msg, box, next, pc, cur>>
    BY <1>15 DEF Flush
  <2>3. m \in Message /\ (m.own \/ m.id = 0)
    BY DEF TypeOK, OnceInv
  <2>4. \A k \in 1..Len(pipe') : \/ k \in 1..Len(pipe) /\ pipe'[k] = pipe[k]
                                 \/ k = Len(pipe) + 1 /\ pipe'[k] = m
    BY <2>1, <2>3, AppendIn DEF TypeOK
  <2>5. m.id # 0 => ~Written(m.id)
    <3>1. Held(m.id)
      BY DEF Held
    <3>2. m.id # 0 => m.id \in Ids
      BY <2>3, LspAssumption DEF Message, Ids
    <3>3. QED
      BY <3>1, <3>2 DEF OnceInv, OnePlace
  <2>6. \A k, l \in 1..Len(pipe') :
           pipe'[k].id = pipe'[l].id /\ pipe'[k].id # 0 => k = l
    BY <2>4, <2>5 DEF OnceInv, Written
  <2>7. \A k \in 1..Len(pipe') : pipe'[k].own \/ pipe'[k].id = 0
    BY <2>3, <2>4 DEF OnceInv
  <2>8. ASSUME NEW i \in Ids PROVE OnePlace(i)'
    <3>1. OnePlace(i)
      BY DEF OnceInv
    <3>2. /\ Unsent(i)' = Unsent(i) /\ Arrived(i)' = Arrived(i)
          /\ Asked(i)' = Asked(i)
      BY <2>2 DEF Unsent, Arrived, Asked
    <3>3. ~Held(i)'
      BY <2>2 DEF Held
    <3>4. Written(i)' => Written(i) \/ m.id = i
      BY <2>4 DEF Written
    <3>5. m.id = i => Held(i)
      BY DEF Held
    <3>6. QED
      BY <2>2, <3>1, <3>2, <3>3, <3>4, <3>5, Moved
  <2>9. QED
    BY <2>2, <2>6, <2>7, <2>8 DEF OnceInv
<1>16. QED
  BY <1>2, <1>3, <1>4, <1>5, <1>6, <1>7, <1>8, <1>9, <1>10, <1>11, <1>12,
     <1>13, <1>14, <1>15, QuietSteps

\* The reader serves as long as the server runs and nothing has gone wrong:
\* whatever is late, lost or out of order, the queue of a message it is about
\* to put is there and empty.
THEOREM ReaderServesHolds == Spec => []ReaderServes
<1>1. Init => QuietInv
  BY DEF Init, QuietInv, BoxInv, FoundInv, OnceInv, OnePlace, Busy, Asked, Held,
         Written, Arrived, Unsent
<1>2. TypeOK /\ CountInv /\ QuietInv /\ [Next]_vars => QuietInv'
  BY BoxFound, Once DEF QuietInv
<1>3. QuietInv => ReaderServes
  BY DEF QuietInv, Quiet, FoundInv, ReaderServes
<1>4. QED
  BY <1>1, <1>2, <1>3, TypeCorrect, PTL DEF Spec

-----------------------------------------------------------------------------
(* What requests return.                                                   *)

\* Every step keeps the queues to answers, while the server asks nothing.
LEMMA OwnStep ==
    ASSUME TypeOK, OwnInv, [Next]_vars
    PROVE  OwnInv'
<1> SUFFICES ASSUME "ask" \notin adverse'
             PROVE  OwnInv'
  BY DEF OwnInv
<1>1. "ask" \notin adverse
  BY DEF vars, Next, ClientStep, ReaderStep, Start, Begin, Refused, Open, EndQueries,
         Send, SendFails, Get, Pop, Expire, PopLate, Notify, NotifyFails, Reap,
         Read, ReadShort, Eof, Put, PutWaited, Take, Flush, Complain, Die, Answer,
         Chatter
<1>2. /\ \A m \in out : m.own \/ m.id = 0
      /\ \A k \in 1..Len(pipe) : pipe[k].own \/ pipe[k].id = 0
      /\ reader \in {"found", "full"} => msg.own
      /\ \A i \in Ids : box[i] # "foreign" /\ result[i] # "foreign"
  BY <1>1 DEF OwnInv
<1>3. /\ pipe \in Seq(Message) /\ msg \in Message
      /\ box \in [Ids -> {"none", "empty", "own", "foreign"}]
      /\ result \in [Ids -> {"none", "own", "foreign", "late", "error"}]
  BY DEF TypeOK
<1> USE DEF OwnInv, outside, thread, client
<1>4. CASE Start \/ Refused \/ Open \/ EndQueries \/ Send \/ Expire \/ Notify
           \/ NotifyFails \/ UNCHANGED vars
  BY <1>2, <1>4 DEF Start, Refused, Open, EndQueries, Send, Expire, Notify,
                    NotifyFails, vars
<1>5. CASE Begin
  BY <1>2, <1>3, <1>5 DEF Begin
<1>6. CASE Get
  BY <1>2, <1>3, <1>6 DEF Get
<1>7. CASE SendFails \/ Pop
  BY <1>2, <1>3, <1>7 DEF SendFails, Pop
<1>8. CASE PopLate
  BY <1>2, <1>3, <1>8 DEF PopLate
<1>9. CASE Reap \/ Die \/ Take \/ Complain
  BY <1>2, <1>9 DEF Reap, Die, Take, Complain
<1>10. CASE Read
  <2>1. /\ msg'.own \/ msg'.id = 0
        /\ \A k \in 1..Len(pipe') : pipe'[k].own \/ pipe'[k].id = 0
    BY <1>2, <1>3, <1>10, TailIn DEF Read
  <2>2. reader' = "found" => msg'.id # 0
    BY <1>10 DEF Read
  <2>3. reader' \in {"found", "read"} /\ UNCHANGED <<out, box, result>>
    BY <1>10 DEF Read
  <2>4. QED
    BY <1>2, <2>1, <2>2, <2>3
<1>11. CASE ReadShort \/ Eof
  BY <1>2, <1>11 DEF ReadShort, Eof
<1>12. CASE Put
  BY <1>2, <1>3, <1>12 DEF Put, Content
<1>13. CASE PutWaited
  BY <1>2, <1>3, <1>13 DEF PutWaited, Content
<1>14. CASE Flush
  <2>1. PICK m \in out : pipe' = Append(pipe, m)
    BY <1>14 DEF Flush
  <2>2. m \in Message /\ (m.own \/ m.id = 0)
    BY <1>2, <2>1 DEF TypeOK
  <2>3. \A k \in 1..Len(pipe') : pipe'[k].own \/ pipe'[k].id = 0
    BY <1>2, <1>3, <2>1, <2>2, AppendIn
  <2>4. out' = {} /\ UNCHANGED <<reader, msg, box, result>>
    BY <1>14 DEF Flush
  <2>5. QED
    BY <1>2, <2>3, <2>4
<1>15. ASSUME NEW i \in Ids, Answer(i) PROVE OwnInv'
  BY <1>2, <1>15 DEF Answer
<1>16. ASSUME NEW i \in 0..MaxIds, Chatter(i) PROVE OwnInv'
  BY <1>2, <1>16 DEF Chatter
<1>17. QED
  BY <1>4, <1>5, <1>6, <1>7, <1>8, <1>9, <1>10, <1>11, <1>12, <1>13, <1>14, <1>15,
     <1>16 DEF Next, ClientStep, ReaderStep

\* What a request returns is the answer to it, however late others come, as
\* long as the server asks nothing, whose numbers may be those of requests.
THEOREM OwnUnlessAskedHolds == Spec => []OwnUnlessAsked
<1>1. Init => OwnInv
  BY DEF Init, OwnInv
<1>2. OwnInv => OwnUnlessAsked
  BY DEF OwnInv, OwnUnlessAsked, OwnAnswer
<1>3. QED
  BY <1>1, <1>2, OwnStep, TypeCorrect, PTL DEF Spec

-----------------------------------------------------------------------------
(* Who waits for whom.                                                     *)

\* Every step keeps the queue of the request under way.
LEMMA WaitStep ==
    ASSUME TypeOK, CountInv, WaitInv, [Next]_vars
    PROVE  WaitInv'
<1>0. /\ box \in [Ids -> {"none", "empty", "own", "foreign"}]
      /\ next \in 1..(MaxIds + 1) /\ phase \in {"init", "query", "stop"}
      /\ server \in {"off", "up", "dead"}
  BY DEF TypeOK
<1> USE DEF WaitInv, outside, thread, client
<1>1. CASE Start
  BY <1>1 DEF Start
<1>2. CASE Begin
  <2>1. next \in Ids
    BY <1>2, LspAssumption, <1>0 DEF Begin, CountInv, Ids
  <2>2. QED
    BY <1>0, <1>2, <2>1 DEF Begin
<1>3. CASE Refused \/ Open \/ EndQueries \/ Send \/ Expire \/ NotifyFails \/ UNCHANGED vars
  BY <1>0, <1>3 DEF Refused, Open, EndQueries, Send, Expire, NotifyFails, vars
<1>4. CASE Notify \/ Reap
  BY <1>0, <1>4 DEF Notify, Reap
<1>5. CASE Get
  BY <1>0, <1>5 DEF Get
<1>6. CASE SendFails \/ Pop \/ PopLate
  <2>1. pc \notin {"new", "done"} /\ server' = server
    BY <1>6 DEF SendFails, Pop, PopLate
  <2>2. pc' \in {"note", "done", "ready", "reap"}
    BY <1>0, <1>6, ThenType DEF SendFails, Pop, PopLate
  <2>3. QED
    BY <2>1, <2>2
<1>7. CASE Read \/ ReadShort \/ Eof
  BY <1>7 DEF Read, ReadShort, Eof
<1>8. CASE Put \/ PutWaited
  <2>1. UNCHANGED <<pc, cur, server>>
    BY <1>8 DEF Put, PutWaited
  <2>2. \A i \in Ids : box[i] # "none" => box'[i] # "none"
    BY <1>0, <1>8 DEF Put, PutWaited, Content
  <2>3. QED
    BY <2>1, <2>2
<1>9. CASE Take \/ Flush \/ Complain \/ Die
  BY <1>9 DEF Take, Flush, Complain, Die
<1>10. CASE (\E i \in Ids : Answer(i)) \/ (\E i \in 0..MaxIds : Chatter(i))
  BY <1>10 DEF Answer, Chatter
<1>11. QED
  BY <1>1, <1>2, <1>3, <1>4, <1>5, <1>6, <1>7, <1>8, <1>9, <1>10
     DEF Next, ClientStep, ReaderStep

\* Whatever the capacity of the pipes: until the session is over one of client,
\* reader and server can move, or the client hangs in _send, and then the server
\* is blocked in its error output or something has gone wrong with the reader.
THEOREM SessionMovesHolds ==
    ASSUME MaxStdin > 0, MaxPipe > 0
    PROVE  Spec => []SessionMoves
<1>1. Init => WaitInv
  BY DEF Init, WaitInv
<1>2. TypeOK /\ ReaderServes /\ WaitInv => SessionMoves
  <2> SUFFICES ASSUME TypeOK, ReaderServes, WaitInv, pc # "done", ~ClientCan,
                      ~(Hung /\ (Blocked \/ adverse # {}))
               PROVE  ReaderCan \/ ServerCan
    BY DEF SessionMoves
  <2>1. pc \in {"send", "note"} /\ server = "up" /\ ~(Len(stdin) < MaxStdin)
    BY DEF TypeOK, WaitInv, ClientCan
  <2>2. stdin # <<>> /\ Len(stdin) >= MaxStdin
    BY <2>1, LspAssumption DEF TypeOK
  <2>3. ~Blocked /\ adverse = {}
    BY <2>1, <2>2 DEF Hung
  <2>4. CASE out = {} \/ Len(pipe) < MaxPipe
    BY <2>1, <2>2, <2>3, <2>4 DEF ServerCan
  <2>5. CASE ~(Len(pipe) < MaxPipe)
    <3>1. pipe # <<>>
      BY <2>5 DEF TypeOK
    <3>2. reader \in {"read", "found"}
      BY <2>1, <2>3 DEF ReaderServes
    <3>3. QED
      BY <3>1, <3>2 DEF ReaderCan
  <2>6. QED
    BY <2>4, <2>5
<1>3. QED
  BY <1>1, <1>2, WaitStep, TypeCorrect, ReaderServesHolds, PTL DEF Spec

=============================================================================
