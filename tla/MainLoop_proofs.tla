-------------------------- MODULE MainLoop_proofs --------------------------
(***************************************************************************)
(* Proofs about MainLoop, for any number of messages and threads: type     *)
(* correctness, that answers are given in order, that exit code 0 is for a *)
(* client that was told of the shutdown, that a client is served within    *)
(* its session only, and that no task is cut off by the end of the process.*)
(***************************************************************************)
EXTENDS MainLoop, FiniteSetTheorems, SequenceTheorems, TLAPS

USE MainLoopAssumption

(***************************************************************************)
(* The inductive invariant.                                                *)
(***************************************************************************)

Looping == phase \in {"reading", "writing"}

\* The part of LoopLeftProcessEnds that is about every state: the drop of the
\* runtime waits for the tasks that run.
EndsWithoutTasks == phase = "ended" => running = 0

\* The outbox is filled by the message just read, and a loop that was left
\* starts no more tasks.
PhaseInv ==
    /\ phase = "writing" <=> outbox # <<>>
    /\ Looping <=> verdict = -1
    /\ ~Looping => queued = 0
    /\ EndsWithoutTasks

Says(answer) == \E i \in DOMAIN Told : Told[i].answer = answer

\* What the client was told gives away the state of the handshake, while the
\* loop goes on.
StateInv ==
    Looping =>
        /\ state = "Uninitialized" => At({"capabilities", "result", "INVALID_PARAMS",
                                          "diagnostics", "null"}, Told) = {}
        /\ state # "Uninitialized" => Says("capabilities")
        /\ state # "ShuttingDown" => ~Says("null")
        /\ state = "ShuttingDown" => Says("null")

\* There is one answer to an `initialize', before all that is served.
SessionInv ==
    /\ \A i, j \in At({"capabilities"}, Told) : i = j
    /\ ServedInSessionOnly

IInv ==
    /\ TypeOK
    /\ PhaseInv
    /\ AnsweredInOrder
    /\ StateInv
    /\ SessionInv
    /\ CleanExitWasShutdown

(***************************************************************************)
(* What a step tells the client.                                           *)
(***************************************************************************)

\* Another message is told.
Tells(m) ==
    /\ Told' \in Seq(Message)
    /\ Len(Told') = Len(Told) + 1
    /\ Told'[Len(Told) + 1] = m
    /\ \A i \in 1..Len(Told) : Told'[i] = Told[i]

\* The last message is not told after all.
Untells ==
    /\ Len(Told) = Len(Told') + 1
    /\ \A i \in 1..Len(Told') : Told'[i] = Told[i]

\* An outbox holds a message or nothing.
LEMMA OutboxIs ==
    \A s : s \in BoundedSeq(Message, 1) <=> s = <<>> \/ \E m \in Message : s = <<m>>
  <1> SUFFICES ASSUME NEW s
               PROVE  s \in BoundedSeq(Message, 1)
                        <=> s = <<>> \/ \E m \in Message : s = <<m>>
    OBVIOUS
  <1>1. s \in BoundedSeq(Message, 1) <=> \E n \in 0..1 : s \in [1..n -> Message]
    BY DEF BoundedSeq, SeqOf
  <1>2. ASSUME NEW n \in Nat
        PROVE  s \in [1..n -> Message] <=> s \in Seq(Message) /\ Len(s) = n
    <2>1. s \in [1..n -> Message] => s \in Seq(Message) /\ Len(s) = n
      BY SeqDef
    <2>2. s \in Seq(Message) /\ Len(s) = n => s \in [1..n -> Message]
      BY LenProperties
    <2> QED
      BY <2>1, <2>2
  <1>3. s \in Seq(Message) /\ Len(s) = 1 <=> \E m \in Message : s = <<m>>
    <2>1. ASSUME s \in Seq(Message), Len(s) = 1 PROVE \E m \in Message : s = <<m>>
      <3>1. 1 \in 1..Len(s)
        BY <2>1
      <3>2. s[1] \in Message
        BY <2>1, <3>1, ElementOfSeq
      <3>3. s = <<s[1]>>
        BY <2>1, <3>2
      <3> QED
        BY <3>2, <3>3
    <2>2. ASSUME NEW m \in Message PROVE <<m>> \in Seq(Message) /\ Len(<<m>>) = 1
      BY <2>2
    <2> QED
      BY <2>1, <2>2
  <1>6. s \in Seq(Message) /\ Len(s) = 0 <=> s = <<>>
    BY EmptySeq
  <1>4. \A n \in 0..1 : n = 0 \/ n = 1
    OBVIOUS
  <1>5. 0 \in 0..1 /\ 1 \in 0..1
    OBVIOUS
  <1> QED
    BY <1>1, <1>2, <1>3, <1>4, <1>5, <1>6

\* What is told are messages, now and in the next state.
LEMMA ToldType == /\ TypeOK => Told \in Seq(Message)
                  /\ TypeOK' => Told' \in Seq(Message)
  <1>1. ASSUME NEW s \in Seq(Message), NEW t \in BoundedSeq(Message, 1)
        PROVE  s \o t \in Seq(Message)
    <2>1. CASE t = <<>>
      BY <2>1
    <2>2. CASE \E m \in Message : t = <<m>>
      BY <2>2
    <2> QED
      BY <2>1, <2>2, OutboxIs
  <1>2. TypeOK => Told \in Seq(Message)
    BY <1>1 DEF TypeOK, Told
  <1>3. TypeOK' => Told' \in Seq(Message)
    BY <1>1 DEF TypeOK, Told
  <1> QED
    BY <1>2, <1>3

\* A message put into the empty outbox is one more message told.
LEMMA TellingOne ==
    ASSUME TypeOK, outbox = <<>>, NEW m \in Message, outbox' = <<m>>, sent' = sent
    PROVE  Tells(m) /\ outbox' \in BoundedSeq(Message, 1)
  <1>1. sent \in Seq(Message) /\ Told \in Seq(Message)
    BY ToldType DEF TypeOK
  <1>2. Told = sent
    BY <1>1 DEF Told
  <1>3. Told' = sent \o <<m>>
    BY DEF Told
  <1>4. Tells(m)
    BY <1>1, <1>2, <1>3 DEF Tells
  <1> QED
    BY <1>4, OutboxIs

\* Writing tells nothing new, and losing the outbox untells its message.
LEMMA Writing ==
    ASSUME TypeOK, outbox # <<>>, outbox' = <<>>
    PROVE  /\ sent' = sent \o outbox => Told' = Told
           /\ sent' = sent => Untells /\ Told' = sent
  <1>1. PICK m \in Message : outbox = <<m>>
    BY OutboxIs DEF TypeOK
  <1>2. sent \in Seq(Message)
    BY DEF TypeOK
  <1>3. sent' = sent \o outbox => Told' = Told
    BY <1>1, <1>2 DEF Told
  <1>4. sent' = sent => Told' = sent
    BY <1>2 DEF Told
  <1> QED
    BY <1>1, <1>2, <1>3, <1>4 DEF Told, Untells

\* What a handler answers is an answer.
LEMMA ReplyType == \A m : Reply(m) \in Answer
  BY DEF Reply, Answer

\* The cases of a step: an answer to one who asked, diagnostics in a session,
\* the end of the loop, with its last message lost or not, or nothing that the
\* client is told.
Answers(id, answer) ==
    /\ phase = "reading"
    /\ phase' = "writing"
    /\ id \in Id
    /\ answer \in Answer
    /\ Tells([id |-> id, answer |-> answer])
    /\ asked' = Append(asked, id)
    /\ UNCHANGED <<sent, verdict>>
    /\ \/ /\ answer \in {"result", "INVALID_PARAMS"}
          /\ state = "Initialized"
          /\ state' = state
       \/ /\ answer = "capabilities"
          /\ state = "Uninitialized"
          /\ state' = "Initialized"
       \/ /\ answer = "null"
          /\ state = "Initialized"
          /\ state' = "ShuttingDown"
       \/ /\ answer \notin {"result", "INVALID_PARAMS", "capabilities", "null"}
          /\ state' = state

Publishes ==
    /\ phase = "reading"
    /\ phase' = "writing"
    /\ state = "Initialized"
    /\ Tells(Diagnostics)
    /\ UNCHANGED <<state, sent, asked, verdict>>

Leaves ==
    /\ Looping
    /\ phase' = "draining"
    /\ verdict' \in {0, 1}
    /\ UNCHANGED <<state, sent, asked>>
    /\ \/ phase = "reading" /\ Told' = Told /\ verdict' = ExitCode
       \/ phase = "reading" /\ Told' = Told /\ verdict' = 1
       \/ phase = "writing" /\ Untells /\ verdict' = 1

TellsNothing ==
    /\ Told' = Told
    /\ Looping' <=> Looping
    /\ \A i \in DOMAIN sent : i \in DOMAIN sent' /\ sent'[i] = sent[i]
    /\ UNCHANGED <<state, asked, verdict>>

\* Every step is one of these.
LEMMA StepCases ==
    ASSUME IInv, [Next]_vars
    PROVE  \/ \E id \in Id, answer \in Answer : Answers(id, answer)
           \/ Publishes
           \/ Leaves
           \/ TellsNothing
  <1> DEFINE Case == \/ \E id \in Id, answer \in Answer : Answers(id, answer)
                     \/ Publishes
                     \/ Leaves
                     \/ TellsNothing
  <1> USE DEF IInv
  <1>1. phase = "reading" => outbox = <<>>
    BY DEF PhaseInv
  <1>2. ASSUME NEW id \in Id, NEW answer \in Answer, phase = "reading",
               Respond(id, answer)
        PROVE  Tells([id |-> id, answer |-> answer])
    <2>1. [id |-> id, answer |-> answer] \in Message
      BY DEF Message
    <2> QED
      BY <1>1, <1>2, <2>1, TellingOne DEF Respond
  <1>3. Hear => heard' \in Id
    BY DEF Hear, TypeOK, Id
  <1>4. ASSUME NEW m \in Method, HearRequest(m) PROVE Case
    <2>1. heard' \in Id /\ phase = "reading"
      BY <1>3, <1>4 DEF HearRequest, Hear
    <2>2. CASE m = "query" /\ IsInitialized
      <3>1. PICK answer \in {"result", "INVALID_PARAMS"} :
              Respond(heard', answer) /\ state' = state
        BY <1>4, <2>2 DEF HearRequest
      <3>2. answer \in Answer
        BY DEF Answer
      <3>3. Answers(heard', answer)
        BY <1>2, <2>1, <2>2, <3>1, <3>2 DEF Answers, Respond, IsInitialized
      <3> QED
        BY <2>1, <3>2, <3>3
    <2>3. CASE ~(m = "query" /\ IsInitialized)
      <3>1. Respond(heard', Reply(m)) /\ HandleRequest(m)
        BY <1>4, <2>3 DEF HearRequest
      <3>2. Reply(m) \in Answer
        BY ReplyType
      <3>3. \/ /\ Reply(m) = "capabilities"
               /\ state = "Uninitialized"
               /\ state' = "Initialized"
            \/ /\ Reply(m) = "null"
               /\ state = "Initialized"
               /\ state' = "ShuttingDown"
            \/ /\ Reply(m) \notin {"result", "INVALID_PARAMS", "capabilities", "null"}
               /\ state' = state
        BY <3>1 DEF Reply, HandleRequest, TypeOK, State
      <3>4. Answers(heard', Reply(m))
        BY <1>2, <2>1, <3>1, <3>2, <3>3 DEF Answers, Respond
      <3> QED
        BY <2>1, <3>2, <3>4
    <2> QED
      BY <2>2, <2>3
  <1>5. CASE HearUnparsable
    <2>1. heard' \in Id /\ NoId \in Id /\ phase = "reading" /\ state' = state
      BY <1>3, <1>5 DEF HearUnparsable, Hear, Id, NoId
    <2>2. PICK id \in Id, answer \in {"PARSE_ERROR", "INVALID_REQUEST"} :
            Respond(id, answer)
      BY <1>5, <2>1 DEF HearUnparsable
    <2>3. answer \in Answer
      BY DEF Answer
    <2>4. Answers(id, answer)
      BY <1>2, <2>1, <2>2, <2>3 DEF Answers, Respond
    <2> QED
      BY <2>3, <2>4
  <1>6. CASE HearDocument
    <2>1. /\ phase = "reading"
          /\ state = "Initialized"
          /\ outbox' = <<Diagnostics>>
          /\ UNCHANGED <<state, verdict, sent, asked>>
      BY <1>6 DEF HearDocument, Hear, IsInitialized, Handled
    <2>2. Diagnostics \in Message
      BY DEF Diagnostics, Message, Id, NoId
    <2>3. Tells(Diagnostics)
      BY <1>1, <2>1, <2>2, TellingOne
    <2>4. phase' = "writing"
      BY <1>6 DEF HearDocument, Handled
    <2> QED
      BY <2>1, <2>3, <2>4 DEF Publishes
  <1>7. CASE HearSilent
    BY <1>1, <1>7 DEF HearSilent, Hear, Handled, TellsNothing, Told, Looping
  <1>8. CASE HearExit
    BY <1>1, <1>8 DEF HearExit, Hear, Leaves, Told, Looping, ExitCode
  <1>9. CASE HearEnd
    BY <1>1, <1>9 DEF HearEnd, Leaves, Told, Looping
  <1>10. CASE Write
    <2>1. Told' = Told
      BY <1>10, Writing DEF Write, PhaseInv
    <2>2. \A i \in DOMAIN sent : i \in DOMAIN sent' /\ sent'[i] = sent[i]
      BY <1>10, OutboxIs DEF Write, TypeOK
    <2> QED
      BY <1>10, <2>1, <2>2 DEF Write, TellsNothing, Looping
  <1>11. CASE WriteFails
    BY <1>11, Writing DEF WriteFails, PhaseInv, Leaves, Looping
  <1>12. CASE End \/ StartTask \/ FinishTask \/ UNCHANGED vars
    BY <1>12 DEF End, StartTask, FinishTask, vars, TellsNothing, Told, Looping
  <1> QED
    BY <1>4, <1>5, <1>6, <1>7, <1>8, <1>9, <1>10, <1>11, <1>12 DEF Next, Client

(***************************************************************************)
(* Counting answers.                                                       *)
(***************************************************************************)

\* t is s with another message.
Longer(s, t) ==
    /\ Len(t) = Len(s) + 1
    /\ \A i \in 1..Len(s) : t[i] = s[i]

\* The places of answers are those of the shorter sequence, and the last.
LEMMA AtLonger ==
    \A answers : \A s, t \in Seq(Message) : Longer(s, t) =>
        /\ At(answers, s) = At(answers, t) \ {Len(t)}
        /\ t[Len(t)].answer \in answers => At(answers, t) = At(answers, s) \cup {Len(t)}
        /\ t[Len(t)].answer \notin answers => At(answers, t) = At(answers, s)
  <1> SUFFICES ASSUME NEW answers, NEW s \in Seq(Message), NEW t \in Seq(Message),
                      Longer(s, t)
               PROVE  /\ At(answers, s) = At(answers, t) \ {Len(t)}
                      /\ t[Len(t)].answer \in answers
                            => At(answers, t) = At(answers, s) \cup {Len(t)}
                      /\ t[Len(t)].answer \notin answers
                            => At(answers, t) = At(answers, s)
    OBVIOUS
  <1>1. /\ DOMAIN s = 1..Len(s) /\ DOMAIN t = 1..Len(t)
        /\ Len(s) \in Nat /\ Len(t) = Len(s) + 1
    BY DEF Longer
  <1>2. \A i \in DOMAIN t : i = Len(t) \/ i \in DOMAIN s
    BY <1>1
  <1>3. \A i \in DOMAIN s : i \in DOMAIN t /\ i # Len(t) /\ t[i] = s[i]
    BY <1>1 DEF Longer
  <1>4. Len(t) \in DOMAIN t
    BY <1>1
  <1> QED
    BY <1>2, <1>3, <1>4 DEF At

\* A count is a number, one of something positive, and grows with the place.
LEMMA GivenBounds ==
    ASSUME NEW s \in Seq(Message), NEW i \in 0..Len(s)
    PROVE  /\ IsFiniteSet({j \in At(Answer, s) : j <= i})
           /\ Given(s, i) \in Nat
           /\ Given(s, i) <= Given(s, Len(s))
           /\ i \in At(Answer, s) => Given(s, i) >= 1
  <1> DEFINE Upto(k) == {j \in At(Answer, s) : j <= k}
  <1>1. Len(s) \in Nat /\ DOMAIN s = 1..Len(s)
    OBVIOUS
  <1>2. IsFiniteSet(Upto(Len(s)))
    <2>1. Upto(Len(s)) \subseteq 1..Len(s)
      BY <1>1 DEF At
    <2>2. IsFiniteSet(1..Len(s))
      BY <1>1, FS_Interval
    <2> QED
      BY <2>1, <2>2, FS_Subset
  <1>3. Upto(i) \subseteq Upto(Len(s))
    BY <1>1 DEF At
  <1>4. /\ IsFiniteSet(Upto(i))
        /\ Cardinality(Upto(i)) <= Cardinality(Upto(Len(s)))
    BY <1>2, <1>3, FS_Subset
  <1>5. Cardinality(Upto(i)) \in Nat
    BY <1>4, FS_CardinalityType
  <1>6. i \in At(Answer, s) => Cardinality(Upto(i)) # 0
    BY <1>4, FS_EmptySet
  <1> QED
    BY <1>4, <1>5, <1>6 DEF Given

\* Another message leaves the counts before it, and adds one if it answers.
LEMMA GivenLonger ==
    ASSUME NEW s \in Seq(Message), NEW t \in Seq(Message), Longer(s, t)
    PROVE  /\ \A i \in 1..Len(s) : Given(t, i) = Given(s, i)
           /\ t[Len(t)].answer \in Answer => Given(t, Len(t)) = Given(s, Len(s)) + 1
           /\ t[Len(t)].answer \notin Answer => Given(t, Len(t)) = Given(s, Len(s))
  <1>1. /\ DOMAIN s = 1..Len(s) /\ DOMAIN t = 1..Len(t)
        /\ Len(s) \in Nat /\ Len(t) = Len(s) + 1
    BY DEF Longer
  <1>2. /\ At(Answer, s) \subseteq 1..Len(s)
        /\ At(Answer, s) = At(Answer, t) \ {Len(t)}
    <2>1. At(Answer, s) \subseteq 1..Len(s)
      BY <1>1 DEF At
    <2> QED
      BY <2>1, AtLonger
  <1>3. ASSUME NEW i \in 1..Len(s) PROVE Given(t, i) = Given(s, i)
    <2>1. {j \in At(Answer, t) : j <= i} = {j \in At(Answer, s) : j <= i}
      BY <1>1, <1>2
    <2> QED
      BY <2>1 DEF Given
  <1> DEFINE S == {j \in At(Answer, s) : j <= Len(s)}
             T == {j \in At(Answer, t) : j <= Len(t)}
  <1>4. IsFiniteSet(S)
    BY <1>1, GivenBounds
  <1>5. Len(t) \notin S
    BY <1>1
  <1>6. CASE t[Len(t)].answer \in Answer
    <2>1. At(Answer, t) = At(Answer, s) \cup {Len(t)}
      BY <1>6, AtLonger
    <2>2. T = S \cup {Len(t)}
      BY <1>1, <1>2, <2>1
    <2> HIDE DEF S, T
    <2>3. Cardinality(T) = Cardinality(S) + 1
      BY <1>4, <1>5, <2>2, FS_AddElement
    <2> QED
      BY <1>3, <1>6, <2>3 DEF Given, S, T
  <1>7. CASE t[Len(t)].answer \notin Answer
    <2>1. At(Answer, t) = At(Answer, s)
      BY <1>7, AtLonger
    <2>2. T = S
      BY <1>1, <1>2, <2>1
    <2> QED
      BY <1>3, <1>7, <2>2 DEF Given
  <1> QED
    BY <1>6, <1>7

(***************************************************************************)
(* Type correctness and the phases.                                        *)
(***************************************************************************)

\* The process starts in the invariant.
LEMMA InvInit == Init => IInv
  <1> SUFFICES ASSUME Init PROVE IInv
    OBVIOUS
  <1>1. TypeOK
    <2>1. <<>> \in BoundedSeq(Message, 1)
      BY OutboxIs
    <2> QED
      BY <2>1 DEF Init, HandshakeInit, TypeOK, State
  <1>2. Told = <<>> /\ \A answers : At(answers, Told) = {}
    BY DEF Init, Told, At
  <1>3. PhaseInv
    BY DEF Init, PhaseInv, Looping, EndsWithoutTasks
  <1>4. AnsweredInOrder
    <2>1. Given(Told, Len(Told)) = 0
      BY <1>2, FS_EmptySet DEF Given
    <2> QED
      BY <1>2, <2>1 DEF Init, AnsweredInOrder
  <1>5. StateInv /\ SessionInv
    BY <1>2 DEF Init, HandshakeInit, StateInv, Says, SessionInv, ServedInSessionOnly
  <1>6. CleanExitWasShutdown
    BY DEF Init, CleanExitWasShutdown
  <1> QED
    BY <1>1, <1>3, <1>4, <1>5, <1>6 DEF IInv

\* No step takes a variable out of its type.
LEMMA TypeStep == IInv /\ [Next]_vars => TypeOK'
  <1> SUFFICES ASSUME IInv, [Next]_vars PROVE TypeOK'
    OBVIOUS
  <1> USE DEF IInv
  <1>1. ASSUME NEW id \in Id, NEW answer \in Answer, Respond(id, answer), Hear,
               state' \in State
        PROVE  TypeOK'
    <2>1. [id |-> id, answer |-> answer] \in Message
      BY DEF Message
    <2>2. outbox' \in BoundedSeq(Message, 1)
      BY <1>1, <2>1, OutboxIs DEF Respond
    <2> QED
      BY <1>1, <2>2 DEF Respond, Hear, TypeOK
  <1>2. Hear => heard' \in Id
    BY DEF Hear, TypeOK, Id
  <1>3. ASSUME NEW m \in Method, HearRequest(m) PROVE TypeOK'
    <2>1. Hear /\ heard' \in Id
      BY <1>2, <1>3 DEF HearRequest
    <2>2. CASE m = "query" /\ IsInitialized
      <3>1. PICK answer \in {"result", "INVALID_PARAMS"} :
              Respond(heard', answer) /\ state' = state
        BY <1>3, <2>2 DEF HearRequest
      <3>2. answer \in Answer
        BY DEF Answer
      <3> QED
        BY <1>1, <2>1, <3>1, <3>2 DEF TypeOK
    <2>3. CASE ~(m = "query" /\ IsInitialized)
      <3>1. Respond(heard', Reply(m)) /\ HandleRequest(m)
        BY <1>3, <2>3 DEF HearRequest
      <3>2. state' \in State
        BY <3>1 DEF HandleRequest, TypeOK, State
      <3> QED
        BY <1>1, <2>1, <3>1, <3>2, ReplyType
    <2> QED
      BY <2>2, <2>3
  <1>4. CASE HearUnparsable
    <2>1. Hear /\ heard' \in Id /\ NoId \in Id /\ state' = state
      BY <1>2, <1>4 DEF HearUnparsable, Id, NoId
    <2>2. PICK id \in Id, answer \in {"PARSE_ERROR", "INVALID_REQUEST"} :
            Respond(id, answer)
      BY <1>4, <2>1 DEF HearUnparsable
    <2>3. answer \in Answer
      BY DEF Answer
    <2> QED
      BY <1>1, <2>1, <2>2, <2>3 DEF TypeOK
  <1>5. CASE HearDocument
    <2>1. PICK n \in 0..2 : Handled(<<Diagnostics>>, n)
      BY <1>5 DEF HearDocument
    <2>2. Diagnostics \in Message
      BY DEF Diagnostics, Message, Id, NoId
    <2>3. outbox' \in BoundedSeq(Message, 1) /\ phase' \in {"reading", "writing"}
      BY <2>1, <2>2, OutboxIs DEF Handled
    <2>4. queued' \in Nat
      BY <2>1 DEF Handled, TypeOK
    <2> QED
      BY <1>5, <2>1, <2>3, <2>4 DEF HearDocument, Hear, Handled, TypeOK
  <1>6. CASE HearSilent
    <2>1. PICK n \in 0..2 : Handled(<<>>, n)
      BY <1>6 DEF HearSilent
    <2>2. outbox' \in BoundedSeq(Message, 1) /\ phase' = "reading"
      BY <2>1, OutboxIs DEF Handled
    <2>3. queued' \in Nat
      BY <2>1 DEF Handled, TypeOK
    <2> QED
      BY <1>6, <2>1, <2>2, <2>3 DEF HearSilent, Hear, Handled, TypeOK
  <1>7. CASE HearExit
    BY <1>7 DEF HearExit, Hear, ExitCode, TypeOK
  <1>8. CASE HearEnd
    BY <1>8 DEF HearEnd, TypeOK
  <1>9. CASE Write
    <2>1. outbox' \in BoundedSeq(Message, 1)
      BY <1>9, OutboxIs DEF Write
    <2>2. sent' = Told
      BY <1>9 DEF Write, Told
    <2> QED
      BY <1>9, <2>1, <2>2, ToldType DEF Write, TypeOK
  <1>10. CASE WriteFails
    <2>1. outbox' \in BoundedSeq(Message, 1)
      BY <1>10, OutboxIs DEF WriteFails
    <2> QED
      BY <1>10, <2>1 DEF WriteFails, TypeOK
  <1>11. CASE End
    BY <1>11 DEF End, TypeOK
  <1>12. CASE StartTask
    BY <1>12 DEF StartTask, TypeOK
  <1>13. CASE FinishTask
    BY <1>13 DEF FinishTask, TypeOK
  <1>14. CASE UNCHANGED vars
    BY <1>14 DEF vars, TypeOK
  <1> QED
    BY <1>3, <1>4, <1>5, <1>6, <1>7, <1>8, <1>9, <1>10, <1>11, <1>12, <1>13, <1>14
    DEF Next, Client

\* The outbox, the exit code and the pool follow the phase.
LEMMA PhaseStep == IInv /\ [Next]_vars => PhaseInv'
  <1> SUFFICES ASSUME IInv, [Next]_vars PROVE PhaseInv'
    OBVIOUS
  <1> USE DEF IInv, PhaseInv, Looping, EndsWithoutTasks
  <1>1. ASSUME NEW id, NEW answer, Respond(id, answer), Hear PROVE PhaseInv'
    BY <1>1 DEF Respond, Hear
  <1>2. ASSUME NEW m \in Method, HearRequest(m) PROVE PhaseInv'
    BY <1>1, <1>2 DEF HearRequest
  <1>3. CASE HearUnparsable
    BY <1>1, <1>3 DEF HearUnparsable
  <1>4. CASE HearDocument
    BY <1>4 DEF HearDocument, Hear, Handled
  <1>5. CASE HearSilent
    BY <1>5 DEF HearSilent, Hear, Handled
  <1>6. CASE HearExit
    BY <1>6 DEF HearExit, Hear, ExitCode
  <1>7. CASE HearEnd \/ Write \/ WriteFails
    BY <1>7 DEF HearEnd, Write, WriteFails
  <1>8. CASE End
    BY <1>8 DEF End
  <1>9. CASE StartTask
    BY <1>9 DEF StartTask, TypeOK
  <1>10. CASE FinishTask
    BY <1>10 DEF FinishTask, TypeOK
  <1>11. CASE UNCHANGED vars
    BY <1>11 DEF vars
  <1> QED
    BY <1>2, <1>3, <1>4, <1>5, <1>6, <1>7, <1>8, <1>9, <1>10, <1>11 DEF Next, Client

(***************************************************************************)
(* The answers.                                                            *)
(***************************************************************************)

\* Each step keeps the answers in the order of the questions.
LEMMA AnsweredStep == IInv /\ [Next]_vars => AnsweredInOrder'
  <1> SUFFICES ASSUME IInv, [Next]_vars PROVE AnsweredInOrder'
    OBVIOUS
  <1>1. /\ Told \in Seq(Message) /\ Told' \in Seq(Message)
        /\ asked \in Seq(Id) /\ asked' \in Seq(Id)
    BY ToldType, TypeStep DEF IInv, TypeOK
  <1>2. /\ Len(Told) \in 0..Len(Told) /\ Len(Told') \in 0..Len(Told')
        /\ Len(asked) \in Nat
    BY <1>1
  <1>3. /\ Given(Told, Len(Told)) \in Nat
        /\ Given(Told', Len(Told')) \in Nat
        /\ \A i \in At(Answer, Told) : Given(Told, i) \in 1..Given(Told, Len(Told))
    <2>1. Given(Told, Len(Told)) \in Nat /\ Given(Told', Len(Told')) \in Nat
      BY <1>1, <1>2, GivenBounds
    <2>2. ASSUME NEW i \in At(Answer, Told)
          PROVE  Given(Told, i) \in 1..Given(Told, Len(Told))
      <3>1. i \in 0..Len(Told)
        BY <1>1 DEF At
      <3>2. /\ Given(Told, i) \in Nat
            /\ Given(Told, i) <= Given(Told, Len(Told))
            /\ Given(Told, i) >= 1
        BY <1>1, <3>1, GivenBounds
      <3> QED
        BY <2>1, <3>2
    <2> QED
      BY <2>1, <2>2
  <1>4. ASSUME NEW id \in Id, NEW answer \in Answer, Answers(id, answer)
        PROVE  AnsweredInOrder'
    <2> DEFINE m == [id |-> id, answer |-> answer]
    <2>1. /\ Longer(Told, Told')
          /\ Told'[Len(Told')] = m
          /\ Told'[Len(Told')].answer \in Answer
      BY <1>4 DEF Answers, Tells, Longer
    <2>2. Given(Told, Len(Told)) = Len(asked)
      BY <1>4 DEF Answers, IInv, AnsweredInOrder
    <2>3. /\ Given(Told', Len(Told')) = Len(asked) + 1
          /\ \A i \in 1..Len(Told) : Given(Told', i) = Given(Told, i)
      BY <1>1, <2>1, <2>2, GivenLonger
    <2>4. asked' = Append(asked, id)
      BY <1>4 DEF Answers
    <2>5. /\ Len(asked') = Len(asked) + 1
          /\ asked'[Len(asked) + 1] = id
          /\ \A k \in 1..Len(asked) : asked'[k] = asked[k]
      BY <1>1, <2>4, AppendProperties
    <2>6. ASSUME NEW i \in At(Answer, Told') PROVE Told'[i].id = asked'[Given(Told', i)]
      <3>1. CASE i = Len(Told')
        BY <2>1, <2>3, <2>5, <3>1
      <3>2. CASE i # Len(Told')
        <4>1. i \in At(Answer, Told)
          BY <1>1, <2>1, <3>2, AtLonger
        <4>2. i \in 1..Len(Told)
          BY <1>1, <4>1 DEF At
        <4>3. Told'[i] = Told[i] /\ Given(Told', i) = Given(Told, i)
          BY <2>1, <2>3, <4>2 DEF Longer
        <4>4. Told[i].id = asked[Given(Told, i)]
          BY <4>1 DEF IInv, AnsweredInOrder
        <4>5. Given(Told, i) \in 1..Len(asked)
          BY <1>3, <2>2, <4>1
        <4> QED
          BY <2>5, <4>3, <4>4, <4>5
      <3> QED
        BY <3>1, <3>2
    <2> QED
      BY <2>3, <2>5, <2>6 DEF AnsweredInOrder
  <1>5. CASE Publishes
    <2>1. /\ Longer(Told, Told')
          /\ Told'[Len(Told')].answer \notin Answer
          /\ asked' = asked
      BY <1>5 DEF Publishes, Tells, Longer, Diagnostics, Answer
    <2>2. /\ At(Answer, Told') = At(Answer, Told)
          /\ Given(Told', Len(Told')) = Given(Told, Len(Told))
          /\ \A i \in 1..Len(Told) : Given(Told', i) = Given(Told, i)
      BY <1>1, <2>1, AtLonger, GivenLonger
    <2>3. At(Answer, Told) \subseteq 1..Len(Told)
      BY <1>1 DEF At
    <2>4. ~(phase \in {"draining", "ended"})
      BY <1>5 DEF Publishes
    <2> QED
      BY <2>1, <2>2, <2>3, <2>4 DEF IInv, AnsweredInOrder, Longer
  <1>6. CASE Leaves
    <2>1. /\ Given(Told, Len(Told)) = Len(asked)
          /\ asked' = asked /\ phase' = "draining"
      BY <1>6 DEF Leaves, Looping, IInv, AnsweredInOrder
    <2>2. CASE Told' = Told
      BY <2>1, <2>2 DEF IInv, AnsweredInOrder
    <2>3. CASE Untells
      <3>1. Longer(Told', Told)
        BY <2>3 DEF Untells, Longer
      <3>2. /\ \A i \in 1..Len(Told') : Given(Told', i) = Given(Told, i)
            /\ At(Answer, Told') \subseteq At(Answer, Told)
            /\ \/ Given(Told', Len(Told')) = Len(asked)
               \/ Given(Told', Len(Told')) + 1 = Len(asked)
        BY <1>1, <2>1, <3>1, AtLonger, GivenLonger
      <3>3. At(Answer, Told') \subseteq 1..Len(Told')
        BY <1>1 DEF At
      <3>5. \A i \in At(Answer, Told') : Told'[i].id = asked'[Given(Told', i)]
        BY <2>1, <3>1, <3>2, <3>3 DEF Longer, IInv, AnsweredInOrder
      <3> QED
        BY <1>2, <1>3, <2>1, <3>2, <3>5 DEF AnsweredInOrder
    <2> QED
      BY <1>6, <2>2, <2>3 DEF Leaves
  <1>7. CASE TellsNothing
    <2>1. Told' = Told /\ asked' = asked /\ (Looping' <=> Looping)
      BY <1>7 DEF TellsNothing
    <2>2. TypeOK /\ TypeOK'
      BY TypeStep DEF IInv
    <2>3. phase \in {"draining", "ended"} => phase' \in {"draining", "ended"}
      BY <2>1, <2>2 DEF TypeOK, Looping
    <2> QED
      BY <2>1, <2>3 DEF IInv, AnsweredInOrder
  <1> QED
    BY <1>4, <1>5, <1>6, <1>7, StepCases

(***************************************************************************)
(* The session.                                                            *)
(***************************************************************************)

\* The places of some answers after one more message, and after one less.
LEMMA AtTells ==
    ASSUME Told \in Seq(Message), NEW m, Tells(m)
    PROVE  \A answers :
             /\ m.answer \in answers => At(answers, Told)' = At(answers, Told) \cup {Len(Told) + 1}
             /\ m.answer \notin answers => At(answers, Told)' = At(answers, Told)
             /\ \A i \in At(answers, Told) : i < Len(Told) + 1
  <1>1. Longer(Told, Told') /\ Told'[Len(Told')] = m /\ Told' \in Seq(Message)
    BY DEF Tells, Longer
  <1>2. \A answers : \A i \in At(answers, Told) : i < Len(Told) + 1
    BY DEF At
  <1> QED
    BY <1>1, <1>2, AtLonger DEF Longer

Capabilities == At({"capabilities"}, Told)
Served == At({"result", "INVALID_PARAMS", "diagnostics", "null"}, Told)
Nulls == At({"null"}, Told)

\* The invariants of the session in terms of these places.
StatePlaces ==
    Looping =>
        /\ state = "Uninitialized" => Capabilities = {} /\ Served = {}
        /\ state # "Uninitialized" => Capabilities # {}
        /\ state # "ShuttingDown" <=> Nulls = {}

SessionPlaces ==
    /\ \A i, j \in Capabilities : i = j
    /\ \A i \in Served : \E j \in Capabilities : j < i
    /\ \A i \in Served, j \in Nulls : i <= j

\* They say the same.
LEMMA Places == (StateInv <=> StatePlaces) /\ (SessionInv <=> SessionPlaces)
  <1>1. At({"capabilities", "result", "INVALID_PARAMS", "diagnostics", "null"}, Told)
          = Capabilities \cup Served
    BY DEF At, Capabilities, Served
  <1>2. Says("capabilities") <=> Capabilities # {}
    BY DEF At, Says, Capabilities
  <1>3. Says("null") <=> Nulls # {}
    BY DEF At, Says, Nulls
  <1>4. StateInv <=> StatePlaces
    BY <1>1, <1>2, <1>3 DEF StateInv, StatePlaces
  <1>5. (\A i, j \in Capabilities : i = j) => \A j \in Capabilities : Capabilities = {j}
    OBVIOUS
  <1> QED
    BY <1>4, <1>5
    DEF SessionInv, ServedInSessionOnly, SessionPlaces, Capabilities, Served, Nulls

\* They say the same of the next state.
LEMMA PlacesNext == (StateInv' <=> StatePlaces') /\ (SessionInv' <=> SessionPlaces')
  BY Places, PTL

\* Each step keeps what is served within the session.
LEMMA SessionStep == IInv /\ [Next]_vars => StateInv' /\ SessionInv'
  <1> SUFFICES ASSUME IInv, [Next]_vars PROVE StateInv' /\ SessionInv'
    OBVIOUS
  <1> SUFFICES StatePlaces' /\ SessionPlaces'
    BY PlacesNext
  <1>1. /\ Told \in Seq(Message) /\ Told' \in Seq(Message) /\ Len(Told) \in Nat
        /\ state \in State
    BY ToldType, TypeStep DEF IInv, TypeOK
  <1> DEFINE n == Len(Told) + 1
  <1>2. Nulls \subseteq Served /\ Served \subseteq Nat /\ Capabilities \subseteq Nat
    BY <1>1 DEF Nulls, Served, At, Capabilities
  <1>3. StatePlaces /\ SessionPlaces
    BY Places DEF IInv
  <1>4. ASSUME NEW id \in Id, NEW answer \in Answer, Answers(id, answer)
        PROVE  StatePlaces' /\ SessionPlaces'
    <2> DEFINE m == [id |-> id, answer |-> answer]
    <2>1. Tells(m) /\ m.answer = answer /\ Looping /\ Looping'
      BY <1>4 DEF Answers, Looping
    <2> HIDE DEF m
    <2>2. \A i \in Capabilities \cup Served \cup Nulls : i < n
      BY <1>1, <2>1, AtTells DEF Capabilities, Served, Nulls
    <2>3. Capabilities' = IF answer = "capabilities" THEN Capabilities \cup {n} ELSE Capabilities
      BY <1>1, <2>1, AtTells DEF Capabilities
    <2>4. Served' = IF answer \in {"result", "INVALID_PARAMS", "diagnostics", "null"}
                    THEN Served \cup {n} ELSE Served
      BY <1>1, <2>1, AtTells DEF Served
    <2>5. Nulls' = IF answer = "null" THEN Nulls \cup {n} ELSE Nulls
      BY <1>1, <2>1, AtTells DEF Nulls
    <2>6. CASE answer \in {"result", "INVALID_PARAMS"} /\ state = "Initialized"
                 /\ state' = state
      BY <1>1, <1>2, <1>3, <2>1, <2>2, <2>3, <2>4, <2>5, <2>6 DEF StatePlaces, SessionPlaces
    <2>7. CASE answer = "capabilities" /\ state = "Uninitialized" /\ state' = "Initialized"
      <3>1. Capabilities = {} /\ Served = {} /\ Nulls = {}
        BY <1>2, <1>3, <2>1, <2>7 DEF StatePlaces
      <3>2. Capabilities' = {n} /\ Served' = {} /\ Nulls' = {}
        BY <2>3, <2>4, <2>5, <2>7, <3>1
      <3> HIDE DEF n
      <3>3. StatePlaces'
        BY <2>7, <3>2 DEF StatePlaces
      <3>4. SessionPlaces'
        BY <3>2 DEF SessionPlaces
      <3> QED
        BY <3>3, <3>4
    <2>8. CASE answer = "null" /\ state = "Initialized" /\ state' = "ShuttingDown"
      <3>1. Capabilities # {} /\ Nulls = {}
        BY <1>3, <2>1, <2>8 DEF StatePlaces
      <3>2. Capabilities' = Capabilities /\ Served' = Served \cup {n} /\ Nulls' = {n}
        BY <2>3, <2>4, <2>5, <2>8, <3>1
      <3>3. StatePlaces'
        BY <2>8, <3>1, <3>2 DEF StatePlaces
      <3>4. SessionPlaces'
        <4>1. n \in Nat
          BY <1>1
        <4> HIDE DEF n
        <4>2. \A i \in Served' : \E j \in Capabilities' : j < i
          BY <1>3, <2>2, <3>1, <3>2 DEF SessionPlaces
        <4>3. \A i \in Served' : i <= n
          BY <1>2, <2>2, <3>2, <4>1
        <4> QED
          BY <1>3, <3>2, <4>2, <4>3 DEF SessionPlaces
      <3> QED
        BY <3>3, <3>4
    <2>9. CASE answer \notin {"result", "INVALID_PARAMS", "capabilities", "null"}
                 /\ state' = state
      <3>1. answer # "diagnostics"
        BY DEF Answer
      <3> QED
        BY <1>1, <1>2, <1>3, <2>1, <2>3, <2>4, <2>5, <2>9, <3>1 DEF StatePlaces, SessionPlaces
    <2> QED
      BY <1>4, <2>6, <2>7, <2>8, <2>9 DEF Answers
  <1>5. CASE Publishes
    <2>1. /\ Tells(Diagnostics) /\ Diagnostics.answer = "diagnostics" /\ Looping /\ Looping'
          /\ state = "Initialized" /\ state' = state
      BY <1>5 DEF Publishes, Looping, Diagnostics
    <2>2. \A i \in Capabilities \cup Served \cup Nulls : i < n
      BY <1>1, <2>1, AtTells DEF Capabilities, Served, Nulls
    <2>3. Capabilities' = Capabilities
      BY <1>1, <2>1, AtTells DEF Capabilities
    <2>4. Served' = Served \cup {n}
      BY <1>1, <2>1, AtTells DEF Served
    <2>5. Nulls' = Nulls
      BY <1>1, <2>1, AtTells DEF Nulls
    <2> QED
      BY <1>1, <1>2, <1>3, <2>1, <2>2, <2>3, <2>4, <2>5 DEF StatePlaces, SessionPlaces
  <1>6. CASE Leaves
    <2>1. ~Looping'
      BY <1>6 DEF Leaves, Looping
    <2>2. CASE Told' = Told
      <3>1. Capabilities' = Capabilities /\ Served' = Served /\ Nulls' = Nulls
        BY <2>2 DEF Capabilities, Served, Nulls
      <3> QED
        BY <1>3, <2>1, <3>1 DEF StatePlaces, SessionPlaces
    <2>3. CASE Untells
      <3> DEFINE last == Len(Told)
      <3>1. Longer(Told', Told)
        BY <2>3 DEF Untells, Longer
      <3>2. /\ Capabilities' = Capabilities \ {last}
            /\ Served' = Served \ {last}
            /\ Nulls' = Nulls \ {last}
        BY <1>1, <3>1, AtLonger DEF Capabilities, Served, Nulls
      <3>3. \A i \in Served' : i < last
        BY <1>1, <3>1 DEF Served, At, Longer
      <3> QED
        BY <1>1, <1>2, <1>3, <2>1, <3>2, <3>3 DEF StatePlaces, SessionPlaces
    <2> QED
      BY <1>6, <2>2, <2>3 DEF Leaves
  <1>7. CASE TellsNothing
    <2>1. Told' = Told /\ state' = state /\ (Looping' <=> Looping)
      BY <1>7 DEF TellsNothing
    <2>2. Capabilities' = Capabilities /\ Served' = Served /\ Nulls' = Nulls
      BY <2>1 DEF Capabilities, Served, Nulls
    <2> QED
      BY <1>3, <2>1, <2>2 DEF StatePlaces, SessionPlaces
  <1> QED
    BY <1>4, <1>5, <1>6, <1>7, StepCases

\* Exit code 0 needs the state that only the answer to a shutdown leads to.
LEMMA CleanStep == IInv /\ [Next]_vars => CleanExitWasShutdown'
  <1> SUFFICES ASSUME IInv, [Next]_vars PROVE CleanExitWasShutdown'
    OBVIOUS
  <1>1. CASE Leaves
    <2>1. verdict' = 0 => phase = "reading" /\ state = "ShuttingDown"
      BY <1>1 DEF Leaves, ExitCode
    <2>2. phase = "reading" => Told = sent
      BY DEF IInv, PhaseInv, TypeOK, Told
    <2>3. verdict' = 0 => Says("null") /\ Told = sent
      BY <2>1, <2>2 DEF IInv, StateInv, Looping
    <2> QED
      BY <1>1, <2>3 DEF Leaves, Says, CleanExitWasShutdown, ToSet
  <1>2. CASE verdict' = verdict /\ \A i \in DOMAIN sent : i \in DOMAIN sent' /\ sent'[i] = sent[i]
    BY <1>2 DEF IInv, CleanExitWasShutdown, ToSet
  <1>3. CASE TellsNothing
    BY <1>2, <1>3 DEF TellsNothing
  <1>4. CASE Publishes \/ \E id \in Id, answer \in Answer : Answers(id, answer)
    BY <1>2, <1>4 DEF Publishes, Answers
  <1> QED
    BY <1>1, <1>3, <1>4, StepCases

(***************************************************************************)
(* The theorems.                                                           *)
(***************************************************************************)

\* The invariant holds in every reachable state.
LEMMA Invariant == Spec => []IInv
  <1>1. IInv /\ [Next]_vars => IInv'
    BY TypeStep, PhaseStep, AnsweredStep, SessionStep, CleanStep DEF IInv
  <1> QED
    BY <1>1, InvInit, PTL DEF Spec

\* TypeCorrect: no behaviour takes a variable of the main loop out of its type;
\* no more tasks run than the pool has threads, and no more than one message
\* waits to be written.
THEOREM TypeCorrect == Spec => []TypeOK
  BY Invariant, PTL DEF IInv

\* AnswersFollowRequests: the client gets one answer to each message that calls
\* for one, in order, however many it sends, but for the last when the write of
\* it fails.
THEOREM AnswersFollowRequests == Spec => []AnsweredInOrder
  BY Invariant, PTL DEF IInv

\* CleanExits: exit code 0 is only for a client that was told of the shutdown.
THEOREM CleanExits == Spec => []CleanExitWasShutdown
  BY Invariant, PTL DEF IInv

\* SessionsAreClosed: nothing is served before the one answer to `initialize',
\* or after that to `shutdown'.
THEOREM SessionsAreClosed == Spec => []ServedInSessionOnly
  BY Invariant, PTL DEF IInv, SessionInv

\* TasksAreWaitedFor: the process does not end while a task runs.
THEOREM TasksAreWaitedFor == Spec => []EndsWithoutTasks
  BY Invariant, PTL DEF IInv, PhaseInv
=============================================================================
