----------------------------- MODULE MainLoop -----------------------------
(***************************************************************************)
(* The main thread of src/main.rs: read a message (src/transport.rs),      *)
(* parse it (src/jsonrpc.rs), have the server handle it, write what it     *)
(* answers, and end the process; with the pool of blocking threads that    *)
(* the end of the process waits for.                                       *)
(*                                                                         *)
(* The n-th message heard has the number n, which stands for a request's   *)
(* id; NoId is the null id. What is written is [id, answer], and           *)
(* [id |-> NoId, answer |-> "diagnostics"] for a notification.             *)
(***************************************************************************)
EXTENDS Handshake, Integers, SequencesExt

CONSTANTS
    MaxMessages,    \* bound on the messages heard
    MaxThreads      \* threads of the blocking pool

ASSUME MainLoopAssumption == MaxMessages \in Nat /\ MaxThreads \in Nat \ {0}

NoId == 0
Method == {"initialize", "shutdown", "query", "other"}

VARIABLES
    phase,      \* what the main thread does
    heard,      \* the number of messages heard
    outbox,     \* what it has to write before it reads again
    verdict,    \* the exit code it returns, or -1 while it goes on
    sent,       \* what the client received
    asked,      \* history: the ids of the messages that call for an answer
    queued, running     \* the tasks of the blocking pool

vars == <<state, phase, heard, outbox, verdict, sent, asked, queued, running>>

Id == 0..MaxMessages
Answer == {"capabilities", "null", "result", "SERVER_NOT_INITIALIZED",
           "INVALID_REQUEST", "METHOD_NOT_FOUND", "INVALID_PARAMS", "PARSE_ERROR"}
Message == [id : Id, answer : Answer \cup {"diagnostics"}]
Diagnostics == [id |-> NoId, answer |-> "diagnostics"]

TypeOK ==
    /\ state \in State
    /\ phase \in {"reading", "writing", "draining", "ended"}
    /\ heard \in 0..MaxMessages
    /\ outbox \in BoundedSeq(Message, 1)
    /\ verdict \in {-1, 0, 1}
    /\ sent \in Seq(Message)
    /\ asked \in Seq(Id)
    /\ queued \in Nat
    /\ running \in 0..MaxThreads

Init ==
    /\ HandshakeInit
    /\ phase = "reading"
    /\ heard = 0
    /\ outbox = <<>>
    /\ verdict = -1
    /\ sent = <<>>
    /\ asked = <<>>
    /\ queued = 0
    /\ running = 0

---------------------------------------------------------------------------
(* One turn of the loop.                                                   *)

Hear ==
    /\ phase = "reading"
    /\ heard < MaxMessages
    /\ heard' = heard + 1

Respond(id, answer) ==
    /\ asked' = Append(asked, id)
    /\ outbox' = <<[id |-> id, answer |-> answer]>>
    /\ phase' = "writing"
    /\ UNCHANGED <<verdict, sent, queued, running>>

\* The server answers the queries of a session itself; all else, and queries
\* outside a session, is the handshake's to answer.
HearRequest(m) ==
    /\ Hear
    /\ IF m = "query" /\ IsInitialized
       THEN /\ \E answer \in {"result", "INVALID_PARAMS"} : Respond(heard', answer)
            /\ UNCHANGED state
       ELSE Respond(heard', Reply(m)) /\ HandleRequest(m)

\* Not JSON, or JSON that is neither a request nor a notification; of the
\* latter the id is still used, if it has one.
HearUnparsable ==
    /\ Hear
    /\ \/ Respond(NoId, "PARSE_ERROR")
       \/ \E id \in {NoId, heard'} : Respond(id, "INVALID_REQUEST")
    /\ UNCHANGED state

\* A handler publishes at most one set of diagnostics and spawns n tasks.
Handled(messages, n) ==
    /\ outbox' = messages
    /\ phase' = IF messages = <<>> THEN "reading" ELSE "writing"
    /\ queued' = queued + n
    /\ UNCHANGED <<state, verdict, sent, asked, running>>

\* Mutant: a file that is compiled, too, has its diagnostics published twice.
HearDocumentTwice ==
    /\ Hear
    /\ IsInitialized
    /\ \E n \in 0..2 :
          Handled(IF n = 2 THEN <<Diagnostics, Diagnostics>> ELSE <<Diagnostics>>, n)

\* didOpen spawns a reindex and perhaps a Lombok compile, didChange a reindex
\* if the document is open, didClose nothing; all three publish.
HearDocument ==
    /\ Hear
    /\ IsInitialized
    /\ \E n \in 0..2 : Handled(<<Diagnostics>>, n)

\* didSave spawns a compile or nothing, `initialized' a scan and a build or
\* nothing; a notification that is malformed, unknown or out of session does
\* nothing at all.
HearSilent ==
    /\ Hear
    /\ \E n \in IF IsInitialized THEN 0..2 ELSE {0} : Handled(<<>>, n)

HearExit ==
    /\ Hear
    /\ verdict' = ExitCode
    /\ phase' = "draining"
    /\ queued' = 0
    /\ UNCHANGED <<state, outbox, sent, asked, running>>

\* The end of the input, clean or not, a header that frames no message, or a
\* read that fails.
HearEnd ==
    /\ phase = "reading"
    /\ verdict' = 1
    /\ phase' = "draining"
    /\ queued' = 0
    /\ UNCHANGED <<state, heard, outbox, sent, asked, running>>

Write ==
    /\ phase = "writing"
    /\ sent' = sent \o outbox
    /\ outbox' = <<>>
    /\ phase' = "reading"
    /\ UNCHANGED <<state, heard, verdict, asked, queued, running>>

\* Mutant: the error of a write is ignored.
WriteFailsUnnoticed ==
    /\ phase = "writing"
    /\ outbox' = <<>>
    /\ phase' = "reading"
    /\ UNCHANGED <<state, heard, verdict, sent, asked, queued, running>>

WriteFails ==
    /\ phase = "writing"
    /\ outbox' = <<>>
    /\ verdict' = 1
    /\ phase' = "draining"
    /\ queued' = 0
    /\ UNCHANGED <<state, heard, sent, asked, running>>

\* Mutant: the process exits at once.
EndAtOnce ==
    /\ phase = "draining"
    /\ phase' = "ended"
    /\ UNCHANGED <<state, heard, outbox, verdict, sent, asked, queued, running>>

\* Returning from the loop drops the runtime: it forgets the tasks no thread
\* has taken yet and waits for those that run.
End ==
    /\ phase = "draining"
    /\ running = 0
    /\ phase' = "ended"
    /\ UNCHANGED <<state, heard, outbox, verdict, sent, asked, queued, running>>

StartTask ==
    /\ queued > 0
    /\ running < MaxThreads
    /\ queued' = queued - 1
    /\ running' = running + 1
    /\ UNCHANGED <<state, phase, heard, outbox, verdict, sent, asked>>

FinishTask ==
    /\ running > 0
    /\ running' = running - 1
    /\ UNCHANGED <<state, phase, heard, outbox, verdict, sent, asked, queued>>

Client ==
    \/ \E m \in Method : HearRequest(m)
    \/ HearUnparsable
    \/ HearDocument
    \/ HearSilent
    \/ HearExit
    \/ HearEnd

Next == Client \/ Write \/ WriteFails \/ End \/ StartTask \/ FinishTask

Spec == Init /\ [][Next]_vars

\* The thread does not stop between two steps of its own, and what a pool
\* thread runs ends: javac, the build tool and jimage are run to completion.
Fairness == WF_vars(Write \/ WriteFails) /\ WF_vars(End) /\ WF_vars(FinishTask)

FairSpec == Spec /\ Fairness

---------------------------------------------------------------------------
(* Properties.                                                             *)

\* What the client was told, or is being told.
Told == sent \o outbox

\* The places of these answers among the messages, and how many of the first i
\* messages answer something.
At(answers, messages) == {i \in DOMAIN messages : messages[i].answer \in answers}
Given(messages, i) == Cardinality({j \in At(Answer, messages) : j <= i})

\* Every message that calls for an answer gets one, in the order they were
\* heard, before the next is heard: only a failed write loses one, the last,
\* and ends the process. (run_server)
AnsweredInOrder ==
    /\ \A i \in At(Answer, Told) : Told[i].id = asked[Given(Told, i)]
    /\ \/ Given(Told, Len(Told)) = Len(asked)
       \/ phase \in {"draining", "ended"} /\ Given(Told, Len(Told)) = Len(asked) - 1

\* Exit code 0 is for clients that were told that the server shuts down.
\* (handle_notification, run_server)
CleanExitWasShutdown == verdict = 0 => \E m \in ToSet(sent) : m.answer = "null"

\* Nothing of the workspace is ever told a client outside a session, between
\* the answers to its initialize and its shutdown; each is given once.
\* (Server::handle_request, handle_notification)
ServedInSessionOnly ==
    \A i \in At({"result", "INVALID_PARAMS", "diagnostics", "null"}, Told) :
        /\ \E j \in At({"capabilities"}, Told) : j < i
        /\ \A j \in At({"capabilities"}, Told) : At({"capabilities"}, Told) = {j}
        /\ \A j \in At({"null"}, Told) : i <= j

\* The process ends once the loop is left, but never while a task runs, which
\* would cut off what it writes: stubs or classes. (the drop of the runtime)
LoopLeftProcessEnds ==
    /\ phase = "draining" ~> phase = "ended"
    /\ [](phase = "ended" => running = 0)
===========================================================================
