-------------------------- MODULE RuntimeLifecycle --------------------------
(***************************************************************************)
(* What the runtime promises its client, whatever its modules do and       *)
(* whichever of their hooks fail.  One request is in hand at a time.  A    *)
(* context opens, closes or is withdrawn in one moment, and the answer     *)
(* that says so is ready in that moment; contexts that open and close are  *)
(* put on the news, in that order, and the client is told of them one      *)
(* after the other between two requests.  No context has the number of an  *)
(* earlier one, nor of one that failed to open.  The runtime ends well     *)
(* only when it has stopped.                                               *)
(***************************************************************************)
EXTENDS Naturals, Sequences

VARIABLES
    stage,      \* one of Stages
    installed,  \* the context that is open
    drawn,      \* the highest number that was given to a context
    request,    \* the request in hand
    answer,     \* what is about to be written
    news,       \* what the client has still to be told
    told        \* the contexts it was told of

lifeVars == <<stage, installed, drawn, request, answer, news, told>>

Stages == {"starting", "serving", "stopping", "stopped", "failed", "ended", "aborted"}

Nothing   == 0
NoRequest == "none"
NoAnswer  == [topic |-> "none", code |-> "none"]

Opened(c) == [name |-> "runtime.context_initialized", context |-> c]
Closed(c) == [name |-> "runtime.context_destroyed", context |-> c]
Notice(n) == [name |-> n, context |-> Nothing]

Say(e) == news' = Append(news, e)

AnswerWith(code) == answer' = [topic |-> request', code |-> code]

LifeInit ==
    /\ stage = "starting" /\ installed = Nothing /\ drawn = 0
    /\ request = NoRequest /\ answer = NoAnswer
    /\ news = <<>> /\ told = <<>>

Start ==
    /\ stage = "starting"
    /\ stage' = "serving"
    /\ Say(Notice("runtime.started"))
    /\ UNCHANGED <<installed, drawn, request, answer, told>>

-----------------------------------------------------------------------------
Take(topic) ==
    /\ stage \in {"serving", "stopped", "failed"} /\ request = NoRequest
    /\ request' = topic
    /\ UNCHANGED <<installed, drawn, told>>

\* An error before anything is done says why; a success of a request about
\* contexts is not among what can be answered at once.
AtOnce(topic) ==
    LET Always == {"HandshakeRequired", "Decode"}
    IN  CASE topic = "initialize_context" ->
               Always \cup (IF installed # Nothing THEN {"AlreadyInitialized"} ELSE {})
                      \cup (IF stage # "serving" THEN {"InvalidState"} ELSE {})
          [] topic = "destroy_context" ->
               Always \cup (IF installed = Nothing THEN {"NotInitialized"} ELSE {})
          [] topic = "shutdown" ->
               Always \cup (IF stage = "stopped" THEN {"ok"} ELSE {})
          [] OTHER -> Always \cup {"ok", "InvalidState", "Service"}

AnswerAtOnce ==
    \E topic \in {"handshake", "query", "command", "unsupported",
                  "initialize_context", "destroy_context", "shutdown"} :
        /\ Take(topic)
        /\ \E code \in AtOnce(topic) : AnswerWith(code)
        /\ UNCHANGED <<stage, news>>

TakeInitialize ==
    /\ Take("initialize_context") /\ stage = "serving" /\ installed = Nothing
    /\ UNCHANGED <<stage, answer, news>>

TakeDestroy ==
    /\ Take("destroy_context") /\ stage = "serving" /\ installed # Nothing
    /\ UNCHANGED <<stage, answer, news>>

\* Asked to, or because the client has gone.
TakeShutdown ==
    /\ \E topic \in {"shutdown", "disconnect"} : Take(topic)
    /\ stage \in {"serving", "failed"} /\ stage' = "stopping"
    /\ UNCHANGED <<answer, news>>

InHand(topic) == request = topic /\ answer = NoAnswer /\ UNCHANGED <<request, told>>

Open ==
    /\ InHand("initialize_context") /\ stage = "serving" /\ installed = Nothing
    /\ installed' > drawn /\ drawn' = installed'
    /\ Say(Opened(installed')) /\ AnswerWith("ok")
    /\ UNCHANGED stage

\* The number is used up.
OpenFails ==
    /\ InHand("initialize_context") /\ stage = "serving" /\ installed = Nothing
    /\ drawn' > drawn
    /\ AnswerWith("Module")
    /\ UNCHANGED <<stage, installed, news>>

Close ==
    /\ InHand("destroy_context") /\ stage = "serving" /\ installed # Nothing
    /\ installed' = Nothing
    /\ Say(Closed(installed)) /\ AnswerWith("ok")
    /\ UNCHANGED <<stage, drawn>>

CloseFails ==
    /\ InHand("destroy_context") /\ stage = "serving" /\ installed # Nothing
    /\ AnswerWith("Module")
    /\ UNCHANGED <<stage, installed, drawn, news>>

\* A shutdown takes the context away without a word.
Withdraw ==
    /\ stage = "stopping"
    /\ installed' = Nothing
    /\ UNCHANGED <<stage, drawn, request, answer, news, told>>

Stop ==
    /\ stage = "stopping" /\ installed = Nothing
    /\ \/ InHand("shutdown") /\ stage' = "stopped" /\ AnswerWith("ok")
       \/ InHand("disconnect") /\ stage' = "ended" /\ UNCHANGED answer
    /\ Say(Notice("runtime.stopped"))
    /\ UNCHANGED <<installed, drawn>>

StopFails ==
    /\ stage = "stopping" /\ installed = Nothing
    /\ \/ InHand("shutdown") /\ stage' = "failed" /\ AnswerWith("Module")
       \/ InHand("disconnect") /\ stage' = "aborted" /\ UNCHANGED answer
    /\ UNCHANGED <<installed, drawn, news>>

-----------------------------------------------------------------------------
\* A successful answer to a shutdown is the last thing that is written.
WriteAnswer ==
    /\ answer # NoAnswer /\ stage \in {"serving", "stopped", "failed"}
    /\ answer' = NoAnswer /\ request' = NoRequest
    /\ IF answer = [topic |-> "shutdown", code |-> "ok"]
       THEN stage = "stopped" /\ stage' = "ended"
       ELSE UNCHANGED stage
    /\ UNCHANGED <<installed, drawn, news, told>>

TellNews ==
    /\ stage \in {"serving", "stopped", "failed"} /\ request = NoRequest
    /\ news # <<>> /\ news' = Tail(news)
    /\ told' = IF Head(news).context = Nothing THEN told ELSE Append(told, Head(news))
    /\ UNCHANGED <<stage, installed, drawn, request, answer>>

\* What the services have to say does not concern contexts.
ServiceNews ==
    /\ stage \notin {"ended", "aborted"}
    /\ Say(Notice("service"))
    /\ UNCHANGED <<stage, installed, drawn, request, answer, told>>

\* The client goes when the runtime has stopped already.
LeaveStopped ==
    /\ Take("disconnect") /\ stage = "stopped" /\ stage' = "ended"
    /\ UNCHANGED <<answer, news>>

\* The start failed, or the client cannot be read from or written to: never in
\* the middle of a request.
Abort ==
    /\ stage \notin {"ended", "aborted"}
    /\ request = NoRequest \/ answer # NoAnswer
    /\ stage' = "aborted"
    /\ news' = news \/ (news # <<>> /\ news' = Tail(news))
    /\ UNCHANGED <<installed, drawn, request, answer, told>>

LifeNext ==
    \/ Start \/ AnswerAtOnce
    \/ TakeInitialize \/ TakeDestroy \/ TakeShutdown
    \/ Open \/ OpenFails \/ Close \/ CloseFails \/ Withdraw \/ Stop \/ StopFails
    \/ WriteAnswer \/ TellNews \/ ServiceNews \/ LeaveStopped \/ Abort

LifeSpec == LifeInit /\ [][LifeNext]_lifeVars
=============================================================================
