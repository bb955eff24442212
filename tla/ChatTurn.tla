------------------------------ MODULE ChatTurn -------------------------------
(***************************************************************************)
(* Chat turns from the question to what the reader is shown: the run of    *)
(* the browser, the handler of the Go API, and the thread of the agent.    *)
(* Two event streams connect them, up from the agent to the API and down   *)
(* from the API to the browser.  Connections break, readers leave, agents  *)
(* hang, and every process goes on with what it last saw.                  *)
(*                                                                         *)
(* Abstractions.  An event is its type.  A write to a stream whose reader  *)
(* left is lost or fails; the event of a cancelled request only ever goes  *)
(* there, so it is left out.  Executions of evaluation runs take no step   *)
(* here: they share nothing with a turn but the attributes of the          *)
(* retrievers, which no property of this module reads (GroundedChat).      *)
(***************************************************************************)
EXTENDS GroundedChat

VARIABLES
    browser,  \* [Turns -> Browser]: the runs of useNorviiChatRuntime
    down,     \* [Turns -> Stream]: the API to the browser
    gateway,  \* [Turns -> Gateway]: the handlers of the API
    up        \* [Turns -> Stream]: the agent to the API

vars == <<agentVars, browser, down, gateway, up>>

-----------------------------------------------------------------------------
(* Types.                                                                  *)

Terminal == {"completed", "abstained", "error"}

\* sent: what was written; the reader has read the first read events of it.
Stream == [link : {"none", "open", "ended", "cut"}, sent : Events, read : 0 .. 4]

Browser == [pc : {"idle", "waiting", "done"},
            shown : {"nothing", "answer", "abstained", "error", "aborted"}]

\* terminal: a completed event was read.  out: events left to write.
Gateway == [pc : {"idle", "resolving", "asking", "writing", "done"},
            terminal : BOOLEAN, deltas : 0 .. 1, out : Events]

NoStream == [link |-> "none", sent |-> <<>>, read |-> 0]

Init == /\ browser = [t \in Turns |-> [pc |-> "idle", shown |-> "nothing"]]
        /\ down = [t \in Turns |-> NoStream]
        /\ gateway = [t \in Turns |->
              [pc |-> "idle", terminal |-> FALSE, deltas |-> 0, out |-> <<>>]]
        /\ up = [t \in Turns |-> NoStream]
        /\ AgentInit

-----------------------------------------------------------------------------
(* Streams.                                                                *)

Unread(stream) == stream.read < Len(stream.sent)

NextEvent(stream) == stream.sent[stream.read + 1]

Reads(stream) == [stream EXCEPT !.read = @ + 1]

Writes(stream, event) ==
    IF stream.link = "open" THEN [stream EXCEPT !.sent = Append(@, event)] ELSE stream

\* The connection breaks, or its reader leaves.  Events may be lost with it.
Broken(stream) == IF stream.link = "open" THEN [stream EXCEPT !.link = "cut"] ELSE stream

Ended(stream) == IF stream.link = "open" THEN [stream EXCEPT !.link = "ended"] ELSE stream

\* A crash of the agent ends its stream, which is delimited by its connection.
Cut(t) == /\ \/ down' = [down EXCEPT ![t] = Broken(@)] /\ up' = up
             \/ up' = [up EXCEPT ![t] = Broken(@)] /\ down' = down
             \/ up' = [up EXCEPT ![t] = Ended(@)] /\ down' = down
          /\ UNCHANGED <<browser, gateway, agent, shared>>

-----------------------------------------------------------------------------
(* The browser.                                                            *)

Submit(t) == /\ browser[t].pc = "idle"
             /\ browser' = [browser EXCEPT ![t].pc = "waiting"]
             /\ down' = [down EXCEPT ![t].link = "open"]
             /\ UNCHANGED <<gateway, up, agent, shared>>

Shows(t, what) == browser' = [browser EXCEPT ![t] = [@ EXCEPT !.pc = "done", !.shown = what]]

\* An event of the stream.
Receive(t) ==
    LET event == NextEvent(down[t])
    IN /\ browser[t].pc = "waiting"
       /\ Unread(down[t])
       /\ CASE event = "completed" -> Shows(t, "answer")
            [] event = "abstained" -> Shows(t, "abstained")
            [] event = "error"     -> Shows(t, "error")
            [] OTHER               -> browser' = browser
       /\ down' = [down EXCEPT ![t] = Reads(@)]
       /\ UNCHANGED <<gateway, up, agent, shared>>

\* The stream ended or broke before a terminal event, or was refused.
Fallback(t) == /\ browser[t].pc = "waiting"
               /\ \/ down[t].link = "ended" /\ ~ Unread(down[t])
                  \/ down[t].link = "cut"
               /\ Shows(t, "error")
               /\ UNCHANGED <<down, gateway, up, agent, shared>>

\* The reader cancels the run or starts a new chat.
Abort(t) == /\ browser[t].pc = "waiting"
            /\ Shows(t, "aborted")
            /\ down' = [down EXCEPT ![t] = Broken(@)]
            /\ UNCHANGED <<gateway, up, agent, shared>>

-----------------------------------------------------------------------------
(* The API: stream, Service.Ask and Client.Ask.                            *)

\* An invalid request gets a problem document instead of a stream.
Refuse(t) == /\ gateway[t].pc = "idle"
             /\ down[t].link = "open"
             /\ gateway' = [gateway EXCEPT ![t].pc = "done"]
             /\ down' = [down EXCEPT ![t] = Broken(@)]
             /\ UNCHANGED <<browser, up, agent, shared>>

Accept(t) == /\ gateway[t].pc = "idle"
             /\ down[t].link = "open"
             /\ gateway' = [gateway EXCEPT ![t].pc = "resolving"]
             /\ down' = [down EXCEPT ![t] = Writes(@, "started")]
             /\ UNCHANGED <<browser, up, agent, shared>>

\* Ask returned: what is left to write, and nobody reads the agent any more.
Answers(t, out) ==
    /\ gateway' = [gateway EXCEPT ![t] = [@ EXCEPT !.pc = "writing", !.out = out]]
    /\ up' = [up EXCEPT ![t] = Broken(@)]

\* There is no active release, or no agent.
FailsToAsk(t) == /\ gateway[t].pc = "resolving"
                 /\ Answers(t, <<"error">>)
                 /\ UNCHANGED <<browser, down, agent, shared>>

AsksAgent(t) == /\ gateway[t].pc = "resolving"
                /\ gateway' = [gateway EXCEPT ![t].pc = "asking"]
                /\ up' = [up EXCEPT ![t] = [link |-> "open", sent |-> <<"started">>, read |-> 0]]
                /\ Begin(t)
                /\ UNCHANGED <<browser, down, shared>>

\* Events of the agent for which handleEvent returns an error.
Failures == {"abstained", "error"}

handleEvent(t) ==
    LET event == NextEvent(up[t])
    IN /\ gateway[t].pc = "asking"
       /\ Unread(up[t])
       /\ IF event \in Failures THEN Answers(t, <<event>>)
          ELSE /\ gateway' = [gateway EXCEPT ![t] =
                     CASE event = "delta" -> [@ EXCEPT !.deltas = gateway[t].deltas + 1]
                       [] event \in Terminal -> [@ EXCEPT !.terminal = TRUE]
                       [] OTHER -> @]
               /\ up' = [up EXCEPT ![t] = Reads(@)]
       /\ UNCHANGED <<browser, down, agent, shared>>

\* What was received, in the order of the contract.
Relayed(t) == <<"evidence">> \o [i \in 1 .. gateway[t].deltas |-> "delta"] \o <<"completed">>

\* What the handler writes at the end of the agent's stream.
Relay(t) == IF gateway[t].terminal THEN Relayed(t) ELSE <<"error">>

EndOfStream(t) == /\ gateway[t].pc = "asking"
                  /\ up[t].link = "ended"
                  /\ ~ Unread(up[t])
                  /\ Answers(t, Relay(t))
                  /\ UNCHANGED <<browser, down, agent, shared>>

\* The stream breaks, whatever was read of it.
StreamError(t) == /\ gateway[t].pc = "asking"
                  /\ up[t].link = "cut"
                  /\ Answers(t, <<"error">>)
                  /\ UNCHANGED <<browser, down, agent, shared>>

\* Mutant: the client has no timeout.
NoTimeout(t) == FALSE

TimeoutMayPass(t) == TRUE

Timeout(t) == /\ gateway[t].pc = "asking"
              /\ TimeoutMayPass(t)
              /\ Answers(t, <<"error">>)
              /\ UNCHANGED <<browser, down, agent, shared>>

\* The browser has gone, which cancels the context of the request.
Cancelled(t) == /\ gateway[t].pc \in {"resolving", "asking"}
                /\ down[t].link = "cut"
                /\ gateway' = [gateway EXCEPT ![t].pc = "done"]
                /\ up' = [up EXCEPT ![t] = Broken(@)]
                /\ UNCHANGED <<browser, down, agent, shared>>

\* Mutant: the handler goes on after a terminal event.
AfterAll(out) == Append(Tail(out), Head(out))

AfterWrite(out) == Tail(out)

WriteEvent(t) ==
    LET w == gateway[t]
    IN /\ w.pc = "writing"
       /\ w.out # <<>>
       /\ down' = [down EXCEPT ![t] = Writes(@, Head(w.out))]
       /\ gateway' = [gateway EXCEPT ![t].out = AfterWrite(@)]
       /\ UNCHANGED <<browser, up, agent, shared>>

\* All is written, or a write failed.
Return(t) == /\ gateway[t].pc = "writing"
             /\ gateway[t].out = <<>> \/ down[t].link = "cut"
             /\ gateway' = [gateway EXCEPT ![t].pc = "done"]
             /\ down' = [down EXCEPT ![t] = Ended(@)]
             /\ UNCHANGED <<browser, up, agent, shared>>

-----------------------------------------------------------------------------
(* The agent: _stream_graph.                                               *)

AgentWrites(t) ==
    /\ agent[t].pc = "writing"
    /\ agent[t].out # <<>>
    /\ up' = [up EXCEPT ![t] = Writes(@, Head(agent[t].out))]
    /\ agent' = [agent EXCEPT ![t].out = Tail(@)]
    /\ UNCHANGED <<browser, down, gateway, shared>>

\* All is written, or ClientDisconnectedError.
AgentEnds(t) == /\ agent[t].pc = "writing"
                /\ agent[t].out = <<>> \/ up[t].link = "cut"
                /\ agent' = [agent EXCEPT ![t].pc = "done"]
                /\ up' = [up EXCEPT ![t] = Ended(@)]
                /\ UNCHANGED <<browser, down, gateway, shared>>

-----------------------------------------------------------------------------

BrowserNext(t) == Receive(t) \/ Fallback(t)

GatewayNext(t) ==
    \/ Refuse(t) \/ Accept(t) \/ FailsToAsk(t) \/ AsksAgent(t)
    \/ handleEvent(t) \/ EndOfStream(t) \/ StreamError(t) \/ Timeout(t)
    \/ Cancelled(t) \/ WriteEvent(t) \/ Return(t)

StreamNext(t) == \/ Run(t) /\ UNCHANGED <<browser, down, gateway, up>>
                 \/ AgentWrites(t)
                 \/ AgentEnds(t)

Next == \E t \in Turns : \/ Submit(t) \/ Abort(t) \/ Cut(t)
                         \/ BrowserNext(t) \/ GatewayNext(t) \/ StreamNext(t)

Spec == Init /\ [][Next]_vars

\* Browser and API proceed, and the timeout of the client passes.  Nothing is
\* assumed of the agent: a provider may keep it waiting for ever.
Fairness == \A t \in Turns : /\ WF_vars(BrowserNext(t))
                             /\ WF_vars(GatewayNext(t))
                             /\ WF_vars(Timeout(t))

FairSpec == Spec /\ Fairness

-----------------------------------------------------------------------------
(* Properties.                                                             *)

\* Processes and streams have the values of their variables.
TypeOK == /\ browser \in [Turns -> Browser]
          /\ down \in [Turns -> Stream]
          /\ gateway \in [Turns -> Gateway]
          /\ up \in [Turns -> Stream]
          /\ AgentTypeOK

\* Nothing of an answer reaches the browser, evidence, text or end, unless the
\* agent validated it, although the agent streams the text of answers that it
\* rejects; and a failure is not shown as an abstention.
ShownIsValidated ==
    \A t \in Turns :
        /\ \A i \in DOMAIN down[t].sent :
              down[t].sent[i] \in {"evidence", "delta", "completed"}
                 => /\ agent[t].status = "completed"
                    /\ agent[t].answer \in {"grounded", "scope limited"}
        /\ browser[t].shown = "abstained" => agent[t].status = "abstained"

\* The stream the browser reads keeps the order of the contract's events and
\* has one end, wherever the agent, its stream, the timeout or the reader
\* break in.
LastOf(events) == IF events = <<>> THEN "none" ELSE events[Len(events)]

Protocol == INSTANCE ChatProtocol WITH Turns <- Turns,
                                       last  <- [t \in Turns |-> LastOf(down[t].sent)]

ImplementsProtocol == Protocol!Spec

\* Every question gets an end on the screen, even when the agent never answers.
TurnsEnd == \A t \in Turns : browser[t].pc = "waiting" ~> browser[t].pc = "done"
=============================================================================
