---------------------------- MODULE ChatTurnProofs ----------------------------
(***************************************************************************)
(* Proofs about ChatTurn.  What the browser is shown is traced back to the *)
(* agent's validation through both streams: each event under way is one    *)
(* that the thread of the agent stands for (Sound), and what the API       *)
(* writes of an answer is written only for a validated one (Vouched).      *)
(***************************************************************************)
EXTENDS ChatTurn, SequenceTheorems, TLAPS

-----------------------------------------------------------------------------
(* The invariant, for the records of one turn: agent, up, gateway, down,   *)
(* browser.                                                                *)

Ready(a) == a.status = "completed" /\ a.answer \in {"grounded", "scope limited"}

\* The thread has the status that an event of its stream reports.
Sound(a, event) == /\ event = "completed" => Ready(a)
                   /\ event = "abstained" => a.status = "abstained"

\* Nothing of an answer is told unless the answer is validated.
Vouched(a, event) == /\ Sound(a, event)
                     /\ event \in {"evidence", "delta"} => Ready(a)

\* What the agent wrote and will write.  The text of an answer is its third
\* event, so it is relayed once.
Upstream(a, u) ==
    /\ \A i \in DOMAIN u.sent : Sound(a, u.sent[i]) /\ (u.sent[i] = "delta" => i = 3)
    /\ \A i \in DOMAIN a.out : Sound(a, a.out[i])
    /\ a.pc \notin {"writing", "done"} => a.status = None /\ a.out = <<>>
    /\ a.pc = "idle" => u = NoStream
    /\ a.pc \in Work => Len(u.sent) = 1
    /\ u.link = "open" => /\ Len(u.sent) + Len(a.out) <= 4
                          /\ \A i \in DOMAIN a.out :
                                a.out[i] = "delta" => i + Len(u.sent) = 3
    /\ u.read <= Len(u.sent)

\* What the API made of the events it read.
Relaying(a, u, g) ==
    /\ g.terminal => Ready(a)
    /\ g.deltas = 1 => u.read >= 3
    /\ g.pc \in {"idle", "resolving"} => g.deltas = 0
    /\ g.pc \in {"idle", "resolving", "asking"} => g.out = <<>>
    /\ \A i \in DOMAIN g.out :
          /\ Vouched(a, g.out[i])
          /\ i + 1 \in DOMAIN g.out => g.out[i + 1] \in Protocol!After(g.out[i])

\* What the API wrote and will write, and what the browser read of it.
Downstream(a, g, d, b) ==
    /\ \A i \in DOMAIN d.sent : Vouched(a, d.sent[i])
    /\ b.pc = "idle" => d.link = "none" /\ g.pc = "idle"
    /\ g.pc = "idle" => d.sent = <<>>
    /\ g.pc \in {"resolving", "asking"} => d.sent = <<"started">>
    /\ d.link = "open" =>
          /\ Len(d.sent) + Len(g.out) <= 4
          /\ g.out # <<>> => g.out[1] \in Protocol!After(LastOf(d.sent))
    /\ d.read <= Len(d.sent)
    /\ b.shown = "abstained" => a.status = "abstained"

Consistent(a, u, g, d, b) == Upstream(a, u) /\ Relaying(a, u, g) /\ Downstream(a, g, d, b)

TurnsAreConsistent ==
    \A t \in Turns : Consistent(agent[t], up[t], gateway[t], down[t], browser[t])

IInv == TypeOK /\ TurnsAreConsistent

-----------------------------------------------------------------------------
(* Sequences of events.                                                    *)

\* Short sequences of events are sequences.
LEMMA EventsAreSequences ==
    \A s : s \in Events <=> s \in Seq(Event) /\ Len(s) <= 4
<1>1. ASSUME NEW s \in Events
      PROVE  s \in Seq(Event) /\ Len(s) <= 4
  <2>1. PICK n \in 0 .. 4 : s \in [1 .. n -> Event]
    BY DEF Events
  <2>2. s \in Seq(Event)
    BY <2>1, SeqDef
  <2>3. Len(s) \in Nat /\ DOMAIN s = 1 .. Len(s)
    BY <2>2, LenProperties
  <2> QED
    BY <2>1, <2>2, <2>3
<1>2. ASSUME NEW s \in Seq(Event), Len(s) <= 4
      PROVE  s \in Events
  <2>1. Len(s) \in Nat /\ s \in [1 .. Len(s) -> Event]
    BY LenProperties
  <2>2. Len(s) \in 0 .. 4
    BY <1>2, <2>1
  <2> QED
    BY <2>1, <2>2 DEF Events
<1> QED
  BY <1>1, <1>2

LEMMA EventsOf ==
    ASSUME NEW s \in Events
    PROVE  /\ s \in Seq(Event)
           /\ Len(s) \in 0 .. 4
           /\ DOMAIN s = 1 .. Len(s)
           /\ \A i \in DOMAIN s : s[i] \in Event
           /\ s # <<>> <=> Len(s) > 0
<1>1. s \in Seq(Event) /\ Len(s) <= 4
  BY EventsAreSequences
<1>2. Len(s) \in Nat /\ DOMAIN s = 1 .. Len(s) /\ s \in [1 .. Len(s) -> Event]
  BY <1>1, LenProperties
<1>3. s # <<>> <=> Len(s) > 0
  BY <1>1, <1>2, EmptySeq
<1> QED
  BY <1>1, <1>2, <1>3

\* An event is written to a stream.
LEMMA Written ==
    ASSUME NEW s \in Events, NEW event \in Event, Len(s) < 4
    PROVE  /\ Append(s, event) \in Events
           /\ Len(Append(s, event)) = Len(s) + 1
           /\ DOMAIN Append(s, event) = 1 .. Len(s) + 1
           /\ \A i \in DOMAIN s : Append(s, event)[i] = s[i]
           /\ Append(s, event)[Len(s) + 1] = event
           /\ LastOf(Append(s, event)) = event
<1>1. s \in Seq(Event) /\ Len(s) \in 0 .. 4 /\ DOMAIN s = 1 .. Len(s)
  BY EventsOf
<1>2. /\ Append(s, event) \in Seq(Event)
      /\ Append(s, event) # <<>>
      /\ Len(Append(s, event)) = Len(s) + 1
      /\ \A i \in 1 .. Len(s) : Append(s, event)[i] = s[i]
      /\ Append(s, event)[Len(s) + 1] = event
  BY <1>1, AppendProperties
<1>3. Append(s, event) \in Events
  <2>1. Append(s, event) \in Seq(Event) /\ Len(Append(s, event)) <= 4
    BY <1>1, <1>2
  <2> QED
    BY <2>1, EventsAreSequences
<1>4. DOMAIN Append(s, event) = 1 .. Len(s) + 1
  BY <1>2, <1>3, EventsOf
<1> QED
  BY <1>1, <1>2, <1>3, <1>4 DEF LastOf

\* The rest of what is left to write.
LEMMA Rest ==
    ASSUME NEW s \in Events, s # <<>>
    PROVE  /\ Head(s) = s[1]
           /\ 1 \in DOMAIN s
           /\ Tail(s) \in Events
           /\ Len(Tail(s)) = Len(s) - 1
           /\ DOMAIN Tail(s) = 1 .. Len(s) - 1
           /\ \A i \in DOMAIN Tail(s) : i + 1 \in DOMAIN s /\ Tail(s)[i] = s[i + 1]
<1>1. s \in Seq(Event) /\ Len(s) \in 1 .. 4 /\ DOMAIN s = 1 .. Len(s)
  BY EventsOf
<1>2. /\ Tail(s) \in Seq(Event)
      /\ Len(Tail(s)) = Len(s) - 1
      /\ \A i \in 1 .. Len(Tail(s)) : Tail(s)[i] = s[i + 1]
  BY <1>1, HeadTailProperties
<1>3. Tail(s) \in Events
  <2>1. Tail(s) \in Seq(Event) /\ Len(Tail(s)) <= 4
    BY <1>1, <1>2
  <2> QED
    BY <2>1, EventsAreSequences
<1>4. DOMAIN Tail(s) = 1 .. Len(s) - 1
  BY <1>2, <1>3, EventsOf
<1>5. Head(s) = s[1]
  BY <1>1
<1> QED
  BY <1>1, <1>2, <1>3, <1>4, <1>5

-----------------------------------------------------------------------------
(* A step of one turn leaves the others alone.                             *)

\* The records of turn t become a, u, g, d and b.
Becomes(t, a, u, g, d, b) ==
    /\ agent'   = [agent EXCEPT ![t] = a]
    /\ up'      = [up EXCEPT ![t] = u]
    /\ gateway' = [gateway EXCEPT ![t] = g]
    /\ down'    = [down EXCEPT ![t] = d]
    /\ browser' = [browser EXCEPT ![t] = b]
    /\ shared' \in [Cells -> Threads \cup {None}]

LEMMA OneTurn ==
    ASSUME IInv, NEW t \in Turns,
           NEW a \in Agent, NEW u \in Stream, NEW g \in Gateway, NEW d \in Stream,
           NEW b \in Browser,
           Becomes(t, a, u, g, d, b),
           Consistent(a, u, g, d, b)
    PROVE  IInv'
<1>1. TypeOK'
  BY DEF IInv, TypeOK, AgentTypeOK, Becomes, Threads
<1>2. ASSUME NEW x \in Turns
      PROVE  Consistent(agent'[x], up'[x], gateway'[x], down'[x], browser'[x])
  BY DEF IInv, TypeOK, AgentTypeOK, TurnsAreConsistent, Becomes, Threads
<1> QED
  BY <1>1, <1>2 DEF IInv, TurnsAreConsistent

\* What is known of the records of a turn.
LEMMA Records ==
    ASSUME IInv, NEW t \in Turns
    PROVE  /\ agent[t] \in Agent /\ up[t] \in Stream /\ gateway[t] \in Gateway
           /\ down[t] \in Stream /\ browser[t] \in Browser
           /\ agent \in [Threads -> Agent] /\ up \in [Turns -> Stream]
           /\ gateway \in [Turns -> Gateway] /\ down \in [Turns -> Stream]
           /\ browser \in [Turns -> Browser]
           /\ shared \in [Cells -> Threads \cup {None}]
           /\ Upstream(agent[t], up[t])
           /\ Relaying(agent[t], up[t], gateway[t])
           /\ Downstream(agent[t], gateway[t], down[t], browser[t])
  BY DEF IInv, TypeOK, AgentTypeOK, TurnsAreConsistent, Consistent, Threads

-----------------------------------------------------------------------------
(* The agent.                                                              *)

\* While a thread has no status, no event but the first and errors depend on
\* it: it may take any.
LEMMA Unspoken ==
    ASSUME NEW a, NEW b, a.status = None
    PROVE  /\ ~ Ready(a)
           /\ \A event : Sound(a, event) => Sound(b, event)
           /\ \A event : Vouched(a, event) => Vouched(b, event)
  BY NullAssumption DEF Ready, Sound, Vouched

LEMMA AgentMoves ==
    ASSUME IInv, NEW t \in Turns, NEW a \in Agent,
           agent[t].status = None,
           Upstream(a, up[t]),
           agent' = [agent EXCEPT ![t] = a],
           shared' \in [Cells -> Threads \cup {None}],
           UNCHANGED <<browser, down, gateway, up>>
    PROVE  IInv'
<1>1. Relaying(a, up[t], gateway[t])
  <2>1. /\ ~ Ready(agent[t])
        /\ \A event : Vouched(agent[t], event) => Vouched(a, event)
    BY Unspoken
  <2>2. Relaying(agent[t], up[t], gateway[t])
    BY Records
  <2> QED
    BY <2>1, <2>2 DEF Relaying
<1>2. Downstream(a, gateway[t], down[t], browser[t])
  <2>1. \A event : Vouched(agent[t], event) => Vouched(a, event)
    BY Unspoken
  <2>2. Downstream(agent[t], gateway[t], down[t], browser[t])
    BY Records
  <2> QED
    BY <2>1, <2>2, NullAssumption DEF Downstream
<1>3. Becomes(t, a, up[t], gateway[t], down[t], browser[t])
  BY Records DEF Becomes
<1>4. Consistent(a, up[t], gateway[t], down[t], browser[t])
  BY <1>1, <1>2 DEF Consistent
<1>5. /\ up[t] \in Stream /\ gateway[t] \in Gateway /\ down[t] \in Stream
      /\ browser[t] \in Browser
  BY Records
<1> QED
  BY <1>3, <1>4, <1>5, OneTurn

\* A step of retrieval or generation.
LEMMA Working ==
    ASSUME IInv, NEW t \in Turns, NEW a \in Agent,
           agent[t].pc \in Work, a.pc \in Work,
           a.status = agent[t].status, a.out = agent[t].out,
           agent' = [agent EXCEPT ![t] = a],
           shared' \in [Cells -> Threads \cup {None}],
           UNCHANGED <<browser, down, gateway, up>>
    PROVE  IInv'
<1>1. agent[t].status = None /\ agent[t].out = <<>>
  BY Records DEF Upstream, Work
<1>2. Upstream(a, up[t])
  <2>1. \A event : Sound(agent[t], event) => Sound(a, event)
    BY <1>1, Unspoken
  <2>2. Upstream(agent[t], up[t])
    BY Records
  <2> QED
    BY <1>1, <2>1, <2>2 DEF Upstream, Work
<1> QED
  BY <1>1, <1>2, AgentMoves

\* The end of the graph: what is left to write.
LEMMA Resulting ==
    ASSUME IInv, NEW t \in Turns, agent[t].pc \in Work,
           NEW status \in {None, "completed", "abstained"},
           NEW out \in {<<"evidence", "delta", status>>, <<"error">>},
           out # <<"error">> => status # None,
           status = "completed" => Validated(agent[t]),
           Result(t, status, out),
           UNCHANGED <<browser, down, gateway, up>>
    PROVE  IInv'
<1> DEFINE a == [agent[t] EXCEPT !.pc = "writing", !.status = status, !.out = out]
<1>1. /\ agent[t].status = None /\ Len(up[t].sent) = 1
      /\ up[t].sent \in Events
  BY Records DEF Upstream, Work, Stream
<1>2. /\ out \in Events /\ Len(out) <= 3
      /\ \A i \in DOMAIN out : /\ out[i] = "delta" => i = 2
                               /\ out[i] = "completed" => status = "completed"
                               /\ out[i] = "abstained" => status = "abstained"
  <2>1. CASE out = <<"error">>
    <3>1. <<"error">> \in Seq(Event) /\ Len(<<"error">>) = 1 /\ Len(<<"error">>) <= 4
      BY DEF Event
    <3>2. <<"error">> \in Events
      BY <3>1, EventsAreSequences
    <3> QED
      BY <2>1, <3>1, <3>2
  <2>2. CASE out # <<"error">>
    <3>1. status \in Event
      BY <2>2 DEF Event
    <3>2. out = <<"evidence", "delta", status>>
      BY <2>2
    <3>3. out \in Seq(Event) /\ Len(out) = 3 /\ Len(out) <= 4
      BY <3>1, <3>2 DEF Event
    <3>4. out \in Events
      BY <3>3, EventsAreSequences
    <3> QED
      BY <3>2, <3>3, <3>4
  <2> QED
    BY <2>1, <2>2
<1>3. a \in Agent
  BY <1>2, Records DEF Agent
<1>4. Upstream(a, up[t])
  <2>1. /\ a.pc = "writing" /\ a.status = status /\ a.out = out
        /\ a.answer = agent[t].answer
    BY Records DEF Agent
  <2>2. \A i \in DOMAIN out : Sound(a, out[i])
    BY <1>2, <2>1 DEF Sound, Ready, Validated
  <2>3. \A event : Sound(agent[t], event) => Sound(a, event)
    BY <1>1, Unspoken
  <2>4. Upstream(agent[t], up[t])
    BY Records
  <2>5. Len(out) \in Nat
    BY <1>2, EventsOf
  <2> QED
    BY <1>1, <1>2, <2>1, <2>2, <2>3, <2>4, <2>5 DEF Upstream, Work
<1>5. agent' = [agent EXCEPT ![t] = a] /\ shared' \in [Cells -> Threads \cup {None}]
  BY Records DEF Result
<1> QED
  BY <1>1, <1>3, <1>4, <1>5, AgentMoves

LEMMA RunStep ==
    ASSUME IInv, NEW t \in Turns, Run(t), UNCHANGED <<browser, down, gateway, up>>
    PROVE  IInv'
<1> USE DEF Work
<1>1. CASE Clear(t)
  BY <1>1, Records, Working DEF Clear, Step, Agent, Cells
<1>2. CASE SearchVectors(t)
  <2>1. PICK evidence \in BOOLEAN :
           agent' = [agent EXCEPT ![t] = [@ EXCEPT
                       !.evidence = evidence,
                       !.pc = IF Hybrid(t) THEN "enriching" ELSE "selecting"]]
    BY <1>2 DEF SearchVectors
  <2> DEFINE a == [agent[t] EXCEPT !.evidence = evidence,
                                   !.pc = IF Hybrid(t) THEN "enriching" ELSE "selecting"]
  <2>2. /\ a \in Agent /\ a.pc \in Work
        /\ a.status = agent[t].status /\ a.out = agent[t].out
    BY Records DEF Agent
  <2>3. agent' = [agent EXCEPT ![t] = a]
    BY <2>1
  <2> QED
    BY <1>2, <2>2, <2>3, Records, Working DEF SearchVectors
<1>3. CASE SearchGraph(t)
  <2>1. PICK evidence \in BOOLEAN :
           agent' = [agent EXCEPT ![t] = [@ EXCEPT !.pc = "copying", !.evidence = evidence]]
    BY <1>3 DEF SearchGraph
  <2> DEFINE a == [agent[t] EXCEPT !.pc = "copying", !.evidence = evidence]
  <2>2. /\ a \in Agent /\ a.pc \in Work
        /\ a.status = agent[t].status /\ a.out = agent[t].out
    BY Records DEF Agent
  <2>3. agent' = [agent EXCEPT ![t] = a] /\ shared' \in [Cells -> Threads \cup {None}]
    BY <1>3, <2>1, Records DEF SearchGraph, Cells, Threads
  <2> QED
    BY <1>3, <2>2, <2>3, Working DEF SearchGraph
<1>4. CASE SkipGraph(t)
  BY <1>4, Records, Working DEF SkipGraph, Step, Agent
<1>5. CASE CopyPath(t)
  BY <1>5, Records, Working DEF CopyPath, Step, Agent, Cells
<1>6. CASE Select(t)
  BY <1>6, Records, Working DEF Select, Step, Agent, Cells
<1>7. CASE Describe(t)
  BY <1>7, Records, Working DEF Describe, Agent, Cells
<1>8. CASE Generate(t)
  <2>1. PICK answer \in {"scope limited", "unsupported", "grounded"} :
           agent' = [agent EXCEPT ![t] = [@ EXCEPT !.pc = "validating", !.answer = answer]]
    BY <1>8 DEF Generate
  <2> DEFINE a == [agent[t] EXCEPT !.pc = "validating", !.answer = answer]
  <2>2. /\ a \in Agent /\ a.pc \in Work
        /\ a.status = agent[t].status /\ a.out = agent[t].out
    BY Records DEF Agent
  <2>3. agent' = [agent EXCEPT ![t] = a]
    BY <2>1
  <2> QED
    BY <1>8, <2>2, <2>3, Records, Working DEF Generate
<1>9. CASE Validate(t)
  BY <1>9, Resulting, NullAssumption DEF Validate
<1>10. CASE Raise(t)
  BY <1>10, Resulting, NullAssumption DEF Raise
<1> QED
  BY <1>1, <1>2, <1>3, <1>4, <1>5, <1>6, <1>7, <1>8, <1>9, <1>10 DEF Run, Search

\* The thread writes the next event of its result.
LEMMA AgentWritesStep == ASSUME IInv, NEW t \in Turns, AgentWrites(t) PROVE IInv'
<1> DEFINE out == agent[t].out
           sent == up[t].sent
           a == [agent[t] EXCEPT !.out = Tail(@)]
           u == Writes(up[t], Head(out))
<1>1. /\ out \in Events /\ sent \in Events /\ out # <<>>
      /\ agent[t].pc = "writing"
      /\ Upstream(agent[t], up[t])
  BY Records DEF AgentWrites, Agent, Stream
<1>2. /\ a \in Agent /\ a.out = Tail(out)
      /\ a.pc = "writing" /\ a.status = agent[t].status /\ a.answer = agent[t].answer
  BY <1>1, Rest, Records DEF Agent
<1>3. \A event : /\ Sound(agent[t], event) <=> Sound(a, event)
                 /\ Vouched(agent[t], event) <=> Vouched(a, event)
  BY <1>2 DEF Sound, Vouched, Ready
<1>4. u \in Stream /\ Upstream(a, u) /\ u.read = up[t].read
  <2>1. PICK m \in 0 .. 4, n \in 0 .. 4 :
           /\ m = Len(sent) /\ n = Len(out) /\ n > 0
           /\ DOMAIN sent = 1 .. m /\ DOMAIN out = 1 .. n /\ out[1] \in Event
    <3>1. /\ Len(sent) \in 0 .. 4 /\ DOMAIN sent = 1 .. Len(sent)
          /\ Len(out) \in 0 .. 4 /\ DOMAIN out = 1 .. Len(out) /\ Len(out) > 0
          /\ \A i \in DOMAIN out : out[i] \in Event
      BY <1>1, EventsOf
    <3>2. 1 \in DOMAIN out
      BY <1>1, Rest
    <3> HIDE DEF sent, out
    <3> QED
      BY <3>1, <3>2
  <2>2. /\ Head(out) = out[1]
        /\ Len(Tail(out)) = n - 1 /\ DOMAIN Tail(out) = 1 .. n - 1
        /\ \A i \in 1 .. n - 1 : Tail(out)[i] = out[i + 1]
    BY <1>1, <2>1, Rest
  <2>3. /\ \A i \in 1 .. n : Sound(a, out[i])
        /\ \A i \in 1 .. m : Sound(a, sent[i]) /\ (sent[i] = "delta" => i = 3)
        /\ up[t].read <= m
    BY <1>1, <1>3, <2>1 DEF Upstream
  <2>4. up[t].link = "open" => /\ m + n <= 4
                               /\ \A i \in 1 .. n : out[i] = "delta" => i + m = 3
    BY <1>1, <2>1 DEF Upstream
  <2>5. \A i \in DOMAIN a.out : Sound(a, a.out[i])
    <3> HIDE DEF out, sent, a, u
    <3>1. \A i \in 1 .. n - 1 : i + 1 \in 1 .. n
      OBVIOUS
    <3> QED
      BY <1>2, <2>2, <2>3, <3>1
  <2>6. CASE up[t].link # "open"
    <3>1. u = up[t]
      BY <2>6 DEF Writes
    <3> QED
      BY <1>2, <2>1, <2>3, <2>5, <2>6, <3>1, Records DEF Upstream, Work
  <2>7. CASE up[t].link = "open"
    <3>1. m < 4 /\ (out[1] = "delta" => m = 2)
      <4>1. m + n <= 4 /\ \A i \in 1 .. n : out[i] = "delta" => i + m = 3
        BY <2>4, <2>7
      <4>2. m < 4
        <5>1. n > 0 /\ m + n <= 4
          BY <2>1, <4>1
        <5> QED
          BY <5>1
      <4>3. 1 \in 1 .. n
        BY <2>1
      <4>4. out[1] = "delta" => 1 + m = 3
        BY <4>1, <4>3
      <4> QED
        BY <4>2, <4>4
    <3>2. u = [up[t] EXCEPT !.sent = Append(sent, out[1])]
      BY <2>2, <2>7, Records DEF Writes
    <3>3. /\ Append(sent, out[1]) \in Events
          /\ Len(Append(sent, out[1])) = m + 1
          /\ DOMAIN Append(sent, out[1]) = 1 .. m + 1
          /\ \A i \in 1 .. m : Append(sent, out[1])[i] = sent[i]
          /\ Append(sent, out[1])[m + 1] = out[1]
      BY <1>1, <2>1, <3>1, Written
    <3>4. /\ u \in Stream /\ u.sent = Append(sent, out[1]) /\ u.read = up[t].read
          /\ u.link = "open"
      BY <2>7, <3>2, <3>3, Records DEF Stream
    <3>5. u.read \in Nat
      BY <3>4 DEF Stream
    <3> HIDE DEF out, sent, a, u
    <3>6. \A i \in DOMAIN u.sent : Sound(a, u.sent[i]) /\ (u.sent[i] = "delta" => i = 3)
      <4>1. Sound(a, out[1]) /\ (out[1] = "delta" => m + 1 = 3)
        BY <2>1, <2>3, <3>1
      <4>2. \A i \in DOMAIN u.sent : i \in 1 .. m \/ i = m + 1
        BY <3>3, <3>4
      <4> QED
        BY <2>3, <3>3, <3>4, <4>1, <4>2
    <3>7. ASSUME NEW i \in DOMAIN a.out, a.out[i] = "delta"
          PROVE  i + Len(u.sent) = 3
      <4>1. i \in 1 .. n - 1 /\ i + 1 \in 1 .. n
        BY <1>2, <2>2
      <4>2. out[i + 1] = "delta"
        BY <1>2, <2>2, <3>7, <4>1
      <4>3. i + 1 + m = 3
        BY <2>4, <2>7, <4>1, <4>2
      <4> QED
        BY <3>3, <3>4, <4>1, <4>3
    <3>8. Len(u.sent) + Len(a.out) <= 4
      <4>1. m + n <= 4
        BY <2>4, <2>7
      <4>2. Len(u.sent) = m + 1 /\ Len(a.out) = n - 1
        BY <1>2, <2>2, <3>3, <3>4
      <4> QED
        BY <4>1, <4>2
    <3>9. u.read <= Len(u.sent)
      BY <2>3, <3>3, <3>4, <3>5
    <3> QED
      BY <1>2, <2>5, <3>4, <3>6, <3>7, <3>8, <3>9 DEF Upstream, Work
  <2> QED
    BY <2>6, <2>7
<1>5. Relaying(a, u, gateway[t])
  <2>1. Relaying(agent[t], up[t], gateway[t])
    BY Records
  <2>2. Ready(agent[t]) => Ready(a)
    BY <1>2 DEF Ready
  <2> QED
    BY <1>3, <1>4, <2>1, <2>2 DEF Relaying
<1>6. Downstream(a, gateway[t], down[t], browser[t])
  <2>1. Downstream(agent[t], gateway[t], down[t], browser[t])
    BY Records
  <2> QED
    BY <1>2, <1>3, <2>1 DEF Downstream
<1>7. Becomes(t, a, u, gateway[t], down[t], browser[t])
  BY Records DEF AgentWrites, Becomes
<1>8. Consistent(a, u, gateway[t], down[t], browser[t])
  BY <1>4, <1>5, <1>6 DEF Consistent
<1> QED
  BY <1>2, <1>4, <1>7, <1>8, OneTurn, Records

\* The thread has written its result, or nobody reads it.
LEMMA AgentEndsStep == ASSUME IInv, NEW t \in Turns, AgentEnds(t) PROVE IInv'
<1> DEFINE a == [agent[t] EXCEPT !.pc = "done"]
           u == Ended(up[t])
<1>1. agent[t].pc = "writing" /\ Upstream(agent[t], up[t])
  BY Records DEF AgentEnds
<1>2. /\ a \in Agent /\ a.out = agent[t].out /\ a.pc = "done"
      /\ a.status = agent[t].status /\ a.answer = agent[t].answer
  BY Records DEF Agent
<1>3. \A event : /\ Sound(agent[t], event) <=> Sound(a, event)
                 /\ Vouched(agent[t], event) <=> Vouched(a, event)
  BY <1>2 DEF Sound, Vouched, Ready
<1>4. /\ u \in Stream /\ u.sent = up[t].sent /\ u.read = up[t].read /\ u.link # "open"
  BY Records DEF Ended, Stream
<1>5. Upstream(a, u)
  BY <1>1, <1>2, <1>3, <1>4 DEF Upstream, Work
<1>6. Relaying(a, u, gateway[t])
  <2>1. Relaying(agent[t], up[t], gateway[t])
    BY Records
  <2>2. Ready(agent[t]) => Ready(a)
    BY <1>2 DEF Ready
  <2> QED
    BY <1>3, <1>4, <2>1, <2>2 DEF Relaying
<1>7. Downstream(a, gateway[t], down[t], browser[t])
  <2>1. Downstream(agent[t], gateway[t], down[t], browser[t])
    BY Records
  <2> QED
    BY <1>2, <1>3, <2>1 DEF Downstream
<1>8. Becomes(t, a, u, gateway[t], down[t], browser[t])
  BY Records DEF AgentEnds, Becomes
<1>9. Consistent(a, u, gateway[t], down[t], browser[t])
  BY <1>5, <1>6, <1>7 DEF Consistent
<1> QED
  BY <1>2, <1>4, <1>8, <1>9, OneTurn, Records

-----------------------------------------------------------------------------
(* The connections and the browser.                                        *)

\* A stream x that goes on, breaks or ends where s was.
StopsAt(x, s) == /\ x \in Stream /\ x.sent = s.sent /\ x.read = s.read
                 /\ x.link = "open" => s.link = "open"
                 /\ s.link = "none" => x = s

LEMMA Stops ==
    ASSUME NEW s \in Stream
    PROVE  StopsAt(s, s) /\ StopsAt(Broken(s), s) /\ StopsAt(Ended(s), s)
  BY DEF StopsAt, Broken, Ended, Stream

\* The agent's stream stops.
LEMMA UpStops ==
    ASSUME IInv, NEW t \in Turns, NEW u, StopsAt(u, up[t])
    PROVE  Upstream(agent[t], u)
<1>1. Upstream(agent[t], up[t])
  BY Records
<1>2. NoStream.link = "none"
  BY DEF NoStream
<1> QED
  BY <1>1, <1>2 DEF Upstream, StopsAt

\* The stream to the browser stops.
LEMMA DownStops ==
    ASSUME IInv, NEW t \in Turns, NEW d, StopsAt(d, down[t])
    PROVE  Downstream(agent[t], gateway[t], d, browser[t])
<1>1. Downstream(agent[t], gateway[t], down[t], browser[t])
  BY Records
<1> QED
  BY <1>1 DEF Downstream, StopsAt

LEMMA CutStep == ASSUME IInv, NEW t \in Turns, Cut(t) PROVE IInv'
<1>1. \E u \in {up[t], Broken(up[t]), Ended(up[t])}, d \in {down[t], Broken(down[t])} :
         Becomes(t, agent[t], u, gateway[t], d, browser[t])
  BY Records DEF Cut, Becomes
<1>2. PICK u \in {up[t], Broken(up[t]), Ended(up[t])}, d \in {down[t], Broken(down[t])} :
         Becomes(t, agent[t], u, gateway[t], d, browser[t])
  BY <1>1
<1>3. StopsAt(u, up[t]) /\ StopsAt(d, down[t])
  BY Records, Stops
<1>4. Upstream(agent[t], u)
  BY <1>3, UpStops
<1>5. Downstream(agent[t], gateway[t], d, browser[t])
  BY <1>3, DownStops
<1>6. Relaying(agent[t], u, gateway[t])
  BY <1>3, Records DEF Relaying, StopsAt
<1>7. Consistent(agent[t], u, gateway[t], d, browser[t])
  BY <1>4, <1>5, <1>6 DEF Consistent
<1> QED
  BY <1>2, <1>3, <1>7, OneTurn, Records DEF StopsAt

\* The browser's part: its run and what it read of the stream.
LEMMA BrowserMoves ==
    ASSUME IInv, NEW t \in Turns, NEW d \in Stream, NEW b \in Browser,
           Downstream(agent[t], gateway[t], d, b),
           down' = [down EXCEPT ![t] = d], browser' = [browser EXCEPT ![t] = b],
           UNCHANGED <<gateway, up, agent, shared>>
    PROVE  IInv'
<1>1. Becomes(t, agent[t], up[t], gateway[t], d, b)
  BY Records DEF Becomes
<1>2. Consistent(agent[t], up[t], gateway[t], d, b)
  BY Records DEF Consistent
<1> QED
  BY <1>1, <1>2, OneTurn, Records

LEMMA SubmitStep == ASSUME IInv, NEW t \in Turns, Submit(t) PROVE IInv'
<1> DEFINE d == [down[t] EXCEPT !.link = "open"]
           b == [browser[t] EXCEPT !.pc = "waiting"]
<1>1. /\ d \in Stream /\ d.sent = down[t].sent /\ d.read = down[t].read
      /\ b \in Browser /\ b.pc = "waiting" /\ b.shown = browser[t].shown
  BY Records DEF Stream, Browser
<1>2. /\ gateway[t].pc = "idle" /\ gateway[t].out = <<>> /\ down[t].sent = <<>>
      /\ browser[t].pc = "idle"
  BY Records DEF Submit, Downstream, Relaying
<1>3. Len(d.sent) + Len(gateway[t].out) <= 4
  BY <1>1, <1>2
<1>4. Downstream(agent[t], gateway[t], d, b)
  <2>1. Downstream(agent[t], gateway[t], down[t], browser[t])
    BY Records
  <2> QED
    BY <1>1, <1>2, <1>3, <2>1 DEF Downstream
<1>5. down' = [down EXCEPT ![t] = d] /\ browser' = [browser EXCEPT ![t] = b]
  BY Records DEF Submit
<1> QED
  BY <1>1, <1>4, <1>5, BrowserMoves DEF Submit

\* The browser reads an event.
LEMMA ReadsEvent ==
    ASSUME NEW s \in Stream, Unread(s)
    PROVE  /\ Reads(s) \in Stream /\ Reads(s).sent = s.sent /\ Reads(s).link = s.link
           /\ Reads(s).read = s.read + 1
           /\ Reads(s).read <= Len(s.sent)
           /\ s.read + 1 \in DOMAIN s.sent
<1>1. PICK n \in 0 .. 4 : n = Len(s.sent) /\ DOMAIN s.sent = 1 .. n
  BY EventsOf DEF Stream
<1>2. s.read \in 0 .. 4 /\ s.read < n
  BY <1>1 DEF Unread, Stream
<1>3. s.read + 1 \in 1 .. n /\ s.read + 1 \in 0 .. 4
  BY <1>2
<1>4. /\ Reads(s) \in Stream /\ Reads(s).sent = s.sent /\ Reads(s).link = s.link
      /\ Reads(s).read = s.read + 1
  BY <1>3 DEF Reads, Stream
<1> QED
  BY <1>1, <1>3, <1>4

\* The browser ends its run, showing what.
LEMMA ShowsStep ==
    ASSUME IInv, NEW t \in Turns, NEW d, NEW what,
           what \in {"answer", "abstained", "error", "aborted"},
           browser[t].pc = "waiting",
           what = "abstained" => agent[t].status = "abstained",
           StopsAt(d, down[t]) \/ (Unread(down[t]) /\ d = Reads(down[t])),
           down' = [down EXCEPT ![t] = d],
           Shows(t, what),
           UNCHANGED <<gateway, up, agent, shared>>
    PROVE  IInv'
<1> DEFINE b == [browser[t] EXCEPT !.pc = "done", !.shown = what]
<1>1. b \in Browser /\ b.pc = "done" /\ b.shown = what
  BY Records DEF Browser
<1>2. Downstream(agent[t], gateway[t], down[t], browser[t]) /\ down[t] \in Stream
  BY Records
<1>3. d \in Stream /\ d.sent = down[t].sent /\ d.read <= Len(d.sent)
      /\ (d.link = "open" => down[t].link = "open")
  <2>1. CASE StopsAt(d, down[t])
    BY <1>2, <2>1 DEF StopsAt, Downstream
  <2>2. CASE Unread(down[t]) /\ d = Reads(down[t])
    BY <1>2, <2>2, ReadsEvent
  <2> QED
    BY <2>1, <2>2
<1>4. Downstream(agent[t], gateway[t], d, b)
  BY <1>1, <1>2, <1>3 DEF Downstream
<1>5. browser' = [browser EXCEPT ![t] = b]
  BY DEF Shows
<1> QED
  BY <1>1, <1>3, <1>4, <1>5, BrowserMoves

LEMMA ReceiveStep == ASSUME IInv, NEW t \in Turns, Receive(t) PROVE IInv'
<1> DEFINE event == NextEvent(down[t])
           d == Reads(down[t])
<1>1. /\ Downstream(agent[t], gateway[t], down[t], browser[t]) /\ down[t] \in Stream
      /\ browser[t].pc = "waiting" /\ Unread(down[t])
      /\ down' = [down EXCEPT ![t] = d]
      /\ UNCHANGED <<gateway, up, agent, shared>>
  BY Records DEF Receive
<1>2. event = "abstained" => agent[t].status = "abstained"
  <2>1. down[t].read + 1 \in DOMAIN down[t].sent
    BY <1>1, ReadsEvent
  <2> QED
    BY <1>1, <2>1 DEF Downstream, Vouched, Sound, NextEvent
<1>3. CASE event = "completed"
  BY <1>1, <1>3, ShowsStep DEF Receive
<1>4. CASE event = "abstained"
  BY <1>1, <1>2, <1>4, ShowsStep DEF Receive
<1>5. CASE event = "error"
  BY <1>1, <1>5, ShowsStep DEF Receive
<1>6. CASE event \notin {"completed", "abstained", "error"}
  <2>1. browser' = [browser EXCEPT ![t] = browser[t]]
    BY <1>6, Records DEF Receive
  <2>2. /\ d \in Stream /\ d.sent = down[t].sent /\ d.link = down[t].link
        /\ d.read <= Len(d.sent)
    BY <1>1, ReadsEvent
  <2>3. Downstream(agent[t], gateway[t], d, browser[t])
    BY <1>1, <2>2 DEF Downstream
  <2> QED
    BY <1>1, <2>1, <2>2, <2>3, BrowserMoves, Records
<1> QED
  BY <1>3, <1>4, <1>5, <1>6

LEMMA FallbackStep == ASSUME IInv, NEW t \in Turns, Fallback(t) PROVE IInv'
<1>1. down' = [down EXCEPT ![t] = down[t]] /\ StopsAt(down[t], down[t])
  BY Records, Stops DEF Fallback
<1>2. /\ browser[t].pc = "waiting" /\ Shows(t, "error")
      /\ UNCHANGED <<gateway, up, agent, shared>>
  BY DEF Fallback
<1> QED
  BY <1>1, <1>2, ShowsStep

LEMMA AbortStep == ASSUME IInv, NEW t \in Turns, Abort(t) PROVE IInv'
<1>1. StopsAt(Broken(down[t]), down[t])
  BY Records, Stops
<1>2. /\ browser[t].pc = "waiting" /\ Shows(t, "aborted")
      /\ down' = [down EXCEPT ![t] = Broken(down[t])]
      /\ UNCHANGED <<gateway, up, agent, shared>>
  BY DEF Abort
<1> QED
  BY <1>1, <1>2, ShowsStep

-----------------------------------------------------------------------------
(* The API.                                                                *)

\* A stream with one event.
LEMMA Single ==
    ASSUME NEW event \in Event
    PROVE  /\ <<event>> \in Events /\ Len(<<event>>) = 1 /\ DOMAIN <<event>> = {1}
           /\ <<event>>[1] = event /\ <<event>> # <<>>
           /\ LastOf(<<event>>) = event
<1>1. <<event>> \in Seq(Event) /\ Len(<<event>>) = 1 /\ Len(<<event>>) <= 4
  OBVIOUS
<1>2. <<event>> \in Events
  BY <1>1, EventsAreSequences
<1> QED
  BY <1>1, <1>2 DEF LastOf

\* The handler's part: what it received and what it wrote.
LEMMA GatewayMoves ==
    ASSUME IInv, NEW t \in Turns, NEW u \in Stream, NEW g \in Gateway, NEW d \in Stream,
           Upstream(agent[t], u),
           Relaying(agent[t], u, g),
           Downstream(agent[t], g, d, browser[t]),
           up' = [up EXCEPT ![t] = u], gateway' = [gateway EXCEPT ![t] = g],
           down' = [down EXCEPT ![t] = d],
           UNCHANGED <<browser, agent, shared>>
    PROVE  IInv'
<1>1. Becomes(t, agent[t], u, g, d, browser[t])
  BY Records DEF Becomes
<1>2. Consistent(agent[t], u, g, d, browser[t])
  BY DEF Consistent
<1> QED
  BY <1>1, <1>2, OneTurn, Records

LEMMA RefuseStep == ASSUME IInv, NEW t \in Turns, Refuse(t) PROVE IInv'
<1> DEFINE g == [gateway[t] EXCEPT !.pc = "done"]
           d == Broken(down[t])
<1>1. /\ Upstream(agent[t], up[t]) /\ up[t] \in Stream
      /\ Relaying(agent[t], up[t], gateway[t])
      /\ Downstream(agent[t], gateway[t], down[t], browser[t])
  BY Records
<1>2. /\ g \in Gateway /\ g.pc = "done" /\ g.out = gateway[t].out
      /\ g.terminal = gateway[t].terminal /\ g.deltas = gateway[t].deltas
      /\ d \in Stream /\ d.sent = down[t].sent /\ d.read = down[t].read /\ d.link = "cut"
  BY Records DEF Refuse, Gateway, Broken, Stream
<1>3. Relaying(agent[t], up[t], g)
  BY <1>1, <1>2 DEF Relaying
<1>4. Downstream(agent[t], g, d, browser[t])
  BY <1>1, <1>2 DEF Downstream, Refuse
<1>5. /\ up' = [up EXCEPT ![t] = up[t]] /\ gateway' = [gateway EXCEPT ![t] = g]
      /\ down' = [down EXCEPT ![t] = d] /\ UNCHANGED <<browser, agent, shared>>
  BY Records DEF Refuse
<1> HIDE DEF g, d
<1> QED
  BY <1>1, <1>2, <1>3, <1>4, <1>5, GatewayMoves

LEMMA AcceptStep == ASSUME IInv, NEW t \in Turns, Accept(t) PROVE IInv'
<1> DEFINE g == [gateway[t] EXCEPT !.pc = "resolving"]
           d == Writes(down[t], "started")
<1>1. /\ Upstream(agent[t], up[t]) /\ up[t] \in Stream
      /\ Relaying(agent[t], up[t], gateway[t])
      /\ Downstream(agent[t], gateway[t], down[t], browser[t])
      /\ down[t] \in Stream
  BY Records
<1>2. /\ g \in Gateway /\ g.pc = "resolving" /\ g.out = gateway[t].out
      /\ g.terminal = gateway[t].terminal /\ g.deltas = gateway[t].deltas
  BY Records DEF Gateway
<1>3. /\ gateway[t].out = <<>> /\ gateway[t].deltas = 0 /\ down[t].sent = <<>>
      /\ browser[t].pc # "idle"
  BY <1>1 DEF Accept, Relaying, Downstream
<1>4. /\ d \in Stream /\ d.sent = <<"started">> /\ d.read = down[t].read /\ d.link = "open"
  <2>1. <<"started">> \in Events
    BY Single DEF Event
  <2>2. Append(<<>>, "started") = <<"started">>
    OBVIOUS
  <2> QED
    BY <1>1, <1>3, <2>1, <2>2 DEF Accept, Writes, Stream
<1>5. /\ up' = [up EXCEPT ![t] = up[t]] /\ gateway' = [gateway EXCEPT ![t] = g]
      /\ down' = [down EXCEPT ![t] = d] /\ UNCHANGED <<browser, agent, shared>>
  BY Records DEF Accept
<1>6. d.read = 0
  <2>1. down[t].read <= 0 /\ down[t].read \in 0 .. 4
    BY <1>1, <1>3 DEF Downstream, Stream
  <2> QED
    BY <1>4, <2>1
<1> HIDE DEF g, d
<1>7. Relaying(agent[t], up[t], g)
  BY <1>1, <1>2, <1>3 DEF Relaying
<1>8. Downstream(agent[t], g, d, browser[t])
  <2>1. Len(d.sent) = 1 /\ DOMAIN d.sent = {1} /\ d.sent[1] = "started"
    BY <1>4
  <2>2. Vouched(agent[t], "started")
    BY DEF Vouched, Sound
  <2>3. Len(g.out) = 0 /\ g.out = <<>>
    BY <1>2, <1>3
  <2>4. Len(d.sent) + Len(g.out) <= 4 /\ d.read <= Len(d.sent)
    BY <1>6, <2>1, <2>3
  <2>5. browser[t].shown = "abstained" => agent[t].status = "abstained"
    BY <1>1 DEF Downstream
  <2> QED
    BY <1>2, <1>3, <1>4, <2>1, <2>2, <2>3, <2>4, <2>5 DEF Downstream
<1> QED
  BY <1>1, <1>2, <1>4, <1>5, <1>7, <1>8, GatewayMoves

\* Ask returns, and out is left to write.
LEMMA AnswersStep ==
    ASSUME IInv, NEW t \in Turns, NEW out \in Events,
           gateway[t].pc \in {"resolving", "asking"},
           out # <<>>, Len(out) <= 3,
           out[1] \in Protocol!After("started"),
           \A i \in DOMAIN out :
              /\ Vouched(agent[t], out[i])
              /\ i + 1 \in DOMAIN out => out[i + 1] \in Protocol!After(out[i]),
           Answers(t, out),
           UNCHANGED <<browser, down, agent, shared>>
    PROVE  IInv'
<1> DEFINE g == [gateway[t] EXCEPT !.pc = "writing", !.out = out]
           u == Broken(up[t])
<1>1. /\ Relaying(agent[t], up[t], gateway[t])
      /\ Downstream(agent[t], gateway[t], down[t], browser[t])
  BY Records
<1>2. /\ g \in Gateway /\ g.pc = "writing" /\ g.out = out
      /\ g.terminal = gateway[t].terminal /\ g.deltas = gateway[t].deltas
  BY Records DEF Gateway
<1>3. StopsAt(u, up[t]) /\ u \in Stream
  BY Records, Stops DEF StopsAt
<1>4. Upstream(agent[t], u)
  BY <1>3, UpStops
<1>5. Relaying(agent[t], u, g)
  BY <1>1, <1>2, <1>3 DEF Relaying, StopsAt
<1>6. Downstream(agent[t], g, down[t], browser[t])
  <2>1. down[t].sent = <<"started">> /\ browser[t].pc # "idle"
    BY <1>1 DEF Downstream
  <2>2. Len(down[t].sent) = 1 /\ LastOf(down[t].sent) = "started"
    BY <2>1, Single DEF Event
  <2>3. Len(down[t].sent) + Len(out) <= 4
    <3>1. Len(out) \in 0 .. 4
      BY EventsOf
    <3> QED
      BY <2>2, <3>1
  <2> QED
    BY <1>1, <1>2, <2>1, <2>2, <2>3 DEF Downstream
<1>7. /\ up' = [up EXCEPT ![t] = u] /\ gateway' = [gateway EXCEPT ![t] = g]
      /\ down' = [down EXCEPT ![t] = down[t]]
  BY Records DEF Answers
<1> QED
  BY <1>2, <1>3, <1>4, <1>5, <1>6, <1>7, GatewayMoves, Records

\* A failure to write.
LEMMA FailsStep ==
    ASSUME IInv, NEW t \in Turns, NEW event \in {"error", "abstained"},
           gateway[t].pc \in {"resolving", "asking"},
           event = "abstained" => agent[t].status = "abstained",
           Answers(t, <<event>>),
           UNCHANGED <<browser, down, agent, shared>>
    PROVE  IInv'
<1>1. /\ <<event>> \in Events /\ Len(<<event>>) = 1 /\ DOMAIN <<event>> = {1}
      /\ <<event>>[1] = event /\ <<event>> # <<>>
  BY Single DEF Event
<1>2. event \in Protocol!After("started")
  BY DEF Protocol!After, Protocol!EndsAtOnce
<1>3. Vouched(agent[t], event)
  BY DEF Vouched, Sound
<1> DEFINE out == <<event>>
<1> HIDE DEF out
<1>4. /\ out \in Events /\ Len(out) <= 3 /\ out # <<>> /\ out[1] = event
      /\ DOMAIN out = {1} /\ Answers(t, out)
  BY <1>1 DEF out
<1>5. \A i \in DOMAIN out :
         /\ Vouched(agent[t], out[i])
         /\ i + 1 \in DOMAIN out => out[i + 1] \in Protocol!After(out[i])
  BY <1>3, <1>4
<1> QED
  BY <1>2, <1>4, <1>5, AnswersStep

LEMMA FailsToAskStep == ASSUME IInv, NEW t \in Turns, FailsToAsk(t) PROVE IInv'
  BY FailsStep DEF FailsToAsk

LEMMA StreamErrorStep == ASSUME IInv, NEW t \in Turns, StreamError(t) PROVE IInv'
  BY FailsStep DEF StreamError

LEMMA TimeoutStep == ASSUME IInv, NEW t \in Turns, Timeout(t) PROVE IInv'
  BY FailsStep DEF Timeout

LEMMA CancelledStep == ASSUME IInv, NEW t \in Turns, Cancelled(t) PROVE IInv'
<1> DEFINE g == [gateway[t] EXCEPT !.pc = "done"]
           u == Broken(up[t])
<1>1. /\ Relaying(agent[t], up[t], gateway[t]) /\ down[t] \in Stream
      /\ Downstream(agent[t], gateway[t], down[t], browser[t])
      /\ gateway[t].pc \in {"resolving", "asking"}
  BY Records DEF Cancelled
<1>2. /\ g \in Gateway /\ g.pc = "done" /\ g.out = gateway[t].out
      /\ g.terminal = gateway[t].terminal /\ g.deltas = gateway[t].deltas
  BY Records DEF Gateway
<1>3. StopsAt(u, up[t]) /\ u \in Stream
  BY Records, Stops DEF StopsAt
<1>4. Upstream(agent[t], u)
  BY <1>3, UpStops
<1>5. /\ up' = [up EXCEPT ![t] = u] /\ gateway' = [gateway EXCEPT ![t] = g]
      /\ down' = [down EXCEPT ![t] = down[t]] /\ UNCHANGED <<browser, agent, shared>>
  BY Records DEF Cancelled
<1> HIDE DEF g, u
<1>6. Relaying(agent[t], u, g)
  BY <1>1, <1>2, <1>3 DEF Relaying, StopsAt
<1>7. Downstream(agent[t], g, down[t], browser[t])
  BY <1>1, <1>2 DEF Downstream
<1> QED
  BY <1>1, <1>2, <1>3, <1>4, <1>5, <1>6, <1>7, GatewayMoves

\* The request that starts the thread of the agent.
LEMMA AsksAgentStep == ASSUME IInv, NEW t \in Turns, AsksAgent(t) PROVE IInv'
<1> DEFINE a == [agent[t] EXCEPT !.pc = "retrieving"]
           u == [link |-> "open", sent |-> <<"started">>, read |-> 0]
           g == [gateway[t] EXCEPT !.pc = "asking"]
<1>1. /\ Upstream(agent[t], up[t]) /\ Relaying(agent[t], up[t], gateway[t])
      /\ Downstream(agent[t], gateway[t], down[t], browser[t])
      /\ down[t] \in Stream /\ browser[t] \in Browser
      /\ agent[t].pc = "idle" /\ gateway[t].pc = "resolving"
  BY Records DEF AsksAgent, Begin
<1>2. /\ a \in Agent /\ a.pc = "retrieving" /\ a.out = agent[t].out
      /\ a.status = agent[t].status /\ a.answer = agent[t].answer
  BY Records DEF Agent, Work
<1>3. agent[t].status = None /\ agent[t].out = <<>>
  BY <1>1 DEF Upstream
<1>4. /\ g \in Gateway /\ g.pc = "asking" /\ g.out = gateway[t].out
      /\ g.terminal = gateway[t].terminal /\ g.deltas = gateway[t].deltas
  BY Records DEF Gateway
<1>5. /\ u \in Stream /\ u.link = "open" /\ u.sent = <<"started">> /\ u.read = 0
  BY Single DEF Stream, Event
<1>6. Becomes(t, a, u, g, down[t], browser[t])
  BY Records DEF AsksAgent, Begin, Becomes
<1> HIDE DEF a, u, g
<1>7. Upstream(a, u)
  <2>1. Len(u.sent) = 1 /\ DOMAIN u.sent = {1} /\ u.sent[1] = "started"
    BY <1>5
  <2>2. Len(a.out) = 0 /\ DOMAIN a.out = {} /\ a.out = <<>> /\ a.status = None
    BY <1>2, <1>3
  <2>3. Len(u.sent) + Len(a.out) <= 4 /\ u.read <= Len(u.sent)
    BY <1>5, <2>1, <2>2
  <2>4. Sound(a, "started")
    BY DEF Sound
  <2> QED
    BY <1>2, <1>5, <2>1, <2>2, <2>3, <2>4 DEF Upstream, Work
<1>8. Relaying(a, u, g)
  <2>1. ~ Ready(agent[t])
    BY <1>3, Unspoken
  <2>2. /\ g.out = <<>> /\ g.deltas = 0 /\ ~ g.terminal
    BY <1>1, <1>4, <2>1, Records DEF Relaying, Gateway
  <2> QED
    BY <1>4, <2>2 DEF Relaying
<1>9. Downstream(a, g, down[t], browser[t])
  <2>1. \A event : Vouched(agent[t], event) => Vouched(a, event)
    BY <1>3, Unspoken
  <2> QED
    BY <1>1, <1>2, <1>4, <2>1 DEF Downstream
<1>10. Consistent(a, u, g, down[t], browser[t])
  BY <1>7, <1>8, <1>9 DEF Consistent
<1> QED
  BY <1>1, <1>2, <1>4, <1>5, <1>6, <1>10, OneTurn

\* An event of the agent: a failure ends the request, any other is kept.
LEMMA handleEventStep == ASSUME IInv, NEW t \in Turns, handleEvent(t) PROVE IInv'
<1> DEFINE event == NextEvent(up[t])
           u == Reads(up[t])
<1>1. /\ Upstream(agent[t], up[t]) /\ Relaying(agent[t], up[t], gateway[t])
      /\ Downstream(agent[t], gateway[t], down[t], browser[t])
      /\ down[t] \in Stream /\ up[t] \in Stream
      /\ gateway[t].pc = "asking" /\ Unread(up[t])
      /\ UNCHANGED <<browser, down, agent, shared>>
  BY Records DEF handleEvent
<1>2. /\ u \in Stream /\ u.sent = up[t].sent /\ u.link = up[t].link
      /\ u.read = up[t].read + 1 /\ u.read <= Len(u.sent)
      /\ up[t].read + 1 \in DOMAIN up[t].sent
  BY <1>1, ReadsEvent
<1>3. Sound(agent[t], event) /\ (event = "delta" => up[t].read + 1 = 3)
  BY <1>1, <1>2 DEF Upstream, NextEvent
<1>4. CASE event \in Failures
  <2>1. Answers(t, <<event>>) /\ event \in {"error", "abstained"}
    BY <1>4 DEF handleEvent, Failures
  <2>2. event = "abstained" => agent[t].status = "abstained"
    BY <1>3 DEF Sound
  <2> QED
    BY <1>1, <2>1, <2>2, FailsStep
<1>5. CASE event \notin Failures
  <2> DEFINE g ==
        CASE event = "delta" -> [gateway[t] EXCEPT !.deltas = gateway[t].deltas + 1]
          [] event \in Terminal -> [gateway[t] EXCEPT !.terminal = TRUE]
          [] OTHER -> gateway[t]
  <2>1. /\ gateway' = [gateway EXCEPT ![t] = g] /\ up' = [up EXCEPT ![t] = u]
        /\ down' = [down EXCEPT ![t] = down[t]] /\ UNCHANGED <<browser, agent, shared>>
    <3>1. /\ gateway' = [gateway EXCEPT ![t] =
                CASE event = "delta" -> [@ EXCEPT !.deltas = gateway[t].deltas + 1]
                  [] event \in Terminal -> [@ EXCEPT !.terminal = TRUE]
                  [] OTHER -> @]
          /\ up' = [up EXCEPT ![t] = Reads(@)]
      BY <1>5 DEF handleEvent
    <3>2. down' = [down EXCEPT ![t] = down[t]] /\ UNCHANGED <<browser, agent, shared>>
      BY <1>1, Records
    <3>3. gateway' = [gateway EXCEPT ![t] = g]
      <4>1. CASE event = "delta"
        BY <3>1, <4>1 DEF Terminal
      <4>2. CASE event # "delta" /\ event \in Terminal
        BY <3>1, <4>2
      <4>3. CASE event # "delta" /\ event \notin Terminal
        BY <3>1, <4>3
      <4> QED
        BY <4>1, <4>2, <4>3
    <3>4. up' = [up EXCEPT ![t] = u]
      BY <3>1
    <3> QED
      BY <3>2, <3>3, <3>4
  <2>2. PICK r \in 0 .. 4 : r = up[t].read
    BY <1>1 DEF Stream
  <2>3. gateway[t].deltas \in 0 .. 1 /\ (gateway[t].deltas = 1 => r >= 3)
    BY <1>1, <2>2, Records DEF Relaying, Gateway
  <2>4. event = "delta" => gateway[t].deltas = 0 /\ u.read = 3
    BY <1>2, <1>3, <2>2, <2>3
  <2>5. /\ g \in Gateway /\ g.pc = "asking" /\ g.out = gateway[t].out
        /\ g.terminal => gateway[t].terminal \/ event = "completed"
        /\ g.deltas = 1 => gateway[t].deltas = 1 \/ event = "delta"
    <3>1. gateway[t] \in Gateway
      BY Records
    <3> HIDE DEF event
    <3>2. CASE event = "delta"
      <4>1. g = [gateway[t] EXCEPT !.deltas = 1]
        <5>1. gateway[t].deltas + 1 = 1
          BY <2>4, <3>2
        <5> QED
          BY <3>2, <5>1 DEF Terminal
      <4> QED
        BY <1>1, <3>1, <3>2, <4>1 DEF Gateway
    <3>3. CASE event # "delta" /\ event \in Terminal
      <4>1. g = [gateway[t] EXCEPT !.terminal = TRUE] /\ event = "completed"
        BY <1>5, <3>3 DEF Terminal, Failures
      <4> QED
        BY <1>1, <3>1, <3>3, <4>1 DEF Gateway
    <3>4. CASE event # "delta" /\ event \notin Terminal
      <4>1. g = gateway[t]
        BY <3>4
      <4> QED
        BY <1>1, <3>1, <4>1
    <3> QED
      BY <3>2, <3>3, <3>4
  <2> HIDE DEF event, g, u
  <2>6. Upstream(agent[t], u)
    <3>1. agent[t].pc # "idle"
      BY <1>1 DEF Upstream, NoStream, Unread
    <3> QED
      BY <1>1, <1>2, <3>1 DEF Upstream
  <2>7. Relaying(agent[t], u, g)
    <3>1. g.terminal => Ready(agent[t])
      BY <1>1, <1>3, <2>5 DEF Relaying, Sound
    <3>2. g.deltas = 1 => u.read >= 3
      BY <1>2, <2>2, <2>3, <2>4, <2>5
    <3> QED
      BY <1>1, <2>5, <3>1, <3>2 DEF Relaying
  <2>8. Downstream(agent[t], g, down[t], browser[t])
    BY <1>1, <2>5 DEF Downstream
  <2> QED
    BY <1>1, <1>2, <2>1, <2>5, <2>6, <2>7, <2>8, GatewayMoves
<1> QED
  BY <1>4, <1>5

\* What is relayed of an answer, with and without text.
LEMMA Concatenated ==
    /\ <<"evidence">> \o <<>> \o <<"completed">> = <<"evidence", "completed">>
    /\ <<"evidence">> \o <<"delta">> \o <<"completed">>
         = <<"evidence", "delta", "completed">>
<1>1. \A x, y \in Event : <<x>> \o <<y>> = <<x, y>>
  <2> SUFFICES ASSUME NEW x \in Event, NEW y \in Event
               PROVE  <<x>> \o <<y>> = <<x, y>>
    OBVIOUS
  <2> DEFINE s == <<x>> \o <<y>>
  <2>1. <<x>> \in Seq(Event) /\ <<y>> \in Seq(Event) /\ <<x, y>> \in Seq(Event)
    OBVIOUS
  <2>2. /\ s \in Seq(Event) /\ Len(s) = 2 /\ s[1] = x /\ s[2] = y
    BY <2>1, ConcatProperties
  <2> HIDE DEF s
  <2>3. Len(s) = Len(<<x, y>>) /\ \A i \in 1 .. Len(s) : s[i] = <<x, y>>[i]
    BY <2>2
  <2>4. s = <<x, y>>
    BY <2>1, <2>2, <2>3, SeqEqual
  <2> QED
    BY <2>4 DEF s
<1>2. \A x, y, z \in Event : <<x, y>> \o <<z>> = <<x, y, z>>
  <2> SUFFICES ASSUME NEW x \in Event, NEW y \in Event, NEW z \in Event
               PROVE  <<x, y>> \o <<z>> = <<x, y, z>>
    OBVIOUS
  <2> DEFINE s == <<x, y>> \o <<z>>
  <2>1. /\ <<x, y>> \in Seq(Event) /\ <<z>> \in Seq(Event)
        /\ <<x, y, z>> \in Seq(Event)
    OBVIOUS
  <2>2. /\ s \in Seq(Event) /\ Len(s) = 3 /\ s[1] = x /\ s[2] = y /\ s[3] = z
    BY <2>1, ConcatProperties
  <2> HIDE DEF s
  <2>3. Len(s) = Len(<<x, y, z>>) /\ \A i \in 1 .. Len(s) : s[i] = <<x, y, z>>[i]
    BY <2>2
  <2>4. s = <<x, y, z>>
    BY <2>1, <2>2, <2>3, SeqEqual
  <2> QED
    BY <2>4 DEF s
<1>3. "evidence" \in Event /\ "delta" \in Event /\ "completed" \in Event
  BY DEF Event
<1>4. <<"evidence">> \o <<>> = <<"evidence">>
  <2>1. <<"evidence">> \in Seq(Event)
    BY <1>3
  <2> QED
    BY <2>1, ConcatEmptySeq
<1>5. <<"evidence">> \o <<"completed">> = <<"evidence", "completed">>
  BY <1>1, <1>3
<1>6. <<"evidence">> \o <<"delta">> = <<"evidence", "delta">>
  BY <1>1, <1>3
<1>7. <<"evidence", "delta">> \o <<"completed">> = <<"evidence", "delta", "completed">>
  BY <1>2, <1>3
<1> QED
  BY <1>4, <1>5, <1>6, <1>7

\* The end of the agent's stream: a validated answer is relayed.
LEMMA EndOfStreamStep == ASSUME IInv, NEW t \in Turns, EndOfStream(t) PROVE IInv'
<1>1. /\ Relaying(agent[t], up[t], gateway[t]) /\ gateway[t] \in Gateway
      /\ gateway[t].pc = "asking"
      /\ Answers(t, Relay(t)) /\ UNCHANGED <<browser, down, agent, shared>>
  BY Records DEF EndOfStream
<1>2. CASE ~ gateway[t].terminal
  <2>1. Answers(t, <<"error">>)
    BY <1>1, <1>2 DEF Relay
  <2> QED
    BY <1>1, <2>1, FailsStep
<1>3. CASE gateway[t].terminal
  <2> DEFINE out == Relay(t)
  <2>1. Ready(agent[t])
    BY <1>1, <1>3 DEF Relaying
  <2>2. out \in {<<"evidence", "completed">>, <<"evidence", "delta", "completed">>}
    <3>1. CASE gateway[t].deltas = 0
      <4>1. [i \in 1 .. 0 |-> "delta"] = <<>>
        OBVIOUS
      <4>2. out = <<"evidence">> \o <<>> \o <<"completed">>
        BY <1>3, <3>1, <4>1, Zenon DEF Relay, Relayed
      <4>3. <<"evidence">> \o <<>> \o <<"completed">> = <<"evidence", "completed">>
        BY Concatenated
      <4> QED
        BY <4>2, <4>3
    <3>2. CASE gateway[t].deltas = 1
      <4>1. [i \in 1 .. 1 |-> "delta"] = <<"delta">>
        OBVIOUS
      <4>2. out = <<"evidence">> \o <<"delta">> \o <<"completed">>
        BY <1>3, <3>2, <4>1, Zenon DEF Relay, Relayed
      <4>3. <<"evidence">> \o <<"delta">> \o <<"completed">>
              = <<"evidence", "delta", "completed">>
        BY Concatenated
      <4> QED
        BY <4>2, <4>3
    <3> QED
      BY <1>1, <3>1, <3>2 DEF Gateway
  <2> HIDE DEF out
  <2>3. out \in Seq(Event) /\ Len(out) <= 3 /\ Len(out) <= 4 /\ out # <<>>
    <3>1. CASE out = <<"evidence", "completed">>
      BY <3>1 DEF Event
    <3>2. CASE out = <<"evidence", "delta", "completed">>
      BY <3>2 DEF Event
    <3> QED
      BY <2>2, <3>1, <3>2
  <2>4. out \in Events
    BY <2>3, EventsAreSequences
  <2>5. out[1] \in Protocol!After("started")
    BY <2>2 DEF Protocol!After
  <2>6. \A event : Vouched(agent[t], event) \/ event = "abstained"
    BY <2>1 DEF Vouched, Sound
  <2>7. \A i \in DOMAIN out :
           /\ Vouched(agent[t], out[i])
           /\ i + 1 \in DOMAIN out => out[i + 1] \in Protocol!After(out[i])
    <3>1. CASE out = <<"evidence", "completed">>
      BY <2>6, <3>1 DEF Protocol!After, Protocol!Terminal
    <3>2. CASE out = <<"evidence", "delta", "completed">>
      BY <2>6, <3>2 DEF Protocol!After, Protocol!Terminal
    <3> QED
      BY <2>2, <3>1, <3>2
  <2>8. Answers(t, out)
    BY <1>1 DEF out
  <2> QED
    BY <1>1, <2>3, <2>4, <2>5, <2>7, <2>8, AnswersStep
<1> QED
  BY <1>2, <1>3

\* The handler writes the next event.
LEMMA WriteEventStep == ASSUME IInv, NEW t \in Turns, WriteEvent(t) PROVE IInv'
<1> DEFINE out == gateway[t].out
           g == [gateway[t] EXCEPT !.out = Tail(out)]
           d == Writes(down[t], Head(out))
<1>1. /\ Upstream(agent[t], up[t]) /\ Relaying(agent[t], up[t], gateway[t])
      /\ Downstream(agent[t], gateway[t], down[t], browser[t])
      /\ up[t] \in Stream /\ down[t] \in Stream
      /\ gateway[t].pc = "writing" /\ out # <<>> /\ out \in Events
  BY Records DEF WriteEvent, Gateway
<1>2. /\ Head(out) = out[1] /\ 1 \in DOMAIN out /\ Tail(out) \in Events
      /\ Len(Tail(out)) = Len(out) - 1
      /\ \A i \in DOMAIN Tail(out) : i + 1 \in DOMAIN out /\ Tail(out)[i] = out[i + 1]
  BY <1>1, Rest
<1>3. out[1] \in Event /\ Len(out) \in 1 .. 4
  BY <1>1, <1>2, EventsOf
<1>4. /\ g \in Gateway /\ g.pc = "writing" /\ g.out = Tail(out)
      /\ g.terminal = gateway[t].terminal /\ g.deltas = gateway[t].deltas
  BY <1>1, <1>2, Records DEF Gateway
<1>5. /\ up' = [up EXCEPT ![t] = up[t]] /\ gateway' = [gateway EXCEPT ![t] = g]
      /\ down' = [down EXCEPT ![t] = d] /\ UNCHANGED <<browser, agent, shared>>
  BY Records DEF WriteEvent, AfterWrite
<1>6. /\ down[t].sent \in Events /\ Len(down[t].sent) \in 0 .. 4
      /\ DOMAIN down[t].sent = 1 .. Len(down[t].sent) /\ down[t].read \in 0 .. 4
      /\ down[t].read <= Len(down[t].sent)
  BY <1>1, EventsOf DEF Stream, Downstream
<1>7. \A i \in DOMAIN out :
         /\ Vouched(agent[t], out[i])
         /\ i + 1 \in DOMAIN out => out[i + 1] \in Protocol!After(out[i])
  BY <1>1 DEF Relaying
<1>8. /\ \A i \in DOMAIN down[t].sent : Vouched(agent[t], down[t].sent[i])
      /\ browser[t].pc # "idle"
      /\ down[t].link = "open" => Len(down[t].sent) + Len(out) <= 4
      /\ browser[t].shown = "abstained" => agent[t].status = "abstained"
  BY <1>1 DEF Downstream
<1>9. /\ d \in Stream /\ d.read <= Len(d.sent)
      /\ \A i \in DOMAIN d.sent : Vouched(agent[t], d.sent[i])
      /\ d.link = "open" => Len(d.sent) + Len(Tail(out)) <= 4 /\ LastOf(d.sent) = out[1]
  <2>1. CASE down[t].link # "open"
    <3>1. d = down[t]
      BY <2>1 DEF Writes
    <3> QED
      BY <1>1, <1>6, <1>8, <2>1, <3>1
  <2>2. CASE down[t].link = "open"
    <3> DEFINE s == Append(down[t].sent, out[1])
    <3>1. PICK m \in 0 .. 4, n \in 1 .. 4 : m = Len(down[t].sent) /\ n = Len(out)
      BY <1>3, <1>6
    <3>2. m + n <= 4
      BY <1>8, <2>2, <3>1
    <3>3. Len(down[t].sent) < 4
      <4>1. \A j \in 0 .. 4, k \in 1 .. 4 : j + k <= 4 => j < 4
        OBVIOUS
      <4> QED
        BY <3>1, <3>2, <4>1
    <3>4. /\ s \in Events /\ Len(s) = m + 1 /\ DOMAIN s = 1 .. m + 1
          /\ \A i \in DOMAIN down[t].sent : s[i] = down[t].sent[i]
          /\ s[m + 1] = out[1] /\ LastOf(s) = out[1]
      BY <1>3, <1>6, <3>1, <3>3, Written
    <3>5. /\ d \in Stream /\ d.sent = s /\ d.read = down[t].read
      BY <1>1, <1>2, <2>2, <3>4 DEF Writes, Stream
    <3> HIDE DEF s, d
    <3>6. DOMAIN down[t].sent = 1 .. m /\ down[t].read <= m
      BY <1>6, <3>1
    <3>7. Len(Tail(out)) = n - 1
      BY <1>2, <3>1
    <3>8. d.read <= Len(d.sent) /\ Len(d.sent) + Len(Tail(out)) <= 4
      BY <1>6, <3>2, <3>4, <3>5, <3>6, <3>7
    <3>9. \A i \in DOMAIN d.sent : i \in 1 .. m \/ i = m + 1
      BY <3>4, <3>5
    <3>10. \A i \in DOMAIN d.sent : Vouched(agent[t], d.sent[i])
      BY <1>2, <1>7, <1>8, <3>4, <3>5, <3>6, <3>9
    <3> QED
      BY <3>4, <3>5, <3>8, <3>10
  <2> QED
    BY <2>1, <2>2
<1> HIDE DEF g, d
<1>10. Relaying(agent[t], up[t], g)
  <2>1. \A i \in DOMAIN g.out : Vouched(agent[t], g.out[i])
    BY <1>2, <1>4, <1>7
  <2>2. ASSUME NEW i \in DOMAIN g.out, i + 1 \in DOMAIN g.out
        PROVE  g.out[i + 1] \in Protocol!After(g.out[i])
    BY <1>2, <1>4, <1>7, <2>2
  <2> QED
    BY <1>1, <1>4, <2>1, <2>2 DEF Relaying
<1>11. Downstream(agent[t], g, d, browser[t])
  <2>1. ASSUME g.out # <<>>
        PROVE  g.out[1] \in Protocol!After(out[1])
    <3>1. 1 \in DOMAIN Tail(out)
      BY <1>2, <1>4, <2>1, EventsOf
    <3>2. 1 + 1 \in DOMAIN out /\ Tail(out)[1] = out[1 + 1]
      BY <1>2, <3>1
    <3> QED
      BY <1>2, <1>4, <1>7, <3>2
  <2> QED
    BY <1>4, <1>8, <1>9, <2>1 DEF Downstream
<1> QED
  BY <1>1, <1>4, <1>5, <1>9, <1>10, <1>11, GatewayMoves

LEMMA ReturnStep == ASSUME IInv, NEW t \in Turns, Return(t) PROVE IInv'
<1> DEFINE g == [gateway[t] EXCEPT !.pc = "done"]
           d == Ended(down[t])
<1>1. /\ Upstream(agent[t], up[t]) /\ up[t] \in Stream
      /\ Relaying(agent[t], up[t], gateway[t])
      /\ Downstream(agent[t], gateway[t], down[t], browser[t])
      /\ gateway[t].pc = "writing"
  BY Records DEF Return
<1>2. /\ g \in Gateway /\ g.pc = "done" /\ g.out = gateway[t].out
      /\ g.terminal = gateway[t].terminal /\ g.deltas = gateway[t].deltas
  BY Records DEF Gateway
<1>3. d \in Stream /\ d.sent = down[t].sent /\ d.read = down[t].read /\ d.link # "open"
  BY Records DEF Ended, Stream
<1>4. /\ up' = [up EXCEPT ![t] = up[t]] /\ gateway' = [gateway EXCEPT ![t] = g]
      /\ down' = [down EXCEPT ![t] = d] /\ UNCHANGED <<browser, agent, shared>>
  BY Records DEF Return
<1> HIDE DEF g, d
<1>5. Relaying(agent[t], up[t], g)
  BY <1>1, <1>2 DEF Relaying
<1>6. Downstream(agent[t], g, d, browser[t])
  BY <1>1, <1>2, <1>3 DEF Downstream
<1> QED
  BY <1>1, <1>2, <1>3, <1>4, <1>5, <1>6, GatewayMoves

-----------------------------------------------------------------------------
(* Invariance.                                                             *)

LEMMA InitIInv == ASSUME Init PROVE IInv
<1>1. <<>> \in Events
  <2>1. <<>> \in Seq(Event) /\ Len(<<>>) <= 4
    OBVIOUS
  <2> QED
    BY <2>1, EventsAreSequences
<1>2. TypeOK
  BY <1>1 DEF Init, AgentInit, NoStream, TypeOK, AgentTypeOK, Agent, Stream, Gateway,
              Browser
<1>3. ASSUME NEW t \in Turns
      PROVE  Consistent(agent[t], up[t], gateway[t], down[t], browser[t])
  <2>1. /\ agent[t].pc = "idle" /\ agent[t].out = <<>> /\ agent[t].status = None
        /\ up[t] = NoStream /\ down[t] = NoStream
        /\ gateway[t].pc = "idle" /\ gateway[t].out = <<>> /\ ~ gateway[t].terminal
        /\ gateway[t].deltas = 0
        /\ browser[t].pc = "idle" /\ browser[t].shown = "nothing"
    BY <1>3 DEF Init, AgentInit, Threads
  <2>2. /\ NoStream.link = "none" /\ NoStream.sent = <<>> /\ NoStream.read = 0
        /\ DOMAIN NoStream.sent = {} /\ Len(NoStream.sent) = 0
    BY DEF NoStream
  <2> HIDE DEF NoStream
  <2>3. NoStream.read <= Len(NoStream.sent)
    BY <2>2
  <2>4. Upstream(agent[t], up[t])
    BY <2>1, <2>2, <2>3 DEF Upstream, Work
  <2>5. Relaying(agent[t], up[t], gateway[t])
    BY <2>1 DEF Relaying
  <2>6. Downstream(agent[t], gateway[t], down[t], browser[t])
    BY <2>1, <2>2, <2>3 DEF Downstream
  <2> QED
    BY <2>4, <2>5, <2>6 DEF Consistent
<1> QED
  BY <1>2, <1>3 DEF IInv, TurnsAreConsistent

LEMMA NextIInv == ASSUME IInv, [Next]_vars PROVE IInv'
<1>1. CASE UNCHANGED vars
  BY <1>1 DEF vars, agentVars, IInv, TypeOK, AgentTypeOK, TurnsAreConsistent
<1>2. ASSUME NEW t \in Turns, BrowserNext(t) \/ Submit(t) \/ Abort(t) \/ Cut(t)
      PROVE  IInv'
  BY <1>2, SubmitStep, AbortStep, CutStep, ReceiveStep, FallbackStep DEF BrowserNext
<1>3. ASSUME NEW t \in Turns, GatewayNext(t)
      PROVE  IInv'
  BY <1>3, RefuseStep, AcceptStep, FailsToAskStep, AsksAgentStep, handleEventStep,
     EndOfStreamStep, StreamErrorStep, TimeoutStep, CancelledStep, WriteEventStep,
     ReturnStep DEF GatewayNext
<1>4. ASSUME NEW t \in Turns, StreamNext(t)
      PROVE  IInv'
  BY <1>4, RunStep, AgentWritesStep, AgentEndsStep DEF StreamNext
<1> QED
  BY <1>1, <1>2, <1>3, <1>4 DEF Next

\* In every reachable state the records of each turn agree.
THEOREM Invariance == Spec => []IInv
<1>1. Init => IInv
  BY InitIInv
<1>2. IInv /\ [Next]_vars => IInv'
  BY NextIInv
<1> QED
  BY <1>1, <1>2, PTL DEF Spec

\* The processes and the streams keep the values of their variables.
THEOREM TypeCorrect == Spec => []TypeOK
<1>1. IInv => TypeOK
  BY DEF IInv
<1> QED
  BY <1>1, Invariance, PTL

\* Nothing of an answer reaches the browser unless the agent validated it.
THEOREM Validation == Spec => []ShownIsValidated
<1>1. ASSUME IInv, NEW t \in Turns
      PROVE  /\ \A i \in DOMAIN down[t].sent : Vouched(agent[t], down[t].sent[i])
             /\ browser[t].shown = "abstained" => agent[t].status = "abstained"
  BY <1>1, Records DEF Downstream
<1>2. IInv => ShownIsValidated
  BY <1>1 DEF ShownIsValidated, Vouched, Sound, Ready
<1> QED
  BY <1>2, Invariance, PTL

-----------------------------------------------------------------------------
(* The contract of the event stream.                                       *)

AbstractLast == [t \in Turns |-> LastOf(down[t].sent)]

\* A step of one turn changes the latest event of its stream, and no other.
LEMMA LastMoves ==
    ASSUME IInv, NEW t \in Turns, NEW d \in Stream,
           down' = [down EXCEPT ![t] = d],
           d.sent = down[t].sent
              \/ /\ LastOf(d.sent) \in Event
                 /\ LastOf(d.sent) \in Protocol!After(LastOf(down[t].sent))
    PROVE  [Protocol!Next]_AbstractLast
<1>1. down \in [Turns -> Stream]
  BY Records
<1>2. AbstractLast' = [AbstractLast EXCEPT ![t] = LastOf(d.sent)]
  BY <1>1 DEF AbstractLast
<1>3. CASE d.sent = down[t].sent
  BY <1>2, <1>3 DEF AbstractLast
<1>4. CASE d.sent # down[t].sent
  <2>1. LastOf(d.sent) \in Protocol!After(AbstractLast[t])
    BY <1>4 DEF AbstractLast
  <2>2. Protocol!Emit(t, LastOf(d.sent))
    BY <1>2, <2>1 DEF Protocol!Emit, AbstractLast
  <2>3. LastOf(d.sent) \in Protocol!Event
    BY <1>4 DEF Event, Protocol!Event, Protocol!Terminal
  <2> QED
    BY <2>2, <2>3 DEF Protocol!Next
<1> QED
  BY <1>3, <1>4

LEMMA Quiet ==
    ASSUME IInv, NEW t \in Turns, NEW d,
           down' = [down EXCEPT ![t] = d],
           StopsAt(d, down[t]) \/ (Unread(down[t]) /\ d = Reads(down[t]))
    PROVE  [Protocol!Next]_AbstractLast
<1>1. down[t] \in Stream
  BY Records
<1>2. d \in Stream /\ d.sent = down[t].sent
  BY <1>1, ReadsEvent DEF StopsAt
<1> QED
  BY <1>2, LastMoves

LEMMA WriteRefines ==
    ASSUME IInv, NEW t \in Turns, WriteEvent(t)
    PROVE  [Protocol!Next]_AbstractLast
<1> DEFINE out == gateway[t].out
           d == Writes(down[t], Head(out))
<1>1. /\ down[t] \in Stream /\ out \in Events /\ out # <<>>
      /\ down' = [down EXCEPT ![t] = d]
      /\ Downstream(agent[t], gateway[t], down[t], browser[t])
  BY Records DEF WriteEvent, Gateway
<1>2. CASE down[t].link # "open"
  <2>1. d = down[t]
    BY <1>2 DEF Writes
  <2>2. StopsAt(d, down[t])
    BY <1>1, <2>1, Stops
  <2> QED
    BY <1>1, <2>2, Quiet
<1>3. CASE down[t].link = "open"
  <2>1. /\ out[1] \in Event /\ Head(out) = out[1]
        /\ out[1] \in Protocol!After(LastOf(down[t].sent))
    BY <1>1, <1>3, Rest, EventsOf DEF Downstream
  <2>2. Len(down[t].sent) < 4
    <3>1. Len(down[t].sent) \in 0 .. 4 /\ Len(out) \in 0 .. 4 /\ Len(out) > 0
      BY <1>1, EventsOf DEF Stream
    <3>2. Len(down[t].sent) + Len(out) <= 4
      BY <1>1, <1>3 DEF Downstream
    <3>3. \A j \in 0 .. 4, k \in 0 .. 4 : k > 0 /\ j + k <= 4 => j < 4
      OBVIOUS
    <3> QED
      BY <3>1, <3>2, <3>3
  <2>3. down[t].sent \in Events
    BY <1>1 DEF Stream
  <2>4. /\ Append(down[t].sent, out[1]) \in Events
        /\ LastOf(Append(down[t].sent, out[1])) = out[1]
    BY <2>1, <2>2, <2>3, Written
  <2>5. d \in Stream /\ d.sent = Append(down[t].sent, out[1])
    BY <1>1, <1>3, <2>1, <2>4 DEF Writes, Stream
  <2> HIDE DEF d, out
  <2> QED
    BY <1>1, <2>1, <2>4, <2>5, LastMoves
<1> QED
  BY <1>2, <1>3

LEMMA AcceptRefines ==
    ASSUME IInv, NEW t \in Turns, Accept(t)
    PROVE  [Protocol!Next]_AbstractLast
<1> DEFINE d == Writes(down[t], "started")
<1>1. /\ down[t] \in Stream /\ down[t].sent = <<>>
      /\ down' = [down EXCEPT ![t] = d]
  BY Records DEF Accept, Downstream
<1>2. /\ <<"started">> \in Events /\ LastOf(<<"started">>) = "started"
      /\ "started" \in Event
  BY Single DEF Event
<1>3. Append(<<>>, "started") = <<"started">>
  OBVIOUS
<1>4. d \in Stream /\ d.sent = <<"started">>
  BY <1>1, <1>2, <1>3 DEF Accept, Writes, Stream
<1>5. "started" \in Protocol!After(LastOf(down[t].sent))
  BY <1>1 DEF Protocol!After, LastOf
<1> HIDE DEF d
<1> QED
  BY <1>1, <1>2, <1>4, <1>5, LastMoves

LEMMA NextRefines ==
    ASSUME IInv, [Next]_vars
    PROVE  [Protocol!Next]_AbstractLast
<1>1. CASE UNCHANGED down
  BY <1>1 DEF AbstractLast
<1>2. ASSUME NEW t \in Turns, Submit(t)
      PROVE  [Protocol!Next]_AbstractLast
  <2> DEFINE d == [down[t] EXCEPT !.link = "open"]
  <2>1. d \in Stream /\ d.sent = down[t].sent
    BY Records DEF Stream
  <2>2. down' = [down EXCEPT ![t] = d]
    BY <1>2 DEF Submit
  <2> QED
    BY <2>1, <2>2, LastMoves
<1>3. ASSUME NEW t \in Turns, Abort(t) \/ Cut(t) \/ Refuse(t) \/ Return(t) \/ Receive(t)
      PROVE  [Protocol!Next]_AbstractLast
  <2>1. PICK d \in {down[t], Broken(down[t]), Ended(down[t]), Reads(down[t])} :
           /\ down' = [down EXCEPT ![t] = d]
           /\ d = Reads(down[t]) => Receive(t) \/ StopsAt(d, down[t])
    <3>1. CASE Receive(t)
      BY <3>1 DEF Receive
    <3>2. CASE Abort(t) \/ Refuse(t)
      BY <3>2, Records, Stops DEF Abort, Refuse
    <3>3. CASE Return(t)
      BY <3>3, Records, Stops DEF Return
    <3>4. CASE Cut(t)
      BY <3>4, Records, Stops DEF Cut
    <3> QED
      BY <1>3, <3>1, <3>2, <3>3, <3>4
  <2>2. StopsAt(d, down[t]) \/ (Unread(down[t]) /\ d = Reads(down[t]))
    BY <2>1, Records, Stops DEF Receive
  <2> QED
    BY <2>1, <2>2, Quiet
<1>4. ASSUME NEW t \in Turns,
             Fallback(t) \/ FailsToAsk(t) \/ AsksAgent(t) \/ handleEvent(t)
               \/ EndOfStream(t) \/ StreamError(t) \/ Timeout(t) \/ Cancelled(t)
               \/ StreamNext(t)
      PROVE  UNCHANGED down
  BY <1>4 DEF Fallback, FailsToAsk, AsksAgent, handleEvent, EndOfStream, StreamError,
              Timeout, Cancelled, StreamNext, AgentWrites, AgentEnds
<1>5. CASE UNCHANGED vars
  BY <1>1, <1>5 DEF vars
<1>6. CASE Next
  <2>1. PICK t \in Turns : \/ Submit(t) \/ Abort(t) \/ Cut(t)
                           \/ BrowserNext(t) \/ GatewayNext(t) \/ StreamNext(t)
    BY <1>6 DEF Next
  <2> QED
    BY <1>1, <1>2, <1>3, <1>4, <2>1, WriteRefines, AcceptRefines
       DEF BrowserNext, GatewayNext
<1> QED
  BY <1>5, <1>6

\* The stream the browser reads keeps the order of the contract's events, with
\* one end and nothing after it.
THEOREM Refinement == Spec => ImplementsProtocol
<1>1. Init => Protocol!Init
  <2> SUFFICES ASSUME Init PROVE AbstractLast = [t \in Turns |-> "none"]
    BY DEF Protocol!Init, AbstractLast
  <2>1. \A t \in Turns : down[t].sent = <<>>
    BY DEF Init, NoStream
  <2> QED
    BY <2>1 DEF AbstractLast, LastOf
<1>2. IInv /\ [Next]_vars => [Protocol!Next]_AbstractLast
  BY NextRefines
<1>3. [Protocol!Next]_AbstractLast = [Protocol!Next]_([t \in Turns |-> LastOf(down[t].sent)])
  BY DEF AbstractLast
<1> QED
  BY <1>1, <1>2, <1>3, Invariance, PTL DEF Spec, ImplementsProtocol, Protocol!Spec, AbstractLast

-----------------------------------------------------------------------------
(* What an answer says of its graph search, when no two threads search at  *)
(* once, be it for questions or for evaluation cases.  All share the       *)
(* attributes of the retrievers, so each turn must find there what its own *)
(* search left.  These are theorems of AgentSpec, where executions run and *)
(* questions may be asked at any time.                                     *)

Searches(t) ==
    agent[t].pc \in {"searching", "enriching", "copying", "selecting", "describing"}

SearchesAreApart == \A t, u \in Threads : Searches(t) /\ Searches(u) => t = u

\* The attributes that the thread reads next are its own or cleared.
FindsItsOwn(t) ==
    /\ agent[t].pc \in {"enriching", "copying"} => Hybrid(t)
    /\ agent[t].pc \in {"searching", "enriching"} /\ Hybrid(t) => shared["hybrid"] = None
    /\ agent[t].pc = "copying" => shared["graph"] = t
    /\ agent[t].pc = "selecting" /\ Hybrid(t) => shared["hybrid"] \in {t, None}
    /\ agent[t].pc = "describing" => shared["strategy"] \in {t, None}
    /\ agent[t].described \in {t, None}

ThreadsFindTheirOwn == \A t \in Threads : FindsItsOwn(t)

\* A thread moves without touching the attributes, or before or after its search.
LEMMA MovesAside ==
    ASSUME AgentTypeOK, ThreadsFindTheirOwn, NEW t \in Threads, NEW a \in Agent,
           agent' = [agent EXCEPT ![t] = a], UNCHANGED shared,
           a.described = agent[t].described,
           a.pc \in {"idle", "retrieving", "generating", "validating", "writing", "done"}
    PROVE  ThreadsFindTheirOwn'
<1>1. ASSUME NEW x \in Threads
      PROVE  FindsItsOwn(x)'
  <2>1. FindsItsOwn(x) /\ agent'[x] = IF x = t THEN a ELSE agent[x]
    BY DEF ThreadsFindTheirOwn, AgentTypeOK
  <2> QED
    BY <2>1 DEF FindsItsOwn, Hybrid
<1> QED
  BY <1>1 DEF ThreadsFindTheirOwn

\* The thread that searches is the only one to depend on what it changes.
LEMMA SearchMoves ==
    ASSUME AgentTypeOK, ThreadsFindTheirOwn, SearchesAreApart, NEW t \in Threads, Searches(t),
           NEW a \in Agent, agent' = [agent EXCEPT ![t] = a],
           FindsItsOwn(t)'
    PROVE  ThreadsFindTheirOwn'
<1>1. ASSUME NEW x \in Threads, x # t
      PROVE  FindsItsOwn(x)'
  <2>1. FindsItsOwn(x) /\ agent'[x] = agent[x]
    BY <1>1 DEF ThreadsFindTheirOwn, AgentTypeOK
  <2>2. ~ Searches(x)
    BY <1>1 DEF SearchesAreApart
  <2> QED
    BY <2>1, <2>2 DEF FindsItsOwn, Searches
<1> QED
  BY <1>1 DEF ThreadsFindTheirOwn

LEMMA SearchFindsItsOwn ==
    ASSUME AgentTypeOK, ThreadsFindTheirOwn, SearchesAreApart, NEW t \in Threads, Search(t)
    PROVE  ThreadsFindTheirOwn'
<1>1. /\ agent \in [Threads -> Agent] /\ agent[t] \in Agent
      /\ shared \in [Cells -> Threads \cup {None}]
      /\ FindsItsOwn(t)
  BY DEF ThreadsFindTheirOwn, AgentTypeOK
<1>2. CASE Clear(t)
  <2> DEFINE a == [agent[t] EXCEPT !.pc = "searching"]
  <2>1. /\ a \in Agent /\ a.pc = "searching" /\ a.strategy = agent[t].strategy
        /\ a.described = agent[t].described
        /\ agent' = [agent EXCEPT ![t] = a]
    BY <1>1, <1>2 DEF Clear, Step, Agent, Work
  <2> HIDE DEF a
  <2>2. ASSUME NEW x \in Threads
        PROVE  FindsItsOwn(x)'
    <3>1. FindsItsOwn(x) /\ agent'[x] = IF x = t THEN a ELSE agent[x]
      BY <1>1, <2>1 DEF ThreadsFindTheirOwn
    <3>2. shared' = shared
             \/ /\ shared'["hybrid"] = None
                /\ shared'["graph"] = shared["graph"]
                /\ shared'["strategy"] = shared["strategy"]
      BY <1>1, <1>2 DEF Clear, Cells
    <3>3. Hybrid(t) => shared'["hybrid"] = None
      BY <1>1, <1>2 DEF Clear, Cells
    <3> QED
      BY <2>1, <3>1, <3>2, <3>3 DEF FindsItsOwn, Hybrid
  <2> QED
    BY <2>2 DEF ThreadsFindTheirOwn
<1>3. ASSUME Searches(t),
             NEW a \in Agent, a.strategy = agent[t].strategy,
             agent' = [agent EXCEPT ![t] = a],
             /\ a.described = agent[t].described
             /\ \/ a.pc = "enriching" /\ Hybrid(t) /\ shared'["hybrid"] = None
                \/ a.pc = "copying" /\ Hybrid(t) /\ shared'["graph"] = t
                \/ a.pc = "selecting" /\ (Hybrid(t) => shared'["hybrid"] \in {t, None})
                \/ /\ a.pc \in {"describing", "generating"}
                   /\ shared'["strategy"] \in {t, None}
      PROVE  ThreadsFindTheirOwn'
  <2>1. agent'[t] = a
    BY <1>1, <1>3
  <2>2. FindsItsOwn(t)'
    BY <1>1, <1>3, <2>1 DEF FindsItsOwn, Hybrid
  <2> QED
    BY <1>3, <2>2, SearchMoves
<1>4. CASE SearchVectors(t)
  <2>1. PICK evidence \in BOOLEAN :
           agent' = [agent EXCEPT ![t] = [@ EXCEPT
                       !.evidence = evidence,
                       !.pc = IF Hybrid(t) THEN "enriching" ELSE "selecting"]]
    BY <1>4 DEF SearchVectors
  <2> DEFINE a == [agent[t] EXCEPT !.evidence = evidence,
                                   !.pc = IF Hybrid(t) THEN "enriching" ELSE "selecting"]
  <2>2. /\ a \in Agent /\ a.strategy = agent[t].strategy
        /\ a.described = agent[t].described
        /\ a.pc = IF Hybrid(t) THEN "enriching" ELSE "selecting"
        /\ agent' = [agent EXCEPT ![t] = a]
    BY <1>1, <2>1 DEF Agent, Work
  <2> HIDE DEF a
  <2>3. Searches(t) /\ (Hybrid(t) => shared'["hybrid"] = None)
    BY <1>1, <1>4 DEF SearchVectors, Searches, FindsItsOwn
  <2> QED
    BY <1>3, <2>2, <2>3
<1>5. CASE SearchGraph(t)
  <2>1. PICK evidence \in BOOLEAN :
           agent' = [agent EXCEPT ![t] = [@ EXCEPT !.pc = "copying", !.evidence = evidence]]
    BY <1>5 DEF SearchGraph
  <2> DEFINE a == [agent[t] EXCEPT !.pc = "copying", !.evidence = evidence]
  <2>2. /\ a \in Agent /\ a.strategy = agent[t].strategy
        /\ a.described = agent[t].described /\ a.pc = "copying"
        /\ agent' = [agent EXCEPT ![t] = a]
    BY <1>1, <2>1 DEF Agent, Work
  <2> HIDE DEF a
  <2>3. Searches(t) /\ Hybrid(t) /\ shared'["graph"] = t
    BY <1>1, <1>5 DEF SearchGraph, Searches, FindsItsOwn, Cells
  <2> QED
    BY <1>3, <2>2, <2>3
<1>6. CASE SkipGraph(t) \/ CopyPath(t)
  <2> DEFINE a == [agent[t] EXCEPT !.pc = "selecting"]
  <2>1. /\ a \in Agent /\ a.strategy = agent[t].strategy
        /\ a.described = agent[t].described /\ a.pc = "selecting"
        /\ agent' = [agent EXCEPT ![t] = a]
    BY <1>1, <1>6 DEF SkipGraph, CopyPath, Step, Agent, Work
  <2> HIDE DEF a
  <2>2. Searches(t) /\ shared'["hybrid"] \in {t, None}
    BY <1>1, <1>6 DEF SkipGraph, CopyPath, Step, Searches, FindsItsOwn, Cells
  <2> QED
    BY <1>3, <2>1, <2>2
<1>7. CASE Select(t)
  <2> DEFINE a == [agent[t] EXCEPT !.pc = IF t \in Turns THEN "describing" ELSE "generating"]
  <2>1. /\ a \in Agent /\ a.strategy = agent[t].strategy
        /\ a.described = agent[t].described /\ a.pc \in {"describing", "generating"}
        /\ agent' = [agent EXCEPT ![t] = a]
    BY <1>1, <1>7 DEF Select, Step, Agent, Work
  <2> HIDE DEF a
  <2>2. Searches(t) /\ shared'["strategy"] \in {t, None}
    BY <1>1, <1>7 DEF Select, Step, Searches, FindsItsOwn, Cells
  <2> QED
    BY <1>3, <2>1, <2>2
<1> QED
  BY <1>2, <1>4, <1>5, <1>6, <1>7 DEF Search

LEMMA RunFindsItsOwn ==
    ASSUME AgentTypeOK, ThreadsFindTheirOwn, SearchesAreApart, NEW t \in Turns, Run(t)
    PROVE  ThreadsFindTheirOwn'
<1>1. /\ agent \in [Threads -> Agent] /\ agent[t] \in Agent /\ t \in Threads
      /\ shared \in [Cells -> Threads \cup {None}]
      /\ FindsItsOwn(t)
  BY DEF ThreadsFindTheirOwn, AgentTypeOK, Threads
<1>8. CASE Describe(t)
  <2> DEFINE a == [agent[t] EXCEPT !.pc = "generating", !.described = shared["strategy"]]
  <2>1. /\ a \in Agent /\ a.pc = "generating" /\ a.described = shared["strategy"]
        /\ agent' = [agent EXCEPT ![t] = a]
    BY <1>1, <1>8 DEF Describe, Agent, Work, Cells
  <2> HIDE DEF a
  <2>2. Searches(t) /\ shared["strategy"] \in {t, None}
    BY <1>1, <1>8 DEF Describe, Searches, FindsItsOwn
  <2>3. agent'[t] = a
    BY <1>1, <2>1
  <2>4. FindsItsOwn(t)'
    BY <2>1, <2>2, <2>3 DEF FindsItsOwn
  <2> QED
    BY <1>1, <2>1, <2>2, <2>4, SearchMoves
<1>9. CASE Generate(t)
  <2>1. PICK answer \in {"scope limited", "unsupported", "grounded"} :
           agent' = [agent EXCEPT ![t] = [@ EXCEPT !.pc = "validating", !.answer = answer]]
    BY <1>9 DEF Generate
  <2> DEFINE a == [agent[t] EXCEPT !.pc = "validating", !.answer = answer]
  <2>2. /\ a \in Agent /\ a.described = agent[t].described /\ a.pc = "validating"
        /\ agent' = [agent EXCEPT ![t] = a]
    BY <1>1, <2>1 DEF Agent, Work
  <2> HIDE DEF a
  <2> QED
    BY <1>1, <1>9, <2>2, MovesAside DEF Generate
<1>10. ASSUME NEW status, NEW out \in Events, status \in {None, "completed", "abstained"},
              Result(t, status, out)
       PROVE  ThreadsFindTheirOwn'
  <2> DEFINE a == [agent[t] EXCEPT !.pc = "writing", !.status = status, !.out = out]
  <2>1. /\ a \in Agent /\ a.described = agent[t].described /\ a.pc = "writing"
        /\ agent' = [agent EXCEPT ![t] = a] /\ UNCHANGED shared
    BY <1>1, <1>10 DEF Result, Agent, Work
  <2> HIDE DEF a
  <2> QED
    BY <1>1, <2>1, MovesAside
<1>11. CASE Validate(t)
  <2>1. PICK status \in {"completed", "abstained"} :
           Result(t, status, <<"evidence", "delta", status>>)
    BY <1>11 DEF Validate
  <2>2. /\ <<"evidence", "delta", status>> \in Seq(Event)
        /\ Len(<<"evidence", "delta", status>>) <= 4
    BY DEF Event
  <2>3. <<"evidence", "delta", status>> \in Events
    BY <2>2, EventsAreSequences
  <2> QED
    BY <1>10, <2>1, <2>3
<1>12. CASE Raise(t)
  <2>1. <<"error">> \in Seq(Event) /\ Len(<<"error">>) <= 4
    BY DEF Event
  <2>2. <<"error">> \in Events
    BY <2>1, EventsAreSequences
  <2> QED
    BY <1>10, <1>12, <2>2 DEF Raise
<1> QED
  BY <1>1, <1>8, <1>9, <1>11, <1>12, SearchFindsItsOwn DEF Run

\* The execution returns or fails, wherever it is.
LEMMA ExecuteFindsItsOwn ==
    ASSUME AgentTypeOK, ThreadsFindTheirOwn, SearchesAreApart,
           NEW x \in Executions, Execute(x)
    PROVE  ThreadsFindTheirOwn'
<1>1. x \in Threads /\ agent[x] \in Agent
  BY DEF Threads, AgentTypeOK
<1>2. ASSUME NEW pc \in {"retrieving", "done"},
             agent' = [agent EXCEPT ![x].pc = pc], UNCHANGED shared
      PROVE  ThreadsFindTheirOwn'
  <2> DEFINE a == [agent[x] EXCEPT !.pc = pc]
  <2>1. /\ a \in Agent /\ a.described = agent[x].described /\ a.pc = pc
        /\ agent' = [agent EXCEPT ![x] = a]
    BY <1>1, <1>2 DEF Agent, Work
  <2> HIDE DEF a
  <2> QED
    BY <1>1, <1>2, <2>1, MovesAside
<1> QED
  BY <1>1, <1>2, SearchFindsItsOwn DEF Execute, Begin, Leave

LEMMA NextFindsItsOwn ==
    ASSUME AgentTypeOK, ThreadsFindTheirOwn, SearchesAreApart, [AgentNext]_agentVars
    PROVE  ThreadsFindTheirOwn'
<1>1. CASE UNCHANGED agentVars
  <2>1. \A t \in Threads : FindsItsOwn(t) => FindsItsOwn(t)'
    BY <1>1 DEF agentVars, FindsItsOwn, Hybrid
  <2> QED
    BY <2>1 DEF ThreadsFindTheirOwn
<1>2. ASSUME NEW t \in Turns, Begin(t), UNCHANGED shared
      PROVE  ThreadsFindTheirOwn'
  <2> DEFINE a == [agent[t] EXCEPT !.pc = "retrieving"]
  <2>1. /\ a \in Agent /\ a.described = agent[t].described /\ a.pc = "retrieving"
        /\ agent' = [agent EXCEPT ![t] = a] /\ t \in Threads
    BY <1>2 DEF Begin, Agent, Work, AgentTypeOK, Threads
  <2> HIDE DEF a
  <2> QED
    BY <1>2, <2>1, MovesAside
<1> QED
  BY <1>1, <1>2, RunFindsItsOwn, ExecuteFindsItsOwn DEF AgentNext

\* The threads by themselves keep the values of their variables.
LEMMA AgentTypes == AgentTypeOK /\ [AgentNext]_agentVars => AgentTypeOK'
<1> SUFFICES ASSUME AgentTypeOK, [AgentNext]_agentVars PROVE AgentTypeOK'
  OBVIOUS
<1>1. /\ agent \in [Threads -> Agent] /\ shared \in [Cells -> Threads \cup {None}]
      /\ Turns \subseteq Threads /\ Executions \subseteq Threads
  BY DEF AgentTypeOK, Threads
<1>2. ASSUME NEW t \in Threads, NEW a \in Agent, agent' = [agent EXCEPT ![t] = a],
             shared' \in [Cells -> Threads \cup {None}]
      PROVE  AgentTypeOK'
  BY <1>1, <1>2 DEF AgentTypeOK
<1>3. ASSUME NEW t \in Threads, NEW pc \in Work \cup {"done"},
             agent' = [agent EXCEPT ![t].pc = pc],
             shared' \in [Cells -> Threads \cup {None}]
      PROVE  AgentTypeOK'
  <2>1. [agent[t] EXCEPT !.pc = pc] \in Agent
    BY <1>1, <1>3 DEF Agent
  <2> QED
    BY <1>2, <1>3, <2>1
<1>4. ASSUME NEW t \in Threads, Search(t)
      PROVE  AgentTypeOK'
  <2>1. CASE Clear(t)
    BY <1>1, <1>3, <2>1 DEF Clear, Step, Cells, Work
  <2>2. CASE SearchVectors(t)
    <3>1. PICK evidence \in BOOLEAN :
             agent' = [agent EXCEPT ![t] = [@ EXCEPT
                         !.evidence = evidence,
                         !.pc = IF Hybrid(t) THEN "enriching" ELSE "selecting"]]
      BY <2>2 DEF SearchVectors
    <3> DEFINE a == [agent[t] EXCEPT !.evidence = evidence,
                                     !.pc = IF Hybrid(t) THEN "enriching" ELSE "selecting"]
    <3>2. a \in Agent
      BY <1>1, <1>4 DEF Agent, Work
    <3>3. agent' = [agent EXCEPT ![t] = a]
      BY <3>1
    <3> QED
      BY <1>1, <1>2, <2>2, <3>2, <3>3 DEF SearchVectors
  <2>3. CASE SearchGraph(t)
    <3>1. PICK evidence \in BOOLEAN :
             agent' = [agent EXCEPT ![t] = [@ EXCEPT !.pc = "copying", !.evidence = evidence]]
      BY <2>3 DEF SearchGraph
    <3> DEFINE a == [agent[t] EXCEPT !.pc = "copying", !.evidence = evidence]
    <3>0. agent[t] \in Agent
      BY <1>1
    <3>2. a \in Agent
      BY <3>0 DEF Agent, Work
    <3>3. agent' = [agent EXCEPT ![t] = a] /\ shared' \in [Cells -> Threads \cup {None}]
      BY <1>1, <2>3, <3>1 DEF SearchGraph, Cells
    <3> QED
      BY <1>2, <3>2, <3>3
  <2>4. CASE SkipGraph(t) \/ CopyPath(t) \/ Select(t)
    BY <1>1, <1>3, <2>4 DEF SkipGraph, CopyPath, Select, Step, Cells, Work
  <2> QED
    BY <1>4, <2>1, <2>2, <2>3, <2>4 DEF Search
<1>5. ASSUME NEW t \in Turns, Describe(t) \/ Generate(t)
      PROVE  AgentTypeOK'
  <2>1. CASE Describe(t)
    <3> DEFINE a == [agent[t] EXCEPT !.pc = "generating", !.described = shared["strategy"]]
    <3>0. agent[t] \in Agent /\ shared["strategy"] \in Threads \cup {None}
      BY <1>1 DEF Cells
    <3>1. a \in Agent
      BY <3>0 DEF Agent, Work
    <3> QED
      BY <1>1, <1>2, <2>1, <3>1 DEF Describe
  <2>2. CASE Generate(t)
    <3>1. PICK answer \in {"scope limited", "unsupported", "grounded"} :
             agent' = [agent EXCEPT ![t] = [@ EXCEPT !.pc = "validating", !.answer = answer]]
      BY <2>2 DEF Generate
    <3> DEFINE a == [agent[t] EXCEPT !.pc = "validating", !.answer = answer]
    <3>0. agent[t] \in Agent
      BY <1>1
    <3>2. a \in Agent
      BY <3>0 DEF Agent, Work
    <3>3. agent' = [agent EXCEPT ![t] = a]
      BY <3>1
    <3> QED
      BY <1>1, <1>2, <2>2, <3>2, <3>3 DEF Generate
  <2> QED
    BY <1>5, <2>1, <2>2
<1>6. ASSUME NEW t \in Turns, Validate(t) \/ Raise(t)
      PROVE  AgentTypeOK'
  <2>1. PICK status \in {None, "completed", "abstained"},
             out \in {<<"evidence", "delta", "completed">>,
                       <<"evidence", "delta", "abstained">>, <<"error">>} :
           Result(t, status, out)
    BY <1>6 DEF Validate, Raise
  <2>a. /\ <<"evidence", "delta", "completed">> \in Seq(Event)
        /\ Len(<<"evidence", "delta", "completed">>) <= 4
    BY DEF Event
  <2>b. /\ <<"evidence", "delta", "abstained">> \in Seq(Event)
        /\ Len(<<"evidence", "delta", "abstained">>) <= 4
    BY DEF Event
  <2>c. <<"error">> \in Seq(Event) /\ Len(<<"error">>) <= 4
    BY DEF Event
  <2>2. out \in Seq(Event) /\ Len(out) <= 4
    BY <2>a, <2>b, <2>c
  <2>3. out \in Events
    BY <2>2, EventsAreSequences
  <2> DEFINE a == [agent[t] EXCEPT !.pc = "writing", !.status = status, !.out = out]
  <2>5. agent[t] \in Agent
    BY <1>1
  <2>4. a \in Agent
    BY <2>3, <2>5 DEF Agent
  <2> QED
    BY <1>1, <1>2, <2>1, <2>4 DEF Result
<1>7. ASSUME NEW t \in Threads, (Begin(t) /\ UNCHANGED shared) \/ Leave(t)
      PROVE  AgentTypeOK'
  BY <1>1, <1>3, <1>7 DEF Begin, Leave, Work
<1> QED
  BY <1>1, <1>4, <1>5, <1>6, <1>7 DEF AgentNext, Run, Execute, agentVars, AgentTypeOK

\* When no two threads of the agent, of questions or of evaluation cases, are
\* at once between the start of a search and the reading of what it left,
\* every answer describes its own graph search or none.  The retriever that
\* the threads share is all that breaks it.
THEOREM SearchesApartAreScoped == AgentSpec /\ []SearchesAreApart => []InspectionIsScoped
<1>1. AgentInit => AgentTypeOK /\ ThreadsFindTheirOwn
  <2> SUFFICES ASSUME AgentInit PROVE AgentTypeOK /\ ThreadsFindTheirOwn
    OBVIOUS
  <2>1. <<>> \in Seq(Event) /\ Len(<<>>) <= 4
    OBVIOUS
  <2>2. <<>> \in Events
    BY <2>1, EventsAreSequences
  <2>3. AgentTypeOK
    BY <2>2 DEF AgentInit, AgentTypeOK, Agent
  <2>4. \A t \in Threads : agent[t].pc = "idle" /\ agent[t].described = None
    BY DEF AgentInit
  <2>5. ThreadsFindTheirOwn
    BY <2>4 DEF ThreadsFindTheirOwn, FindsItsOwn
  <2> QED
    BY <2>3, <2>5
<1>2. AgentTypeOK /\ ThreadsFindTheirOwn /\ SearchesAreApart /\ [AgentNext]_agentVars
        => AgentTypeOK' /\ ThreadsFindTheirOwn'
  BY NextFindsItsOwn, AgentTypes
<1>3. ThreadsFindTheirOwn => InspectionIsScoped
  BY DEF ThreadsFindTheirOwn, FindsItsOwn, InspectionIsScoped, Threads
<1> QED
  BY <1>1, <1>2, <1>3, PTL DEF AgentSpec

\* A single thread, without a second question or an evaluation case beside
\* it, describes its own graph search.
THEOREM OneThreadIsScoped ==
    ASSUME \A t, u \in Threads : t = u
    PROVE  AgentSpec => []InspectionIsScoped
<1>1. SearchesAreApart
  BY DEF SearchesAreApart
<1> QED
  BY <1>1, SearchesApartAreScoped, PTL
=============================================================================
