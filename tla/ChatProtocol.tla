---------------------------- MODULE ChatProtocol ----------------------------
(***************************************************************************)
(* The order of the events of a chat turn in its public contract           *)
(* (specs/005-grounded-rag-chat/contracts/chat-http.md:28-30): a turn      *)
(* starts, offers its evidence once and then text, and has one terminal    *)
(* event, after which nothing follows.                                     *)
(*                                                                         *)
(* It is the order and not the whole contract, which has the evidence on   *)
(* every turn.  The handler writes it only for an answer that completes,   *)
(* so a turn may end without it here (EndsAtOnce); that turns do is a      *)
(* divergence of the code from the contract.                               *)
(***************************************************************************)
CONSTANTS Turns

VARIABLE last    \* [Turns -> Event \cup {"none"}]: the latest event of a stream

Terminal == {"completed", "abstained", "cancelled", "error"}

Event == {"started", "evidence", "delta"} \cup Terminal

\* The ends of a turn that offered no evidence, of which the contract has none.
EndsAtOnce == {"abstained", "cancelled", "error"}

\* What may follow an event.
After(event) ==
    CASE event = "none"     -> {"started"}
      [] event = "started"  -> {"evidence"} \cup EndsAtOnce
      [] event = "evidence" -> {"delta"} \cup Terminal
      [] event = "delta"    -> {"delta"} \cup Terminal
      [] OTHER              -> {}

Init == last = [t \in Turns |-> "none"]

Emit(t, event) == /\ event \in After(last[t])
                  /\ last' = [last EXCEPT ![t] = event]

Next == \E t \in Turns, event \in Event : Emit(t, event)

Spec == Init /\ [][Next]_last
=============================================================================
