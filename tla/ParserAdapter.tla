---------------------------- MODULE ParserAdapter ----------------------------
(***************************************************************************)
(* What ParserAdapter.parse promises its callers (app/parsers/base.py): a  *)
(* call is answered once and its answer stays, and DONE is reported only   *)
(* for a contract that the portal publishes, with a status that the portal *)
(* publishes for it, or with none.                                         *)
(***************************************************************************)
EXTENDS ParseDto

CONSTANT Calls  \* the calls of parse, one contract each

VARIABLES
  published,  \* the statuses the portal shows for each call
  answer      \* the state of each call: not made, unanswered, or its result

contract == <<published, answer>>

NotAsked == [status |-> "IDLE", stat |-> NoStat]
Asked    == [status |-> "ASKED", stat |-> NoStat]

Init ==
  /\ published \in [Calls -> SUBSET StatValue]
  /\ answer = [k \in Calls |-> NotAsked]

Ask(k) ==
  /\ answer[k] = NotAsked
  /\ answer' = [answer EXCEPT ![k] = Asked]
  /\ UNCHANGED published

Answer(k, res) ==
  /\ answer[k] = Asked
  /\ res.status = "DONE" =>
       published[k] # {} /\ res.stat \in published[k] \cup {NoStat}
  /\ answer' = [answer EXCEPT ![k] = res]
  /\ UNCHANGED published

Next == \E k \in Calls : Ask(k) \/ \E res \in ParseResult : Answer(k, res)

Spec == Init /\ [][Next]_contract
=============================================================================
