----------------------------- MODULE AtomicDocument -----------------------------
(***************************************************************************)
(* What a store of one document promises its callers, whatever files it    *)
(* keeps: a change takes effect completely or not at all; a caller told    *)
(* "ok" has its change, a caller told "failed" has the old document; a     *)
(* power cut during a change may leave either.                             *)
(***************************************************************************)
CONSTANTS Documents, NoProposal

VARIABLES
  document,   \* what a reader of the store gets
  proposal,   \* the change under way, or NoProposal
  answer      \* what the last operation returned

vars == <<document, proposal, answer>>

Init == document \in Documents /\ proposal = NoProposal /\ answer = "none"

Call == proposal = NoProposal /\ answer' = "none" /\ UNCHANGED <<document, proposal>>

Read ==
  /\ proposal = NoProposal
  /\ answer' \in {"ok", "refused"}
  /\ UNCHANGED <<document, proposal>>

Propose(d) ==
  /\ proposal = NoProposal
  /\ proposal' = d
  /\ UNCHANGED <<document, answer>>

Confirm ==
  /\ proposal # NoProposal
  /\ document' = proposal
  /\ proposal' = NoProposal
  /\ answer' = "ok"

Fail ==
  /\ proposal # NoProposal
  /\ proposal' = NoProposal
  /\ answer' = "failed"
  /\ UNCHANGED document

PowerCut ==
  /\ document' \in {document, proposal} \ {NoProposal}
  /\ proposal' = NoProposal
  /\ answer' = "none"

Next ==
  \/ Call \/ Read \/ Confirm \/ Fail \/ PowerCut
  \/ \E d \in Documents : Propose(d)

Spec == Init /\ [][Next]_vars
=============================================================================
