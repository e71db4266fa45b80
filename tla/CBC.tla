--------------------------------- MODULE CBC ---------------------------------
(***************************************************************************)
(* One consistent broadcast of core/mvba/consensus/cbc.go: the instances   *)
(* that all nodes keep for one (epoch, Proposer, tag).  The two tags,      *)
(* DATA_CBC and COMMIT_CBC, run the same code: what is broadcast is a      *)
(* block or a commitment, called the content here.                         *)
(*                                                                         *)
(* As in module SPB every message has a goroutine of its own, and a step   *)
(* is a critical section: under BMutex (the content), under unHandleMutex  *)
(* (the lists of messages that came before the content), or on an atomic   *)
(* counter.                                                                *)
(***************************************************************************)
EXTENDS Committee

CONSTANTS Proposer, Correct

ASSUME CBCAssumption == Proposer \in Correct /\ Correct \subseteq Node

VARIABLES
  content,   \* content[i]: the Proposal or Commitment message at node i
  ready,     \* ready[i]: node i's Ready at the proposer
  final,     \* final[i]: the Final at node i
  readyCnts, \* the proposer's counter
  finalCnts  \* finalCnts[i]: the Finals counted at node i

vars == <<content, ready, final, readyCnts, finalCnts>>

\* "stored": BlockHash or Commitment is set; "drained": also the lists of
\* unhandled messages are empty and the Ready is sent.
ContentStatus == {"sent", "stored", "drained"}

\* "checked": the content was found missing, the message not yet appended.
MsgStatus == {"unsent", "sent", "checked", "parked", "handled"}

Stored == {i \in Node : content[i] # "sent"}

Init ==
  /\ content = [i \in Node |-> "sent"]
  /\ ready = [i \in Node |-> "unsent"]
  /\ final = [i \in Node |-> "unsent"]
  /\ readyCnts = 0
  /\ finalCnts = [i \in Node |-> 0]

-----------------------------------------------------------------------------
\* ProcessProposal and ProcessCommitment, the section under BMutex.
StoreContent(i) ==
  /\ content[i] = "sent"
  /\ content' = [content EXCEPT ![i] = "stored"]
  /\ UNCHANGED <<ready, final, readyCnts, finalCnts>>

\* Forgets the parked messages instead of starting a goroutine for each.
ResumeForget(status) == IF status = "parked" THEN "handled" ELSE status

Resume(status) == IF status = "parked" THEN "sent" ELSE status

\* The rest of them: every parked message gets a new goroutine, and the Ready
\* goes to the proposer.
DrainAndReady(i) ==
  /\ content[i] = "stored"
  /\ content' = [content EXCEPT ![i] = "drained"]
  /\ ready' = [j \in Node |-> IF j = i THEN "sent"
                              ELSE IF i = Proposer THEN Resume(ready[j])
                              ELSE ready[j]]
  /\ final' = [final EXCEPT ![i] = Resume(@)]
  /\ UNCHANGED <<readyCnts, finalCnts>>

\* Every Ready from the threshold on makes a Final, not only the one at it.
FinalFrom(cnt) == cnt >= HightThreshold

\* The Final is made with the f+1-th Ready.
IsFinalLow(cnt) == cnt = LowThreshold

\* The counter value at which ProcessReady makes the Final.
IsFinal(cnt) == cnt = HightThreshold

\* ProcessReady at the proposer with the content there.
CountReady(i) ==
  /\ ready[i] = "sent"
  /\ Proposer \in Stored
  /\ ready' = [ready EXCEPT ![i] = "handled"]
  /\ readyCnts' = readyCnts + 1
  /\ final' = IF IsFinal(readyCnts') THEN [j \in Node |-> "sent"] ELSE final
  /\ UNCHANGED <<content, finalCnts>>

\* ProcessReady without it: look under BMutex, then append.
CheckReady(i) ==
  /\ ready[i] = "sent"
  /\ Proposer \notin Stored
  /\ ready' = [ready EXCEPT ![i] = "checked"]
  /\ UNCHANGED <<content, final, readyCnts, finalCnts>>

ParkReady(i) ==
  /\ ready[i] = "checked"
  /\ ready' = [ready EXCEPT ![i] = "parked"]
  /\ UNCHANGED <<content, final, readyCnts, finalCnts>>

\* ProcessFinal with the content there: the first one notifies the core.
CountFinal(i) ==
  /\ final[i] = "sent"
  /\ i \in Stored
  /\ final' = [final EXCEPT ![i] = "handled"]
  /\ finalCnts' = [finalCnts EXCEPT ![i] = @ + 1]
  /\ UNCHANGED <<content, ready, readyCnts>>

CheckFinal(i) ==
  /\ final[i] = "sent"
  /\ i \notin Stored
  /\ final' = [final EXCEPT ![i] = "checked"]
  /\ UNCHANGED <<content, ready, readyCnts, finalCnts>>

ParkFinal(i) ==
  /\ final[i] = "checked"
  /\ final' = [final EXCEPT ![i] = "parked"]
  /\ UNCHANGED <<content, ready, readyCnts, finalCnts>>

-----------------------------------------------------------------------------
ContentStep(i) == StoreContent(i) \/ DrainAndReady(i)

ReadyStep(i) == CountReady(i) \/ CheckReady(i) \/ ParkReady(i)

FinalStep(i) == CountFinal(i) \/ CheckFinal(i) \/ ParkFinal(i)

Next == \E i \in Node : ContentStep(i) \/ ReadyStep(i) \/ FinalStep(i)

\* A goroutine of a node that does not crash is eventually scheduled.
Fairness ==
  /\ \A i \in Correct : WF_vars(ContentStep(i)) /\ WF_vars(FinalStep(i))
  /\ \A i \in Node : WF_vars(ReadyStep(i))

Spec == Init /\ [][Next]_vars

FairSpec == Spec /\ Fairness

-----------------------------------------------------------------------------
\* The status of every message; finalCnts is at most one at every node, so
\* ProcessFinal notifies the core of an instance once.
TypeOK ==
  /\ content \in [Node -> ContentStatus]
  /\ ready \in [Node -> MsgStatus]
  /\ final \in [Node -> MsgStatus]
  /\ readyCnts \in Nat
  /\ finalCnts \in [Node -> 0 .. 1]

\* The core of a node is notified only when the node itself has the content
\* (handleOutput reads the block, checkVote the commitment), and 2f+1 nodes do.
BackIsBacked ==
  \A i \in Node : finalCnts[i] > 0 => i \in Stored /\ Stored \in Quorums

PB == INSTANCE ProvableBroadcast
        WITH stored <- Stored, locked <- {i \in Node : finalCnts[i] > 0}, finished <- FALSE

\* The message handling of cbc.go, goroutine races and unhandled lists included,
\* implements the abstract broadcast up to its first certificate: the core of a
\* node is notified only after 2f+1 nodes, and the node itself, hold the content,
\* and neither is undone.
ImplementsBroadcast == PB!Spec

\* A message appended after the lists were drained is never looked at again.
Stranded ==
  \/ \E i \in Node : content[Proposer] = "drained" /\ ready[i] = "parked"
  \/ \E i \in Node : content[i] = "drained" /\ final[i] = "parked"

\* With 2f+1 nodes that do not crash, every one of them is notified, or a
\* message was stranded.
BackOrStranded == <>(Stranded \/ \A i \in Correct : finalCnts[i] = 1)

=============================================================================
