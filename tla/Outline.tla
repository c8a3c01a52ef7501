------------------------------ MODULE Outline ------------------------------
(***************************************************************************)
(* One outline and everybody who writes to it through the daemon at once:  *)
(* the HTTP API (HttpApi), the commands of a terminal (Commands), and the  *)
(* proposers and reviewers of suggestions (Suggestions).  Each keeps its   *)
(* own requests; the nodes and suggestions tables are shared.              *)
(***************************************************************************)
EXTENDS HttpApi, Commands

outline == <<nodes, sugVars, httpVars, cmdVars>>

OutlineInit == SuggestInit /\ HttpInit /\ CmdInit

OutlineNext ==
    \/ SuggestNext /\ UNCHANGED <<httpVars, cmdVars>>
    \/ HttpNext /\ UNCHANGED cmdVars
    \/ CmdNext /\ UNCHANGED httpVars
    \/ Restart /\ UNCHANGED cmdVars

OutlineSpec == OutlineInit /\ [][OutlineNext]_outline

-----------------------------------------------------------------------------
(* Properties.                                                             *)

OutlineTypeOK == SuggestTypeOK /\ HttpTypeOK /\ CmdTypeOK

\* A suggestion is applied exactly once if approved and never if not, also when
\* HTTP deletes settle it from outside a transaction and the daemon restarts.
AppliedOnceByAll == AppliedOnce

\* ... and its verdict stays.
VerdictStays == [][\A s \in Sugs : sugs[s].state \in Settled => sugs'[s] = sugs[s]]_outline

\* A tombstone whose suggestions are still pending is one that an HTTP delete has
\* yet to settle, or one proposed after it was read: never one that a transaction
\* deleted, and none after a restart.
GhostsAreHttp ==
    [][\A s \in Sugs : Pending(s) /\ Live(sugs[s].target) /\ ~Live(sugs[s].target)' /\ sugs'[s].state = "pending"
          => \E h \in Handlers : /\ req[h] # NoReq /\ req[h].pc = "tombstone"
                                 /\ req'[h] # NoReq /\ req'[h].pc = "settle"
                                 /\ sugs[s].target \in req'[h].got]_outline

\* The nodes that a request or a command places in this step.
Moved == {req[h].node : h \in {g \in Handlers : /\ req[g] # NoReq /\ req[g].pc = "update"
                                                /\ req'[g] = NoReq}}
         \cup {cmd[c].node : c \in {d \in Shells : /\ cmd[d] # NoCmd /\ cmd[d].pc = "reparent"
                                                  /\ cmd'[d] = NoCmd}}

\* However requests, commands and approvals interleave, and wherever a command is
\* killed or the daemon stops, no step turns round two siblings it does not place.
OrderKept == [][KeepsOrderBut(Moved)]_outline

\* With the HTTP API and the commands writing beside the reviewers a verdict is still given and applied once and stays,
\* and a proposal about a deleted node is left pending only by the HTTP API (suggestion.go:377, suggestion.go:333).
VerdictsHold ==
    /\ [](OutlineTypeOK /\ AppliedOnceByAll)
    /\ VerdictStays
    /\ GhostsAreHttp
=============================================================================
