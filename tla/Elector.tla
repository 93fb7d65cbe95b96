------------------------------ MODULE Elector ------------------------------
(***************************************************************************)
(* Leader election over one leader_leases row (internal/lease/elector.go). *)
(*                                                                         *)
(* Every process campaigns on a timer with one statement, which takes the  *)
(* row, renews it or changes nothing, and acts on the answer afterwards.   *)
(* In between the row may expire and change hands, so that two processes   *)
(* can believe to lead.  (The epoch is written and logged; nothing reads   *)
(* it.)                                                                    *)
(***************************************************************************)
EXTENDS Naturals

CONSTANTS Pods,
          Nobody,    \* no row
          Departed,  \* the owner id of a process that is no more
          MaxMishaps \* bound: faults

ASSUME PodsAssumption == {Nobody, Departed} \cap Pods = {} /\ Nobody # Departed
ASSUME ElectorBounds == MaxMishaps \in Nat

VARIABLES row,     \* leader_leases: [owner, live]
          process, \* "down", "up", "closing"
          leads,   \* leadCancel # nil
          answer,  \* of the campaign under way: "none", "won", "lost"
          mishaps  \* bound counter

electorVars == <<row, process, leads, answer, mishaps>>

NoRow == [owner |-> Nobody, live |-> FALSE]

ElectorTypeOK ==
  /\ row \in [owner : Pods \cup {Nobody, Departed}, live : BOOLEAN]
  /\ row.owner = Nobody => row = NoRow
  /\ process \in [Pods -> {"down", "up", "closing"}]
  /\ leads \in [Pods -> BOOLEAN] /\ answer \in [Pods -> {"none", "won", "lost"}]
  /\ \A p \in Pods : process[p] # "up" => ~leads[p] /\ answer[p] = "none"
  /\ mishaps \in 0 .. MaxMishaps

ElectorInit ==
  /\ row = NoRow /\ process = [p \in Pods |-> "down"]
  /\ leads = [p \in Pods |-> FALSE] /\ answer = [p \in Pods |-> "none"]
  /\ mishaps = 0

Mishap == mishaps < MaxMishaps /\ mishaps' = mishaps + 1

-----------------------------------------------------------------------------

\* A process starts, under an owner id of its own.
Start(p) ==
  /\ process[p] = "down" /\ process' = [process EXCEPT ![p] = "up"]
  /\ UNCHANGED <<row, leads, answer, mishaps>>

\* campaignSQL: the row is free, ours, or has expired.
CampaignSQL(p) ==
  LET won == row.owner \in {Nobody, p} \/ ~row.live
  IN  /\ process[p] = "up" /\ answer[p] = "none"
      /\ row' = IF won THEN [owner |-> p, live |-> TRUE] ELSE row
      /\ answer' = [answer EXCEPT ![p] = IF won THEN "won" ELSE "lost"]
      /\ UNCHANGED <<process, leads, mishaps>>

\* An error deposes nobody.  The statement may have been executed.
CampaignFails(p) ==
  /\ answer[p] # "none" /\ answer' = [answer EXCEPT ![p] = "none"] /\ Mishap
  /\ UNCHANGED <<row, process, leads>>

BecomeLeader(p) ==
  /\ answer[p] = "won" /\ answer' = [answer EXCEPT ![p] = "none"]
  /\ leads' = [leads EXCEPT ![p] = TRUE]
  /\ UNCHANGED <<row, process, mishaps>>

\* A live leader elsewhere.
StepDown(p) ==
  /\ answer[p] = "lost" /\ answer' = [answer EXCEPT ![p] = "none"]
  /\ leads' = [leads EXCEPT ![p] = FALSE]
  /\ UNCHANGED <<row, process, mishaps>>

\* Close stops the loop, which steps down ...
Close(p) ==
  /\ process[p] = "up" /\ process' = [process EXCEPT ![p] = "closing"]
  /\ leads' = [leads EXCEPT ![p] = FALSE]
  /\ answer' = [answer EXCEPT ![p] = "none"] /\ Mishap
  /\ UNCHANGED row

\* ... and then deletes the row, if it is this process's.
Resign(p) ==
  /\ process[p] = "closing" /\ process' = [process EXCEPT ![p] = "down"]
  /\ row' = IF row.owner = p THEN NoRow ELSE row
  /\ UNCHANGED <<leads, answer, mishaps>>

\* The owner id dies with the process.
Bereaved(p) == IF row.owner = p THEN [row EXCEPT !.owner = Departed] ELSE row

ResignFails(p) ==
  /\ process[p] = "closing" /\ process' = [process EXCEPT ![p] = "down"]
  /\ row' = Bereaved(p) /\ Mishap
  /\ UNCHANGED <<leads, answer>>

Crash(p) ==
  /\ process[p] = "up" /\ process' = [process EXCEPT ![p] = "down"]
  /\ leads' = [leads EXCEPT ![p] = FALSE]
  /\ answer' = [answer EXCEPT ![p] = "none"]
  /\ row' = Bereaved(p) /\ Mishap

\* The TTL runs out: of a process that is gone, sooner or later; of one that
\* runs, if two heartbeats in a row go missing.
Expire ==
  /\ row.live /\ row' = [row EXCEPT !.live = FALSE]
  /\ IF row.owner = Departed THEN UNCHANGED mishaps ELSE Mishap
  /\ UNCHANGED <<process, leads, answer>>

ElectorFairness ==
  /\ \A p \in Pods : WF_electorVars(\/ Start(p) \/ Resign(p) \/ CampaignSQL(p)
                                   \/ BecomeLeader(p) \/ StepDown(p))
  /\ WF_electorVars(row.owner = Departed /\ Expire)
=============================================================================
