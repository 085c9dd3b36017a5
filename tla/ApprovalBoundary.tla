--------------------------- MODULE ApprovalBoundary ---------------------------
(***************************************************************************)
(* What the approval flow promises of one run, without handlers, copies,   *)
(* checkpoints or retries: approvals are asked for, each is decided at     *)
(* most once, and a tool acts on the sandbox automatically (R0, R1) or     *)
(* under an approval that was granted before (R2); an R3 tool never acts.  *)
(* An effect that cites an approval cites one that was granted.            *)
(***************************************************************************)
EXTENDS Naturals, Sequences

CONSTANTS
  Tools,     \* tools an action may name
  ToolRisk   \* the risk each tool is registered with

VARIABLES
  approvals,  \* approval requests created so far; they are numbered from 1
  granted,    \* approval requests a human approved
  declined,   \* approval requests a human rejected or abandoned
  effects     \* what acted on the sandbox, in order: a tool and its approval

boundary == <<approvals, granted, declined, effects>>

Init ==
  /\ approvals = 0
  /\ granted = {}
  /\ declined = {}
  /\ effects = << >>

Ask ==
  /\ approvals' = approvals + 1
  /\ UNCHANGED <<granted, declined, effects>>

Undecided == (1 .. approvals) \ (granted \cup declined)

Grant ==
  /\ \E id \in Undecided : granted' = granted \cup {id}
  /\ UNCHANGED <<approvals, declined, effects>>

Decline ==
  /\ \E id \in Undecided : declined' = declined \cup {id}
  /\ UNCHANGED <<approvals, granted, effects>>

\* Approval 0 stands for an effect that cites none.
Act ==
  /\ \E tool \in Tools, id \in granted \cup {0} :
       /\ ToolRisk[tool] \in {"R0", "R1", "R2"}
       /\ ToolRisk[tool] = "R2" => id # 0
       /\ effects' = Append(effects, [tool |-> tool, approval |-> id])
  /\ UNCHANGED <<approvals, granted, declined>>

Next == Ask \/ Grant \/ Decline \/ Act

Spec == Init /\ [][Next]_boundary
=============================================================================
