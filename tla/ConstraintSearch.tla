-------------------------- MODULE ConstraintSearch ---------------------------
(***************************************************************************)
(* Conflict-based search (cbs/cbs.py, CBS.search).  A node is a set of     *)
(* constraints per agent with the cheapest paths that keep to them; the    *)
(* cheapest node is taken, and if its paths conflict there is a new node   *)
(* for each of the two agents, with one constraint more.                   *)
(*                                                                         *)
(* Nodes are compared by solution and cost, not by constraints             *)
(* (HighLevelNode.__eq__): one whose solution is in the open or the closed *)
(* set is not added.                                                       *)
(*                                                                         *)
(* The constraints of a node are computed one agent after the other by A*. *)
(* Within a process the same search has the same outcome, as its sets are  *)
(* built the same way: found_path remembers it, and stands for searching   *)
(* again.                                                                  *)
(***************************************************************************)
EXTENDS LowLevelSearch

VARIABLES
  phase,          \* what the search is about to do
  open_nodes,     \* CBS.open_set
  closed_nodes,   \* the solutions of CBS.closed_set
  node,           \* P, the node taken last
  new_nodes,      \* the constraints of the nodes to be computed, in order
  solution,       \* the paths found for the first of them so far
  found_path      \* the outcome of every A* search

nodeVars == <<open_nodes, closed_nodes, node>>
vars == <<problem, open_set, closed_set, came_from, g_score,
          phase, open_nodes, closed_nodes, node, new_nodes, solution, found_path>>

NoNode == [solution |-> <<>>, constraints |-> <<>>]

ComputeSolutionCost(paths) ==
  LET sum[n \in 0 .. Len(paths)] == IF n = 0 THEN 0 ELSE sum[n - 1] + Len(paths[n])
  IN sum[Len(paths)]

NoProblem == [start |-> <<>>]

\* There is no problem to be solved yet.
Init ==
  /\ problem = NoProblem
  /\ NoSearch
  /\ open_nodes = {}
  /\ closed_nodes = {}
  /\ node = NoNode
  /\ new_nodes = <<>>
  /\ solution = <<>>
  /\ found_path = <<>>

\* The search for a solution of p starts with a node without constraints.
Begin(p) ==
  /\ problem' = p
  /\ phase' = "compute"
  /\ new_nodes' = << [a \in Agents(p) |-> NoConstraints] >>
  /\ UNCHANGED <<nodeVars, solution, found_path>>
  /\ UNCHANGED searchVars

-----------------------------------------------------------------------------
(* compute_solution for the first of new_nodes.                            *)

agent == Len(solution) + 1
constraints == Head(new_nodes)[agent]
Searched == <<agent, constraints>>

Computing ==
  /\ phase = "compute"
  /\ new_nodes # <<>>
  /\ agent \in Agents(problem)

StartAStar ==
  /\ Computing
  /\ Searched \notin DOMAIN found_path
  /\ BeginSearch(agent)
  /\ phase' = "a_star"
  /\ UNCHANGED <<problem, open_nodes, closed_nodes, node, new_nodes, solution, found_path>>

RepeatAStar ==
  /\ Computing
  /\ Searched \in DOMAIN found_path
  /\ solution' = Append(solution, found_path[Searched])
  /\ UNCHANGED <<problem, phase, open_nodes, closed_nodes, node, new_nodes, found_path>>
  /\ UNCHANGED searchVars

AStarStep ==
  /\ phase = "a_star"
  /\ \E s \in open_set : Expand(agent, constraints, s)
  /\ UNCHANGED <<problem, phase, open_nodes, closed_nodes, node, new_nodes, solution, found_path>>

AStarReturns ==
  /\ phase = "a_star"
  /\ \E s \in open_set :
       /\ Current(agent, s)
       /\ AtGoalForGood(agent, constraints, s)
       /\ solution' = Append(solution, ReconstructPath(s))
       /\ found_path' = Updated(found_path, {Searched}, ReconstructPath(s))
  /\ EndSearch
  /\ phase' = "compute"
  /\ UNCHANGED <<problem, open_nodes, closed_nodes, node, new_nodes>>

\* The agent has no path: the node is left out.
AStarFails ==
  /\ phase = "a_star"
  /\ open_set = {}
  /\ EndSearch
  /\ phase' = "compute"
  /\ new_nodes' = Tail(new_nodes)
  /\ solution' = <<>>
  /\ UNCHANGED <<problem, open_nodes, closed_nodes, node, found_path>>

-----------------------------------------------------------------------------
(* The search over nodes.                                                  *)

\* Mutant: nodes are added whatever has been looked at.
AddEveryNode ==
  /\ phase = "compute"
  /\ new_nodes # <<>>
  /\ agent \notin Agents(problem)
  /\ open_nodes' = open_nodes \cup {[solution |-> solution, constraints |-> Head(new_nodes)]}
  /\ new_nodes' = Tail(new_nodes)
  /\ solution' = <<>>
  /\ UNCHANGED <<problem, phase, closed_nodes, node, found_path>>
  /\ UNCHANGED searchVars

\* The new node is complete.  An equal one is kept in its stead.
AddNode ==
  /\ phase = "compute"
  /\ new_nodes # <<>>
  /\ agent \notin Agents(problem)
  /\ open_nodes' = IF solution \in closed_nodes \cup {n.solution : n \in open_nodes}
                   THEN open_nodes
                   ELSE open_nodes \cup {[solution |-> solution, constraints |-> Head(new_nodes)]}
  /\ new_nodes' = Tail(new_nodes)
  /\ solution' = <<>>
  /\ UNCHANGED <<problem, phase, closed_nodes, node, found_path>>
  /\ UNCHANGED searchVars

\* Mutant: any open node will do.
AnyNode(n) == n \in open_nodes

CheapestNode(n) ==
  /\ n \in open_nodes
  /\ \A m \in open_nodes : ComputeSolutionCost(n.solution) <= ComputeSolutionCost(m.solution)

\* Mutant: a new node has only the constraint of the last conflict.
NewNodeForgets(n, c, a) ==
  [n.constraints EXCEPT ![a] = CreateConstraints(n.solution, c, a)]

NewNode(n, c, a) ==
  [n.constraints EXCEPT ![a] = AddConstraint(@, CreateConstraints(n.solution, c, a))]

\* The cheapest node is taken.  Without a conflict it is the answer.
TakeNode ==
  /\ phase = "compute"
  /\ new_nodes = <<>>
  /\ \E n \in open_nodes :
       LET c == GetFirstConflict(n.solution)
       IN /\ CheapestNode(n)
          /\ node' = n
          /\ open_nodes' = open_nodes \ {n}
          /\ closed_nodes' = closed_nodes \cup {n.solution}
          /\ IF c = NoConflict
             THEN phase' = "found" /\ UNCHANGED new_nodes
             ELSE /\ new_nodes' = <<NewNode(n, c, c.agent_1), NewNode(n, c, c.agent_2)>>
                  /\ UNCHANGED phase
  /\ UNCHANGED <<problem, solution, found_path>>
  /\ UNCHANGED searchVars

\* There is no node left: CBS.search returns an empty plan.
GiveUp ==
  /\ phase = "compute"
  /\ new_nodes = <<>>
  /\ open_nodes = {}
  /\ phase' = "none"
  /\ UNCHANGED <<problem, open_nodes, closed_nodes, node, new_nodes, solution, found_path>>
  /\ UNCHANGED searchVars

Next ==
  \/ StartAStar
  \/ RepeatAStar
  \/ AStarStep
  \/ AStarReturns
  \/ AStarFails
  \/ AddNode
  \/ TakeNode
  \/ GiveUp

-----------------------------------------------------------------------------
(* Properties.                                                             *)

\* The path keeps to the constraints, after it has ended as well.  Nothing can
\* be done about an agent's start.
KeepsTo(path, k) ==
  /\ \A vc \in k.vertex : vc.time > 0 => StateAt(path, vc.time) # vc.location
  /\ \A e \in k.edge : <<StateAt(path, e[1]), StateAt(path, e[1] + 1)>> # <<e[2], e[3]>>

\* The locations that constraints k leave to agent a, time by time.
Reach(a, k, last) ==
  LET at[t \in 0 .. last] ==
        IF t = 0 THEN {problem.start[a]}
        ELSE UNION {{n.location : n \in GetNeighbors(problem, k, State(t - 1, l))} : l \in at[t - 1]}
  IN at

\* A* finds a path that keeps to the agent's constraints, those that hold when
\* it rests at its goal included, and no shorter path does (a_star.py, with
\* a consistent heuristic).
LowLevelIsShortest ==
  \A x \in DOMAIN found_path :
    LET a == x[1]
        path == found_path[x]
        reach == Reach(a, x[2], Len(path) - 1)
    IN /\ KeepsTo(path, x[2])
       /\ path[1] = problem.start[a] /\ path[Len(path)] = problem.goal[a]
       /\ \A t \in 0 .. Len(path) - 2 :
            problem.goal[a] \notin reach[t] \/ ~AtGoalForGood(a, x[2], State(t, problem.goal[a]))

\* What the search returns is a solution: agents get from start to goal, and
\* at no time, not even after the longest path has ended, are two of them
\* in one place or do two of them pass through each other.
AnswerIsASolution ==
  phase = "found" =>
    /\ \A a \in Agents(problem) :
         /\ node.solution[a][1] = problem.start[a]
         /\ node.solution[a][Len(node.solution[a])] = problem.goal[a]
    /\ \A t \in 0 .. MaxT(node.solution) : \A a, b \in Agents(problem) :
         LET At(x, u) == StateAt(node.solution[x], u)
         IN a # b => /\ At(a, t) # At(b, t)
                     /\ <<At(a, t), At(a, t + 1)>> # <<At(b, t + 1), At(b, t)>>

\* Nodes are taken in the order of their costs: a new node, which has one
\* constraint more, never costs less than the node it comes from.
CostNeverDrops ==
  [][node # NoNode /\ node' # node =>
       ComputeSolutionCost(node'.solution) >= ComputeSolutionCost(node.solution)]_vars

=============================================================================
