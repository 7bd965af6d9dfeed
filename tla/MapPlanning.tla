----------------------------- MODULE MapPlanning -----------------------------
(***************************************************************************)
(* From a map file to the steps of a solution: what plan_server_node.main  *)
(* does with the map when the server starts, and CBSAdapter.solve with a   *)
(* problem the coordinator has put together.  The search is that of        *)
(* ConstraintSearch.                                                       *)
(*                                                                         *)
(* A case is a map file and a problem in the names of its nodes: starts,   *)
(* goals and obstacles.  The agents of a problem are numbered.             *)
(***************************************************************************)
EXTENDS ConstraintSearch, GridMaps

CONSTANT Cases

GridOf(map) ==
  LET grid == SnapToGrid(map)
  IN [ grid_nodes |-> grid.grid_nodes,
       dimension |-> grid.dimension,
       obstacles |-> InferObstacles(map, grid, {}) ]

ProblemLocations(c) ==
  {c.start[a] : a \in DOMAIN c.start} \cup {c.goal[a] : a \in DOMAIN c.goal} \cup c.obstacles

ProblemOf(grid, c) ==
  [dimension |-> grid.dimension,
   obstacles |-> grid.obstacles \cup {grid.grid_nodes[n] : n \in c.obstacles},
   start |-> [a \in DOMAIN c.start |-> grid.grid_nodes[c.start[a]]],
   goal |-> [a \in DOMAIN c.goal |-> grid.grid_nodes[c.goal[a]]]]

\* Agents are numbered, and the cells of the grid are pairs of numbers.
ASSUME CasesAssumption ==
  \A c \in {d \in Cases : d.start # <<>> /\ Loads(d.file)} :
    LET map == LoadLif(c.file)
    IN Snaps(map) /\ ProblemLocations(c) \subseteq DOMAIN GridOf(map).grid_nodes
         => IsProblem(ProblemOf(GridOf(map), c))

\* Every agent has a goal.
ASSUME GoalsAssumption == \A c \in Cases : DOMAIN c.start \subseteq DOMAIN c.goal

\* The nodes and the edges of a file are lists.
ASSUME FilesAssumption ==
  \A c \in {d \in Cases : Loads(d.file)} :
    LET layout == c.file.layouts[1]
    IN IsFiniteSet(DOMAIN layout.nodes) /\ IsFiniteSet(DOMAIN layout.edges)

VARIABLES
  case,         \* the map file and the problem
  map_data,     \* what is read from the file
  grid_map,     \* the grid the solver has
  plan          \* the nodes of the steps of each agent

mapVars == <<case, map_data, grid_map, plan>>
allVars == <<vars, mapVars>>

PlanningInit ==
  /\ case \in Cases
  /\ map_data = Missing
  /\ grid_map = Missing
  /\ plan = <<>>
  /\ phase = "start"
  /\ Init

-----------------------------------------------------------------------------
(* Starting the server.                                                    *)

LoadMap ==
  /\ phase = "start"
  /\ IF Loads(case.file)
     THEN map_data' = LoadLif(case.file) /\ phase' = "loaded"
     ELSE phase' = "rejected" /\ UNCHANGED map_data
  /\ UNCHANGED <<case, grid_map, plan>>
  /\ UNCHANGED <<nodeVars, new_nodes, solution, found_path, problem, searchVars>>

Snap ==
  /\ phase = "loaded"
  /\ IF Snaps(map_data)
     THEN /\ grid_map' = GridOf(map_data)
          /\ phase' = "ready"
     ELSE phase' = "rejected" /\ UNCHANGED grid_map
  /\ UNCHANGED <<case, map_data, plan>>
  /\ UNCHANGED <<nodeVars, new_nodes, solution, found_path, problem, searchVars>>

-----------------------------------------------------------------------------
(* CBSAdapter.solve.                                                       *)

\* A problem without agents is not given to the solver, one with an unknown
\* location is refused.
Solve ==
  /\ phase = "ready"
  /\ case.start # <<>>
  /\ IF ProblemLocations(case) \subseteq DOMAIN grid_map.grid_nodes
     THEN Begin(ProblemOf(grid_map, case))
     ELSE /\ phase' = "refused"
          /\ UNCHANGED <<nodeVars, new_nodes, solution, found_path, problem, searchVars>>
  /\ UNCHANGED mapVars

Search == Next /\ UNCHANGED mapVars

CoordToNode(cell) ==
  CHOOSE n \in DOMAIN grid_map.grid_nodes : grid_map.grid_nodes[n] = cell

\* A cell without a node has no name: the lookup raises KeyError, which ends
\* the server's worker thread.
ConvertCbs ==
  /\ phase = "found"
  /\ LET path == node.solution
         named == {grid_map.grid_nodes[n] : n \in DOMAIN grid_map.grid_nodes}
     IN IF \A a \in DOMAIN path : \A k \in DOMAIN path[a] : path[a][k] \in named
        THEN /\ plan' = [a \in DOMAIN path |-> [k \in DOMAIN path[a] |-> CoordToNode(path[a][k])]]
             /\ phase' = "planned"
        ELSE phase' = "crashed" /\ UNCHANGED plan
  /\ UNCHANGED <<case, map_data, grid_map>>
  /\ UNCHANGED <<nodeVars, new_nodes, solution, found_path, problem, searchVars>>

PlanningNext ==
  \/ LoadMap
  \/ Snap
  \/ Solve
  \/ Search
  \/ ConvertCbs

\* A problem is worked on in the server's main thread until the map is there,
\* in its worker thread then: nothing blocks them.
PlanningSpec ==
  /\ PlanningInit /\ [][PlanningNext]_allVars
  /\ WF_allVars(case.start # <<>> /\ PlanningNext)

-----------------------------------------------------------------------------
(* Properties.                                                             *)

Passable(n) == EdgeCount(map_data, n) >= 2

HasEdge(m, n) == \E i \in DOMAIN map_data.edges : map_data.edges[i] = <<m, n>>

\* Adjacent nodes that are passable are joined in both directions: what the
\* note of lif_to_readable_map (missing cross-links) asks of a map.
IsFullGrid ==
  \A m, n \in DOMAIN grid_map.grid_nodes :
    LET c == grid_map.grid_nodes[m]
        d == grid_map.grid_nodes[n]
    IN Passable(m) /\ Passable(n) /\ Distance(c[1], d[1]) + Distance(c[2], d[2]) = 1
         => HasEdge(m, n)

\* Steps lead from the agent's start to its goal along the edges of the file
\* (from a passable node on), although solver and obstacles only know cells:
\* node names, the grid, its obstacles and the flipped rows fit together.
StepsFollowEdges ==
  phase = "planned" /\ IsFullGrid =>
    \A a \in DOMAIN plan :
      /\ plan[a][1] = case.start[a] /\ plan[a][Len(plan[a])] = case.goal[a]
      /\ \A k \in 1 .. Len(plan[a]) - 1 :
           \/ plan[a][k] = plan[a][k + 1]
           \/ HasEdge(plan[a][k], plan[a][k + 1])
           \/ ~Passable(plan[a][k])

\* A cell that the readable map shows with an X, "obstacle" as the tool's
\* description of its output calls it, is one to the solver: no agent is led
\* through it (violated: a cell without a node is free, see ConvertCbs).
ReadableMapIsTrue ==
  phase = "found" =>
    \A a \in DOMAIN node.solution : \A k \in DOMAIN node.solution[a] :
      node.solution[a][k] \in ReadableCells(map_data, grid_map, {})

\* Whatever the map and the problem, if it has a solution or two agents start
\* in one place, the planner comes to an end: with steps, or a refusal.
PlanningEnds ==
  <>(phase \in {"planned", "none", "refused", "rejected", "crashed"} \/ case.start = <<>>)

=============================================================================
