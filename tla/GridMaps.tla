------------------------------ MODULE GridMaps ------------------------------
(***************************************************************************)
(* Maps: from the drawing a LIF file is generated of                       *)
(* (tools/generate_lif_from_grid.py) over the file and its parser          *)
(* (res_map/lif_parser.py) to the grid the solver searches                 *)
(* (res_map/grid/grid_utils.py).                                           *)
(*                                                                         *)
(* Coordinates are integers, in a unit as small as rounding errors are;    *)
(* a node of a generated map has its cell for a name.                      *)
(***************************************************************************)
EXTENDS Integers, Sequences, FiniteSets
LOCAL INSTANCE FiniteSetsExt
LOCAL INSTANCE SequencesExt

CONSTANTS
  Tolerance,      \* the remainder _float_gcd takes for zero
  GapTolerance    \* the gap _infer_spacing takes for zero

-----------------------------------------------------------------------------
(* Generating and reading a file.  A field that is not there is Missing;   *)
(* an edge is the pair of its ends.                                        *)

\* The elements of a set in some order.
Listed(S) == FoldSet(LAMBDA x, list : Append(list, x), <<>>, S)

Missing == <<>>

Node(id, position) == [nodeId |-> id, nodePosition |-> position]
Layout(nodes, edges) == [nodes |-> nodes, edges |-> edges]
File(layouts) == [is_json |-> TRUE, layouts |-> layouts]
NoFile == [is_json |-> FALSE, layouts |-> Missing]

DrawingIsValid(width, height, obstacles) ==
  /\ width > 0 /\ height > 0
  /\ obstacles \subseteq (0 .. width - 1) \X (0 .. height - 1)

\* A free cell is a node, joined to its free neighbours in both directions; an
\* obstacle is left out.
GenerateGridMapData(width, height, obstacles, spacing) ==
  LET cells == ((0 .. width - 1) \X (0 .. height - 1)) \ obstacles
      next == {e \in cells \X cells : \/ e[2] = <<e[1][1] + 1, e[1][2]>>
                                      \/ e[2] = <<e[1][1], e[1][2] + 1>>}
  IN [world_positions |-> [c \in cells |-> <<c[1] * spacing, c[2] * spacing>>],
      edges |-> Listed(next \cup {<<e[2], e[1]>> : e \in next})]

ExportLif(map) ==
  LET ids == Listed(DOMAIN map.world_positions)
  IN File(<< Layout([i \in DOMAIN ids |-> Node(ids[i], map.world_positions[ids[i]])],
                    map.edges) >>)

NodesAreValid(nodes) ==
  /\ nodes # <<>>
  /\ \A i \in DOMAIN nodes :
       /\ nodes[i].nodeId # Missing /\ nodes[i].nodePosition # Missing
       /\ \A j \in DOMAIN nodes : nodes[i].nodeId = nodes[j].nodeId => i = j

EdgesAreValid(edges, nodes) ==
  \A i \in DOMAIN edges : \A k \in {1, 2} :
    /\ edges[i][k] # Missing
    /\ edges[i][k] \in {nodes[j].nodeId : j \in DOMAIN nodes}

\* What load_lif reads; it raises otherwise.
Loads(file) ==
  /\ file.is_json
  /\ Len(file.layouts) = 1
  /\ NodesAreValid(file.layouts[1].nodes)
  /\ EdgesAreValid(file.layouts[1].edges, file.layouts[1].nodes)

LoadLif(file) ==
  LET nodes == file.layouts[1].nodes
      IndexOf(id) == CHOOSE i \in DOMAIN nodes : nodes[i].nodeId = id
  IN [world_positions |-> [id \in {nodes[i].nodeId : i \in DOMAIN nodes} |->
                             nodes[IndexOf(id)].nodePosition],
      edges |-> file.layouts[1].edges]

-----------------------------------------------------------------------------
(* snap_to_grid.                                                           *)

\* Mutant: a remainder is zero only when it is.
GcdToZero ==
  LET gcd[p \in Nat \X Nat] == IF p[2] > 0 THEN gcd[<<p[2], p[1] % p[2]>>] ELSE p[1]
  IN gcd

FloatGcd ==
  LET gcd[p \in Nat \X Nat] ==
        IF p[2] > Tolerance THEN gcd[<<p[2], p[1] % p[2]>>] ELSE p[1]
  IN gcd

\* The gaps between neighbouring coordinates of a set, in order.
Gaps(coordinates) ==
  LET n == Cardinality(coordinates)
      sorted == [i \in 1 .. n |->
                   CHOOSE x \in coordinates : Cardinality({y \in coordinates : y < x}) = i - 1]
  IN SelectSeq([i \in 1 .. n - 1 |-> sorted[i + 1] - sorted[i]],
               LAMBDA gap : gap > GapTolerance)

AllGaps(positions) == Gaps({p[1] : p \in positions}) \o Gaps({p[2] : p \in positions})

InferSpacing(positions) ==
  LET gaps == AllGaps(positions)
  IN FoldLeft(LAMBDA spacing, gap : FloatGcd[<<spacing, gap>>], Head(gaps), Tail(gaps))

\* The integer nearest to a / b, the even one of two.
Round(a, b) ==
  LET q == (2 * a + b) \div (2 * b)
  IN IF (2 * a + b) % (2 * b) = 0 /\ q % 2 = 1 THEN q - 1 ELSE q

\* Columns count from the smallest x, rows from the largest y.  The spacing of
\* a single node does not matter.
GridNodes(map) ==
  LET nodes == map.world_positions
      positions == {nodes[n] : n \in DOMAIN nodes}
      spacing == IF Cardinality(DOMAIN nodes) = 1 THEN 1 ELSE InferSpacing(positions)
      min_x == Min({p[1] : p \in positions})
      max_y == Max({p[2] : p \in positions})
  IN [n \in DOMAIN nodes |->
        <<Round(nodes[n][1] - min_x, spacing), Round(max_y - nodes[n][2], spacing)>>]

\* Nodes that are all in one place have no spacing, and no two may get into
\* one cell: snap_to_grid raises otherwise.
Snaps(map) ==
  LET nodes == map.world_positions
  IN \/ Cardinality(DOMAIN nodes) = 1
     \/ /\ AllGaps({nodes[n] : n \in DOMAIN nodes}) # <<>>
        /\ LET cell == GridNodes(map)
           IN \A m, n \in DOMAIN nodes : cell[m] = cell[n] => m = n

SnapToGrid(map) ==
  LET cell == GridNodes(map)
  IN [grid_nodes |-> cell,
      dimension |-> <<Max({cell[n][1] : n \in DOMAIN cell}) + 1,
                      Max({cell[n][2] : n \in DOMAIN cell}) + 1>>]

-----------------------------------------------------------------------------
(* infer_obstacles.                                                        *)

\* How often a node is an end of an edge.
EdgeCount(map, id) ==
  Cardinality({x \in (DOMAIN map.edges) \X {1, 2} : map.edges[x[1]][x[2]] = id})

\* Mutant: a node without edges is as good as any.
NoInferredObstacles(map, grid, extra_obstacles) ==
  {grid.grid_nodes[id] : id \in extra_obstacles}

\* The cells of nodes with less than two, and of those given; a cell that is
\* no node's is none of them.
InferObstacles(map, grid, extra_obstacles) ==
  {grid.grid_nodes[id] :
     id \in {n \in DOMAIN map.world_positions : EdgeCount(map, n) < 2}
              \cup extra_obstacles}

\* The cells lif_to_readable_map shows by a name; the others have an X.
ReadableCells(map, grid, extra_obstacles) ==
  {grid.grid_nodes[id] : id \in DOMAIN grid.grid_nodes}
    \ InferObstacles(map, grid, extra_obstacles)

=============================================================================
