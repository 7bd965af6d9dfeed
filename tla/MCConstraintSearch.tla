------------------------- MODULE MCConstraintSearch --------------------------
(***************************************************************************)
(* Map files and problems for the planner: small problems for the search,  *)
(* with their cheapest solutions by enumeration, and files to be read.     *)
(***************************************************************************)
EXTENDS MapPlanning, MCMaps
LOCAL INSTANCE SequencesExt
LOCAL INSTANCE FiniteSetsExt

\* A unit is smaller than the gap that counts: nodes are 100 units apart, the
\* real ones one metre or so.
MCTolerance == 10
MCGapTolerance == 2
Spacing == 100

-----------------------------------------------------------------------------
(* Files.                                                                  *)

\* The file of a drawing, with nodes a little beside where they were drawn.
Measured(width, height, obstacles, Noise(_)) ==
  LET drawn == GenerateGridMapData(width, height, obstacles, Spacing)
  IN ExportLif([drawn EXCEPT !.world_positions =
       [c \in DOMAIN @ |-> <<@[c][1] + Noise(c)[1], @[c][2] + Noise(c)[2]>>]])

Exact(c) == <<0, 0>>
Beside(c) == <<c[2] % 2, c[1] % 2>>                \* less than GapTolerance
Askew(c) == <<3 * (c[2] % 2), 3 - 3 * (c[1] % 2)>>   \* between the tolerances

\* Without the edges at some nodes, which makes obstacles of them.
Without(file, nodes) ==
  LET edges == file.layouts[1].edges
  IN File(<< Layout(file.layouts[1].nodes,
                    SelectSeq(edges, LAMBDA e : e[1] \notin nodes /\ e[2] \notin nodes)) >>)

Grid(width, height) == Measured(width, height, {}, Exact)

Case(file, start, goal, obstacles) ==
  [file |-> file, start |-> start, goal |-> goal, obstacles |-> obstacles]

-----------------------------------------------------------------------------
(* Problems.  Rows count from below in a file.                             *)

\* Two agents on an open 3x2 grid: one rests where the other has to pass, or
\* they cross.
Open3x2 ==
  {Case(Grid(3, 2), << <<0, 0>>, <<2, 0>> >>, goals, {}) :
     goals \in { << <<1, 0>>, <<0, 0>> >>, << <<2, 1>>, <<0, 1>> >> }}

\* A corridor with a niche, in which two agents have to change places.  There
\* are robots beside the niche, or no way.
Niche ==
  {Case(Grid(3, 2), << <<0, 0>>, <<2, 0>> >>, << <<2, 0>>, <<0, 0>> >>, {<<0, 1>>, <<2, 1>>}),
   Case(Without(Grid(3, 2), {<<0, 1>>, <<2, 1>>}),
        << <<0, 0>>, <<2, 0>> >>, << <<2, 0>>, <<0, 0>> >>, {})}

\* An agent rests in the way of another, and has to step aside.
StepAside ==
  Case(Grid(3, 2), << <<0, 0>>, <<1, 0>> >>, << <<2, 0>>, <<1, 0>> >>, {<<0, 1>>, <<2, 1>>})

\* Three agents: one rests, the third has to let the second pass.
ThreeAgents ==
  Case(Measured(3, 2, {}, Beside),
       << <<2, 1>>, <<0, 0>>, <<1, 1>> >>, << <<2, 1>>, <<2, 0>>, <<1, 0>> >>, {})

\* Two agents start in one place.
SameStart == Case(Grid(2, 2), << <<0, 0>>, <<0, 0>> >>, << <<1, 0>>, <<0, 1>> >>, {})

\* An agent is where no edge leads.
Stranded == Case(Without(Grid(2, 2), {<<1, 1>>}), << <<1, 1>> >>, << <<0, 0>> >>, {})

\* Drawings with an obstacle between start and goal, which is a gap.
GapCases ==
  {Case(Measured(3, 2, {<<1, 0>>}, Exact), << <<0, 0>> >>, << <<2, 0>> >>, {}),
   Case(Measured(3, 3, {<<1, 1>>}, Exact), << <<0, 1>> >>, << <<2, 1>> >>, {})}

Unknown == Case(Grid(2, 2), << <<0, 0>> >>, << <<5, 5>> >>, {})

SolverCases ==
  Open3x2 \cup Niche \cup GapCases \cup {StepAside, ThreeAgents, SameStart, Stranded, Unknown}

-----------------------------------------------------------------------------
(* Files without a problem.                                                *)

\* All drawings of up to 3x3 cells with some cell left, measured in three ways.
Drawings ==
  {d \in [width : 0 .. 3, height : 1 .. 3, obstacles : SUBSET ((0 .. 2) \X (0 .. 2))] :
     /\ DrawingIsValid(d.width, d.height, d.obstacles)
     /\ Cardinality(d.obstacles) < d.width * d.height}

DrawnFiles(d) ==
  {Measured(d.width, d.height, d.obstacles, Exact),
   Measured(d.width, d.height, d.obstacles, Beside),
   Measured(d.width, d.height, d.obstacles, Askew)}

A == <<0, 0>>
B == <<1, 0>>
C == <<1, 1>>
Corner == << Node(A, <<0, 0>>), Node(B, <<Spacing, 0>>) >>

BadFiles ==
  {NoFile, File(Missing), File(Grid(2, 1).layouts \o Grid(1, 2).layouts)}
    \cup {File(<< layout >>) : layout \in {
       Layout(Missing, <<>>),
       Layout(Corner \o << Node(B, <<0, Spacing>>) >>, <<>>),
       Layout(Corner \o << Node(Missing, <<0, Spacing>>) >>, <<>>),
       Layout(Corner \o << Node(C, Missing) >>, <<>>),
       Layout(Corner, << <<A, B>>, <<B, C>> >>),
       Layout(Corner, << <<A, Missing>> >>),
       Layout(Corner \o << Node(C, <<0, 0>>) >>, <<>>),
       Layout(<< Node(A, <<0, 0>>), Node(B, <<0, 0>>) >>, <<>>)}}

MCCases ==
  SolverCases
    \cup {Case(f, <<>>, <<>>, {}) : f \in BadFiles \cup UNION {DrawnFiles(d) : d \in Drawings}}


-----------------------------------------------------------------------------
(* The cheapest solutions.                                                 *)

\* A grid as a graph of its free locations.
Free(p) ==
  ((0 .. p.dimension[1] - 1) \X (0 .. p.dimension[2] - 1)) \ p.obstacles

GridMoves(p) ==
  {e \in Free(p) \X Free(p) : Distance(e[1][1], e[2][1]) + Distance(e[1][2], e[2][2]) = 1}

Problems ==
  {ProblemOf(GridOf(LoadLif(c.file)), c) : c \in SolverCases \ {Unknown, Stranded}}

\* The solutions of minimal cost with paths of at most 6 positions, 4 of three
\* agents.
CheapestOf(p) ==
  Cheapest([a \in DOMAIN p.start |->
              PathsTo(p.start[a], p.goal[a], GridMoves(p), IF Len(p.start) = 3 THEN 4 ELSE 6)])

Optimal == [p \in Problems |-> CheapestOf(p)]

-----------------------------------------------------------------------------
(* Properties.                                                             *)

\* The grid is the drawing: every node gets the column and the row it was
\* drawn in, counted from the left and from the top of what there is, whatever
\* the errors of measurement and the obstacles left out (snap_to_grid with
\* _infer_spacing, whose greatest common divisor stops at a tolerance).  A
\* drawing without two free neighbours has no spacing of its own.
GridIsTheDrawing ==
  phase = "ready" /\ case.start = <<>> /\ map_data.edges # <<>> =>
    LET cells == DOMAIN map_data.world_positions
        left == Min({c[1] : c \in cells})
        top == Max({c[2] : c \in cells})
    IN /\ \A c \in cells : grid_map.grid_nodes[c] = <<c[1] - left, top - c[2]>>
       /\ grid_map.dimension = <<Max({c[1] : c \in cells}) - left + 1,
                                 top - Min({c[2] : c \in cells}) + 1>>

\* The answer of the search is a cheapest solution, and it has one when
\* one exists (CBS.search: the cheapest node is taken first).
AnswerIsOptimal ==
  problem \in Problems =>
    /\ phase = "found" => node.solution \in Optimal[problem]
    /\ phase = "none" => Optimal[problem] = {}

\* As long as the search goes on, a node that is open or about to be computed
\* leaves some cheapest solution to the agents: splitting on a conflict and
\* leaving out equal nodes never loses the last one of them.
OptimumStaysOpen ==
  phase \in {"compute", "a_star"} /\ problem \in Problems =>
    \/ Optimal[problem] = {}
    \/ \E k \in {n.constraints : n \in open_nodes} \cup {new_nodes[i] : i \in DOMAIN new_nodes} :
         \E best \in Optimal[problem] :
           \A a \in Agents(problem) : KeepsTo(best[a], k[a])

=============================================================================
