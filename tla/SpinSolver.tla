----------------------------- MODULE SpinSolver -----------------------------
(***************************************************************************)
(* One start of run_solver (src/bin/bio_quantum_record.rs): spins coupled  *)
(* by a drawn graph and, all of them, to a reference, are flipped one by   *)
(* one, first at a falling temperature and then where that helps most.     *)
(* The local fields, the overlap with the reference, the packed bits and   *)
(* the energy are never computed anew: each flip adds what it changes.     *)
(*                                                                         *)
(* Numbers are integers, fields are multiplied by the number of spins and  *)
(* energies by twice that; random numbers are choices.  The starts share   *)
(* nothing.  An operator named Bug... is a mutated form of the definition  *)
(* after it.                                                               *)
(***************************************************************************)
EXTENDS Integers, FiniteSets, Functions

CONSTANTS
    Spins,         \* 1 .. n
    Reference,     \* ref_spin
    Bias,          \* h
    Alpha,
    Draws,         \* graphs: functions from spins to [to, w], the edge each draws
    MaxSteps,      \* cfg.steps
    PlateauLimit,
    Baselines      \* which solvers run: TRUE is the baseline

ASSUME SpinsAssumption == IsFiniteSet(Spins) /\ Spins \subseteq Nat
ASSUME FieldsAssumption ==
    Reference \in [Spins -> {-1, 1}] /\ Bias \in [Spins -> Int] /\ Alpha \in Int
ASSUME DrawsAssumption ==
    \A draws \in Draws :
        /\ draws \in [Spins -> [to : Spins, w : Int]]
        /\ \A i \in Spins : draws[i].to # i

VARIABLES
    weight,        \* weight[<<i, j>>]: what row i of the matrix says of j
    spin,
    packed,        \* spins whose bit is set
    sparse_local,
    m_ref,
    search,        \* [baseline, phase, step, no_imp, e, best, rounds]
    \* history
    flips,         \* flips annealing has accepted
    annealed       \* the energy when annealing ended

ssVars == <<weight, spin, packed, sparse_local, m_ref, search, flips, annealed>>

Size == Cardinality(Spins)
Edges == DOMAIN weight

-----------------------------------------------------------------------------

\* An edge is written into both rows; of several to one neighbour, a row keeps
\* any one: the sort before dedup is not stable.
Drawn(draws, i, j) ==
    {draws[k].w : k \in {k \in {i, j} : draws[k].to \in {i, j}}}
Matrices(draws) ==
    LET edges == {e \in Spins \X Spins : e[1] # e[2] /\ Drawn(draws, e[1], e[2]) # {}}
    IN  {m \in [edges -> UNION {Drawn(draws, e[1], e[2]) : e \in edges}] :
            \A e \in edges : m[e] \in Drawn(draws, e[1], e[2])}

Row(i) == {j \in Spins : <<i, j>> \in Edges}

(* What init_state computes of the spins.                                  *)
FieldAt(i) == Bias[i] + SumFunction([j \in Row(i) |-> weight[<<i, j>>] * spin[j]])
Overlap == SumFunction([i \in Spins |-> spin[i] * Reference[i]])

local_field(i) == Alpha * m_ref * Reference[i] + Size * sparse_local[i]

energy ==
    - Alpha * m_ref * m_ref
    - 2 * Size * SumFunction([i \in Spins |-> Bias[i] * spin[i]])
    - 2 * Size * SumFunction([e \in {e \in Edges : e[1] < e[2]} |->
                                 weight[e] * spin[e[1]] * spin[e[2]]])

SSInit ==
    /\ \E draws \in Draws : weight \in Matrices(draws)
    /\ spin \in [Spins -> {-1, 1}]
    /\ packed = {i \in Spins : spin[i] > 0}
    /\ sparse_local = [i \in Spins |-> FieldAt(i)]
    /\ m_ref = Overlap
    /\ \E b \in Baselines :
           search = [baseline |-> b, phase |-> "anneal", step |-> 0, no_imp |-> 0,
                     e |-> energy, best |-> energy, rounds |-> 0]
    /\ flips = 0 /\ annealed = energy

-----------------------------------------------------------------------------

BugNeighbours(i, delta) ==
    [j \in Spins |-> IF <<i, j>> \in Edges
                     THEN sparse_local[j] + weight[<<i, j>>] * (delta \div 2)
                     ELSE sparse_local[j]]

\* The neighbours of a spin get what the row of that spin says.
Neighbours(i, delta) ==
    [j \in Spins |-> IF <<i, j>> \in Edges
                     THEN sparse_local[j] + weight[<<i, j>>] * delta
                     ELSE sparse_local[j]]

apply_flip(i) ==
    LET delta == -2 * spin[i]
    IN  /\ spin' = [spin EXCEPT ![i] = -@]
        /\ packed' = IF i \in packed THEN packed \ {i} ELSE packed \cup {i}
        /\ m_ref' = m_ref + delta * Reference[i]
        /\ sparse_local' = Neighbours(i, delta)

Rests == UNCHANGED <<spin, packed, sparse_local, m_ref>>

\* What a flip is taken to cost, on the scale of the energy.
Cost(i) == 4 * spin[i] * local_field(i)

Tried(e) ==
    LET better == e < search.best
        no_imp == IF better THEN 0 ELSE search.no_imp + 1
    IN  search' = [search EXCEPT
            !.step = @ + 1, !.e = e, !.best = IF better THEN e ELSE @, !.no_imp = no_imp,
            !.phase = IF ~search.baseline /\ no_imp >= PlateauLimit THEN "polish" ELSE @]

(* A flip that costs nothing is made, any other one may be.                *)
Anneal ==
    /\ search.phase = "anneal" /\ search.step < MaxSteps
    /\ \E i \in Spins :
           \/ apply_flip(i) /\ Tried(search.e + Cost(i)) /\ flips' = flips + 1
           \/ Cost(i) > 0 /\ Rests /\ Tried(search.e) /\ UNCHANGED flips
    /\ UNCHANGED weight
    /\ annealed' = energy'

EndAnneal ==
    /\ search.phase = "anneal" /\ search.step = MaxSteps
    /\ search' = [search EXCEPT !.phase = IF search.baseline THEN "done" ELSE "polish"]
    /\ UNCHANGED <<weight, spin, packed, sparse_local, m_ref, flips, annealed>>

(* The first of the spins most at odds with their fields is flipped, again *)
(* and again, as often as there are spins.                                 *)
Margin(i) == spin[i] * local_field(i)
Worst ==
    {i \in Spins : /\ Margin(i) < 0
                   /\ \A j \in Spins \ {i} :
                          Margin(i) < Margin(j) \/ (Margin(i) = Margin(j) /\ i < j)}

Polish ==
    /\ search.phase = "polish" /\ search.rounds < Size
    /\ \E i \in Worst : apply_flip(i)
    /\ search' = [search EXCEPT !.rounds = @ + 1]
    /\ UNCHANGED <<weight, flips, annealed>>

EndPolish ==
    /\ search.phase = "polish"
    /\ search.rounds = Size \/ Worst = {}
    /\ search' = [search EXCEPT !.phase = "done"]
    /\ UNCHANGED <<weight, spin, packed, sparse_local, m_ref, flips, annealed>>

SSNext == Anneal \/ EndAnneal \/ Polish \/ EndPolish

SSSpec == SSInit /\ [][SSNext]_ssVars

-----------------------------------------------------------------------------

(* Rows disagree about an edge that was drawn twice and kept once by each. *)
Agree(i, j) == weight[<<i, j>>] = weight[<<j, i>>]

(* However many flips were made, what is carried along is what it would be *)
(* computed anew: the bits, the overlap, and the field of every spin whose *)
(* neighbours' rows agree with its own.                                    *)
FlipsAddUp ==
    /\ packed = {i \in Spins : spin[i] > 0}
    /\ m_ref = Overlap
    /\ \A i \in Spins :
           (\A j \in Row(i) : Agree(i, j)) => sparse_local[i] = FieldAt(i)

(* Where all rows agree, the running energy is too high by the same amount *)
(* for every flip accepted, that of the spin's coupling to itself through  *)
(* the reference; and what is polished only gets better.                   *)
EnergyIsHonest ==
    (\A e \in Edges : Agree(e[1], e[2])) =>
        /\ search.e = annealed + 4 * Alpha * flips
        /\ energy <= annealed - 4 * Alpha * search.rounds

SolverIsConsistent == FlipsAddUp /\ EnergyIsHonest
=============================================================================
