--------------------------- MODULE SweepProperties ---------------------------
(***************************************************************************)
(* What a sweep promises of its rows.                                      *)
(***************************************************************************)
EXTENDS Sweep

(* The index vectors of the product, in the order of nested loops: the first
   axis outermost, the last changing on every point. *)
Vectors(axes) ==
  {v \in [DOMAIN axes -> UNION {1 .. Sizes(axes)[k] : k \in DOMAIN axes}] :
     \A k \in DOMAIN axes : v[k] <= Sizes(axes)[k]}

Before(u, v) == \E k \in DOMAIN u : u[k] < v[k] /\ \A j \in 1 .. k - 1 : u[j] = v[j]

ValuesOf(axes, p) ==
  LET nth == CHOOSE v \in Vectors(axes) : Cardinality({u \in Vectors(axes) : Before(u, v)}) = p
  IN  [k \in DOMAIN axes |-> axes[k].values[nth[k]]]

(* The base with one value set for each of the first axes, in axis order: for
   none, for one, ..., for all. *)
TreesWith(base, axes, values) ==
  LET tree[k \in 0 .. Len(axes)] ==
        IF k = 0 THEN base ELSE SetPath(tree[k - 1], axes[k].path, values[k])
  IN  tree

(* Row N of a sweep is point N of the product, run with the base configuration
   and the overrides of that point alone, however the threads interleave; a
   point that fails says so in its own row, and in no other. *)
EveryRowItsPoint ==
  \A p \in DOMAIN results : results[p] # NoRow \/ stage = "reported" =>
    LET values == ValuesOf(spec.axes, p)
        tree   == TreesWith(spec.base, spec.axes, values)[Len(spec.axes)]
    IN  /\ results[p].axis_values = values
        /\ results[p].ok <=> Accepts(tree)
        /\ results[p].ok => results[p].metric = Metric(tree)

(* A sweep always comes to its report, whatever its points do, or is refused
   before any of them runs. *)
SweepReports == <> (stage \in {"reported", "refused"})
=============================================================================
