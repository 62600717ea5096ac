------------------------------- MODULE MCSweep -------------------------------
(* Small instances of Sweep. *)
EXTENDS SweepProperties

Channels  == <<"topology", "channels">>
Depth     == <<"ddrc_resources", "command_queue_depth">>
Resources == <<"ddrc_resources">>
Rank      == <<"address_mapping", "rank", "bit_width">>

BaseTree == (Channels :> 1) @@ (Depth :> 2)

Axis(path, values) == [path |-> path, values |-> values]

At(tree, path) == IF path \in DOMAIN tree THEN tree[path] ELSE 0

(* Three channels are no power of two. *)
Loads(tree) == At(tree, Channels) # 3

(* Every leaf of an accepted tree shows. *)
Bandwidth(tree) ==
  At(tree, Channels) + 10 * At(tree, Depth) + 100 * At(tree, Rank) + 1000 * At(tree, Resources)

Asked(axes, jobs) ==
  [base |-> BaseTree, axes |-> axes, jobs |-> jobs, has_baseline |-> TRUE, baseline |-> 0]

SomeSpecs ==
  {[Asked(axes, jobs) EXCEPT !.baseline = b] :
     axes \in {<<>>, <<Axis(Channels, <<3, 2>>), Axis(Depth, <<4, 0>>)>>,
               <<Axis(Rank, <<0, 1, 2>>)>>,
               <<Axis(Rank, <<>>), Axis(Channels, <<1>>)>>},
     jobs \in {0, 2, 8}, b \in {0, 1}}
    \cup {[Asked(<<Axis(Depth, <<1, 5>>), Axis(Resources, <<7>>), Axis(Channels, <<1, 3>>)>>, 2)
             EXCEPT !.has_baseline = FALSE]}
=============================================================================
