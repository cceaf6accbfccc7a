------------------------------ MODULE Tenancy -------------------------------
(***************************************************************************)
(* What the proxy does to a request of a partition: the physical target,    *)
(* id, routing and filter a placement gives it (crates/osproxy-tenancy,     *)
(* crates/osproxy-rewrite, engine/src/plan.rs and read.rs), and the way     *)
(* back from a physical document to what the client is shown.               *)
(*                                                                          *)
(* Names are sequences of characters, because physical ids are put          *)
(* together from a partition, an id and the literals of a template.  A      *)
(* template is a sequence of characters and the two placeholders; an id     *)
(* rule is a template and whether documents are routed by partition.        *)
(***************************************************************************)
EXTENDS Naturals, Sequences, FiniteSets, SequencesExt

CONSTANTS
  Partitions,   \* the partitions (tenants), each a sequence of characters
  None          \* no value

\* Nothing is assumed of the names' characters: two partitions may have physical ids in
\* common under one template.
ASSUME TenancyAssumption ==
  None \notin Partitions /\ \A p \in Partitions : p \in Seq(Range(p))

\* A placement: its kind, its cluster and, unless the cluster is dedicated, its
\* index.  A shared index injects the partition id into every document.
PlacementKinds == {"SharedIndex", "DedicatedIndex", "DedicatedCluster"}

-----------------------------------------------------------------------------
(* Id templates: spi/src/rules.rs, rewrite/src/id.rs. *)

PartitionHole == "{partition}"
BodyHole == "{body.id}"

references_partition(template) == \E k \in DOMAIN template : template[k] = PartitionHole

\* What one piece of a template contributes.
filled(piece, p, id) ==
  IF piece = PartitionHole THEN p ELSE IF piece = BodyHole THEN id ELSE <<piece>>

construct_id(template, p, id) ==
  FlattenSeq([k \in DOMAIN template |-> filled(template[k], p, id)])

\* A template maps back only if it has exactly one {body.*} placeholder.
reversible(template) == Cardinality({k \in DOMAIN template : template[k] = BodyHole}) = 1

\* The text before and after the logical id.
id_frame(template, p) ==
  LET hole == CHOOSE k \in DOMAIN template : template[k] = BodyHole
  IN [prefix |-> construct_id(SubSeq(template, 1, hole - 1), p, <<>>),
      suffix |-> construct_id(SubSeq(template, hole + 1, Len(template)), p, <<>>)]

\* The logical id in its frame.
framed_id(template, p, id) ==
  LET f == id_frame(template, p) IN f.prefix \o id \o f.suffix

-----------------------------------------------------------------------------
(* resolve.rs, router.rs *)

\* The reference adapter's key: the body's tenant_id field, else the header.
resolve_partition(field, header) == IF field # None THEN field ELSE header

target_for(pl, logical_index) ==
  [cluster |-> pl.cluster,
   index |-> IF pl.kind = "DedicatedCluster" THEN logical_index ELSE pl.index]

\* A shared index needs an id rule that references the partition.
scoped_enough(pl, rule) ==
  pl.kind = "SharedIndex" => rule # None /\ references_partition(rule.template)

\* The transform: whether the partition is injected, and the id rule.
build_transform(pl, rule) == [inject |-> pl.kind = "SharedIndex", id |-> rule]

\* resolve_placement(): the decision of one read of the placement.
decision(p, at, rule, logical_index) ==
  [partition |-> p, target |-> target_for(at.placement, logical_index), epoch |-> at.epoch,
   transform |-> build_transform(at.placement, rule)]

-----------------------------------------------------------------------------
(* plan.rs, read.rs: ids and routing of a decision. *)

\* The id an index operation is sent with; without a rule the upstream makes one up.
build_id(d, id) ==
  IF d.transform.id = None THEN None ELSE construct_id(d.transform.id.template, d.partition, id)

\* Whether a logical id can be turned into a physical one.
mappable(d) == d.transform.id = None \/ reversible(d.transform.id.template)

map_logical_to_physical(d, id) ==
  IF d.transform.id = None THEN id
  ELSE framed_id(d.transform.id.template, d.partition, id)

\* An id outside the partition's frame, or of a template that cannot be mapped
\* back, is left as it is.
map_physical_to_logical(d, physical) ==
  IF d.transform.id = None \/ ~mappable(d) THEN physical
  ELSE LET f == id_frame(d.transform.id.template, d.partition)
       IN IF IsPrefix(f.prefix, physical) /\ IsSuffix(f.suffix, physical)
               /\ Len(f.prefix) + Len(f.suffix) <= Len(physical)
          THEN SubSeq(physical, Len(f.prefix) + 1, Len(physical) - Len(f.suffix))
          ELSE physical

\* A rule that asks for routing gives documents the partition as their routing.
routing_for(d) ==
  IF d.transform.id # None /\ d.transform.id.set_routing THEN d.partition ELSE None

-----------------------------------------------------------------------------
(* fields.rs, query.rs, read.rs *)

\* A client document must not bring the field the proxy injects.
collides(d, client_field) == d.transform.inject /\ client_field # None

\* What the document carries in the injected field once it is stored.
inject_fields(d, client_field) ==
  IF d.transform.inject THEN d.partition ELSE client_field

\* The search filter: the partition, where it is injected.
filter_terms(d) == IF d.transform.inject THEN d.partition ELSE None

\* suggest and global aggregations look past the query's filter.
reject_unfilterable(d, query) == filter_terms(d) # None /\ query \in {"global", "suggest"}

\* Mutant, in no specification.
shape_hit_unstripped(d, logical_index, doc) ==
  [index |-> logical_index, id |-> map_physical_to_logical(d, doc.id), field |-> doc.field]

\* One hit as the client is shown it: the logical index and id, without the
\* injected field.
shape_hit(d, logical_index, doc) ==
  [index |-> logical_index, id |-> map_physical_to_logical(d, doc.id),
   field |-> IF d.transform.inject THEN None ELSE doc.field]

\* shape_found(): a get answers with the id that was asked for.
shape_found(d, logical_index, logical_id, doc) ==
  [shape_hit(d, logical_index, doc) EXCEPT !.id = logical_id]

\* A document that is passed on as the upstream sent it.
raw_hit(doc) == [index |-> doc.index, id |-> doc.id, field |-> doc.field]
=============================================================================
