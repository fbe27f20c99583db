------------------------- MODULE MCHandoffBarrier -------------------------
(***************************************************************************)
(* Submissions for HandoffBarrier. A worker's further attempt has an id, a  *)
(* key and a lease of its own; the worker may also hand over another packet *)
(* under the first lease, or use the id or the key of an earlier submission. *)
(***************************************************************************)
EXTENDS HandoffBarrier

Offer(id, key, source, version, packet, lease) ==
  [id |-> id, key |-> key, source |-> source, version |-> version, packet |-> packet,
   lease |-> lease]

\* Two predecessors; of the first a packet, another one, the first again under a new
\* id, and one for the barrier's second version; of the second a packet with open
\* questions, one without, one whose key and one whose id are the other worker's.
TwoWorkers ==
  {Offer("h1", "k1", "a", 1, "p1", "la"), Offer("h2", "k2", "a", 1, "p2", "la"),
   Offer("h3", "k3", "a", 1, "p1", "la"), Offer("h4", "k4", "a", 2, "p1", "la"),
   Offer("h5", "k5", "b", 1, "q1", "lb"), Offer("h6", "k6", "b", 1, "q2", "lb"),
   Offer("h7", "k1", "b", 2, "q2", "lb"), Offer("h1", "k8", "b", 1, "q2", "lb")}

===========================================================================
