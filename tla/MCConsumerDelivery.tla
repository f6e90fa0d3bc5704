------------------------- MODULE MCConsumerDelivery -------------------------
(* Small instances of ConsumerDelivery. *)
EXTENDS ConsumerDelivery, TLC

Workers_Symmetric == Permutations(Workers)
============================================================================
