--------------------------- MODULE MCTopicPrefetch ---------------------------
(* TopicPrefetch for TLC: workers are model values of the configurations. *)
EXTENDS TopicPrefetch
=============================================================================
