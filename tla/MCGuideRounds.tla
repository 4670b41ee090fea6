---------------------------- MODULE MCGuideRounds ----------------------------
(* GuideRounds for TLC: two guides whose PDFs may share a name. *)
EXTENDS GuideRounds

CONSTANTS g1, g2, n1, n2, h1, h2

MCGuides == {g1, g2}
MCNames == {n1, n2}

\* g1 is complete HTML under one title or a publisher's PDF under another; g2 is
\* HTML that may lack one image or another.
MCOffers ==
  [g \in MCGuides |->
     IF g = g1
     THEN {[format |-> "html", holes |-> {}, name |-> n1], [format |-> "pdf", holes |-> {}, name |-> n2]}
     ELSE {[format |-> "html", holes |-> h, name |-> n1] : h \in {{}, {h1}, {h2}}}]
=============================================================================
