------------------------ MODULE MCRegistryPipeline ------------------------
(* Instances of RegistryPipeline for TLC.                                  *)
EXTENDS RegistryPipeline, TLC

CONSTANTS nara, pronom, f1, f2

\* The category of a format follows the run whose record of it is used.
EvidenceChange(was, is) ==
  IF {rec.run : rec \in was} # {rec.run : rec \in is} THEN {"category_changed"} ELSE {}

\* Formats are interchangeable; the sources are not (one is required).
FormatSymmetry == Permutations(Format)

=============================================================================
