----------------------------- MODULE MCSampler -----------------------------
(***************************************************************************)
(* TraceDraw for every double ratio of a small precision and every trace   *)
(* id of a small word.                                                     *)
(***************************************************************************)
EXTENDS TraceDraw

\* All doubles between a half and 1, between an eighth and a quarter, those of
\* the finest grain near 0, and values beyond both ends.
MCRatios ==
  {<<n, Precision>> : n \in (Precision \div 2) .. Precision}
    \cup {<<n, 4 * Precision>> : n \in (Precision \div 2) .. Precision}
    \cup {<<n, 4 * (WordMax + 1)>> : n \in 0 .. (Precision - 1)}
    \cup {<<-1, 2>>, <<3, 2>>}
=============================================================================
