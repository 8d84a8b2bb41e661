--------------------------- MODULE MCMovieRename ---------------------------
EXTENDS MovieRename

CONSTANTS f1, f2, f3, inbox, inbox2, title, titleMp4, alt, alt2

\* f1 and f3 come under the same name, the third file replacing the first one
\* in the inbox; f2 has another extension and the best quality.

MCSource == [f \in Files |-> IF f = f2 THEN inbox2 ELSE inbox]
MCCanonical == [f \in Files |-> IF f = f2 THEN titleMp4 ELSE title]
MCAlternate == [f \in Files |-> IF f = f2 THEN alt2 ELSE alt]
MCTier == [f \in Files |-> IF f = f2 THEN 3 ELSE IF f = f3 THEN 2 ELSE 1]
MCSize == [f \in Files |-> IF f = f2 THEN 3 ELSE IF f = f3 THEN 2 ELSE 1]
=============================================================================
