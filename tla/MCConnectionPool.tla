--------------------------- MODULE MCConnectionPool ---------------------------
(* Small instances of ConnectionPool for TLC.                              *)
EXTENDS ConnectionPool, TLC

CONSTANTS render, identify, nested

\* A rendering iterator that opens another one while it reads, and one of the
\* main thread.
MCIterators == {render, identify, nested}
MCOuter == render :> None @@ identify :> None @@ nested :> render
MCMainIterators == {identify}

MCTwoIterators == {render, identify}
MCNotNested == render :> None @@ identify :> None

=============================================================================
