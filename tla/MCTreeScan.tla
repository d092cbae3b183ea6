----------------------------- MODULE MCTreeScan -----------------------------
(* TreeScan on two small trees.                                            *)
EXTENDS TreeScan

\* The root streams two chunks, the second one without a child in it; 6 streams
\* one and may lose its worker before or after it; 2 comes back whole; 3, below
\* it, cannot be opened.  8 sorts after the file its parent lists later.
Tree == 1 :> <<6, 2, 9>> @@ 2 :> <<3>> @@ 3 :> <<>> @@ 6 :> <<8, 7>> @@ 8 :> <<>>

\* A directory that streams a chunk without any child before its worker dies.
ChildlessChunk == 1 :> <<2>> @@ 2 :> <<8, 9, 7>>
=============================================================================
