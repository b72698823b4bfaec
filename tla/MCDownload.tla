----------------------------- MODULE MCDownload -----------------------------
EXTENDS Download

\* Of the orders of a directory one is taken: the files by their size, then
\* directories, what may not be copied, and free places.
Weight(e) ==
  CASE kind[e] = "file" -> Len(source[e])
    [] kind[e] = "dir" -> MaxFile + 2
    [] kind[e] = "other" -> MaxFile + 3
    [] kind[e] = "absent" -> MaxFile + 4

PackedInit == Init /\ \A e \in 1..MaxEntry - 1 : Weight(e) <= Weight(e + 1)
PackedSpec == PackedInit /\ [][Next]_vars /\ Fairness
=============================================================================
