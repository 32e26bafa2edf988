----------------------------- MODULE MCDownload -----------------------------
(* An instance of Download: two entries, one with two mirrors.             *)
EXTENDS Download

CONSTANTS debian, alpine

TwoEntries == {debian, alpine}
OneFileEach == [e \in Entry |-> IF e = debian THEN "debian.iso" ELSE "alpine.iso"]
TwoMirrorsOrOne == [e \in Entry |-> IF e = debian THEN 2 ELSE 1]

\* A mirror that says nothing of the length, one that tells it, and one whose
\* Content-Length is that of a compressed body.
Lengths == {Unknown, 1, Size}
=============================================================================
