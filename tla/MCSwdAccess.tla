----------------------------- MODULE MCSwdAccess -----------------------------
(* The access layer with pages of two words, two access ports one of which is  *)
(* not analysed yet, and a word that may be refused or differ.                 *)
EXTENDS SwdAccess

MemoryRequest(op, a, m, refused, differs) ==
    [op |-> op, adr |-> a, many |-> m, refused |-> refused, differs |-> differs]

\* An odd start, ends of no, one and two bytes behind the last word, blocks that
\* end before the page does, with it, and go on behind it; a refused word in a
\* block, at the end of one, and in a single access; a word that differs, and one
\* that a verify must not reach.
MCRequests == {
    MemoryRequest("write", 3, 13, {1, 3}, {}),
    MemoryRequest("read", 3, 11, {}, {}),
    MemoryRequest("read", 3, 11, {3}, {}),
    MemoryRequest("verify", 4, 8, {}, {3}),
    MemoryRequest("verify", 4, 9, {}, {2})}

MCPorts == {0, 1}
=============================================================================
