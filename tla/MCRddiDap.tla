----------------------------- MODULE MCRddiDap -----------------------------
(* The RDDI library with a count byte of three values, chunks of two words *)
(* and a chain captured in three words of two bits.                          *)
EXTENDS RddiDap

\* Every block of two entries, and longer ones with match retries first,
\* last, repeated and around batches that do and do not fit.
Long == {<<"read", "read", "read">>,
         <<"write", "match", "write">>,
         <<"write", "read", "match", "read">>,
         <<"retry", "mask", "match", "read">>,
         <<"read", "retry", "match", "read">>,
         <<"read", "retry", "write", "retry", "read">>,
         <<"retry", "retry", "retry", "read">>,
         <<"retry", "read", "retry", "retry">>,
         <<"retry", "write", "read", "match">>}

MCRequests ==
    [fn : {"RegAccessBlock"}, regs : {<<>>} \cup Long \cup UNION {[1 .. n -> Kinds] : n \in 1 .. 2}]
    \cup [fn : {"ReadReg"}, regs : {<<"read">>}]
    \cup [fn : {"WriteReg", "WriteAbort"}, regs : {<<"write">>}]
    \cup [fn : {"RegReadRepeat"}, regs : {<<"read", "read">>}]
    \cup [fn : {"RegWriteRepeat"}, regs : {[k \in 1 .. n |-> "write"] : n \in 0 .. 5}]
    \cup [fn : {"DetectSwd"}, regs : {<<"read", "read">>}]
    \cup [fn : Orders \cup {"DetectJtag"}, regs : {<<>>}]
=============================================================================
