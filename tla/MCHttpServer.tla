---------------------------- MODULE MCHttpServer ----------------------------
(***************************************************************************)
(* Small instances of the server: what clients may send.                   *)
(***************************************************************************)
EXTENDS HttpServer, TLC

R(kind, header) == [kind |-> kind, close |-> header]

KeepAlive == {R("get", FALSE)}
Doubly == {R("get", FALSE), R("get", TRUE), R("create", FALSE)}
Anything == {R("get", FALSE), R("get", TRUE), R("post", FALSE), R("post", TRUE),
             R("create", FALSE)}

Symmetry == Permutations(Clients) \union Permutations(Servers)
=============================================================================
