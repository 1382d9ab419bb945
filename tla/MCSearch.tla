------------------------------- MODULE MCSearch -------------------------------
(* Small vaults in which something is searched. Each setup is one question: the *)
(* ways to cut a body, a local server and a daemon while notes change, a client *)
(* of the API that others use, processes with other configurations.            *)
EXTENDS Search

CONSTANTS a, b, c, d,                  \* notes
          v, w,                        \* words
          title, part, chapter,        \* headings
          tick, tilde,                 \* fences
          work, void, other            \* scopes, of which one is not defined, and another caller

MCLevel == title :> 1 @@ part :> 2 @@ chapter :> 2
MCScope == All :> {a, b, c, d} @@ work :> {b, c, d}

Env(target, overlap, packing) == [target |-> target, overlap |-> overlap, packing |-> packing]
Default == Env(Missing, Missing, FALSE)
Empty == [n \in Notes |-> Gone]
Of(texts) == [n \in Notes |-> IF n \in DOMAIN texts THEN texts[n] ELSE Gone]

Setup(backend, disks, requests, texts) ==
    [backend |-> backend, disks |-> disks, requests |-> requests, texts |-> texts,
     edits |-> 1, restarts |-> 0, envs |-> {Default}, others |-> {}]

-----------------------------------------------------------------------------
(* Bodies.                                                                     *)

Atoms == {w, Space, Newline, title, tick}
Short == UNION {[1..k -> Atoms] : k \in 1..4}
Long == {
    <<title, Newline, w, Stop, Space, w, w, Newline, Newline, w, Space, w, w, w, Newline, w>>,
    <<w, Newline, part, Newline, w, w, chapter, Newline, Space, chapter, Newline, title, Newline, v>>,
    <<title, Newline, part, Newline, tick, Newline, title, Newline, tilde, Newline, tick, Newline, w>>,
    <<part, Newline, chapter, Newline, w, w, w, w, w, w, w, w, w, w, w, Newline, title>>,
    <<w, w, w, w, w, Stop, Newline, w, w, w, Stop, Space, w, Space, w, w, w, w>>}
Cuts == [Setup("local", {Of(a :> body) : body \in Short \cup Long}, {}, {}) EXCEPT
            !.edits = 0, !.envs = {Default, Env(5, 0, FALSE), Env(6, 9, TRUE), Env(1, 2, TRUE)}]

-----------------------------------------------------------------------------
(* Searches.                                                                   *)

Ask1(tool, q, scope, k) == [tool |-> tool, q |-> q, scope |-> scope, k |-> k]
Some == <<w, w, Newline, part, Newline, v, w, v>>
Less == <<part, Newline, w, v, v>>
None1 == <<v, Newline>>
Vault == a :> Some @@ b :> Less @@ c :> None1 @@ d :> <<w, w, w>>

Locals == Setup("local", {Of(Vault)},
    {Ask1("semantic", w, All, 1), Ask1("semantic", w, work, 2), Ask1("hybrid", w, work, 1),
     Ask1("hybrid", w, All, 2), Ask1("fused", v, work, 2), Ask1("fused", w, All, 1),
     Ask1("related", a, All, 2), Ask1("related", b, work, 3), Ask1("related", b, void, 1),
     Ask1("text", v, All, 2), Ask1("semantic", w, void, 1)},
    {Gone, Less})
Daemons == Setup("daemon", {Of(Vault)},
    {Ask1("semantic", w, All, 1), Ask1("semantic", v, work, 2), Ask1("hybrid", w, All, 2),
     Ask1("hybrid", v, work, 1)}, {Gone, Some})

\* The API client with others that use it.
Shared == [Setup("local", {Of(a :> Some @@ b :> <<w>> @@ d :> <<Newline>>)},
                 {Ask1("semantic", w, All, 1), Ask1("related", d, All, 1)}, {Less})
              EXCEPT !.others = Callers \ {Query, Job}]

\* A process that starts with another configuration on the vectors of the last one.
Restarted == [Setup("local", {Of(a :> Some @@ b :> Less)},
                    {Ask1("semantic", w, All, 1), Ask1("related", a, All, 2)}, {Less})
                 EXCEPT !.restarts = 1, !.envs = {Default, Env(6, Missing, FALSE)}, !.edits = 0]
Repacked == [Setup("local", {Of(a :> <<w, Newline, part, Newline>> @@ b :> Less)},
                   {Ask1("semantic", w, All, 1)}, {})
                EXCEPT !.restarts = 1, !.envs = {Default, Env(Missing, Missing, TRUE)}, !.edits = 0]

MCSetups   == <<Cuts, Locals, Daemons, Shared, Restarted>>
PackSetups == <<Repacked>>
===============================================================================
