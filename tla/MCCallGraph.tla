------------------------------ MODULE MCCallGraph ------------------------------
(* Instances of CallGraph for TLC: three files and what becomes of them.   *)
EXTENDS CallGraph, TLC

CONSTANTS a, b, c, af, ag, bg, bk, bh, cg, f, g, h

MCOrder == <<a, b, c>>
MCFileOf == af :> a @@ ag :> a @@ bg :> b @@ bk :> b @@ bh :> b @@ cg :> c
MCNameOf == af :> f @@ ag :> g @@ bg :> g @@ bk :> g @@ bh :> h @@ cg :> g

Far(x) == [near |-> <<>>, far |-> <<x>>]
Near(x, y) == [near |-> <<x>>, far |-> <<y>>]

\* a calls g and h of others, by name or by import, then defines a g itself.
\* b has two symbols called g; h and one of them go.  c calls itself, is
\* deleted and comes back with another call.
MCHistory ==
    a :> <<[defs |-> <<af>>, calls |-> {<<af, g>>, <<af, h>>}, imports |-> <<Far(c)>>],
           [defs |-> <<af, ag>>, calls |-> {<<af, g>>, <<ag, h>>},
            imports |-> <<Near(b, c)>>]>> @@
    b :> <<[defs |-> <<bg, bk, bh>>, calls |-> {<<bh, g>>, <<bk, f>>}, imports |-> <<>>],
           [defs |-> <<bg>>, calls |-> {}, imports |-> <<Far(a), Far(c)>>]>> @@
    c :> <<[defs |-> <<cg>>, calls |-> {<<cg, g>>}, imports |-> <<>>],
           Absent,
           [defs |-> <<cg>>, calls |-> {<<cg, f>>}, imports |-> <<Near(a, b)>>]>>

MCLsp == {<<af, bh>>}

=============================================================================
