----------------------------- MODULE MCPipeline -----------------------------
(***************************************************************************)
(* Instances of the walk over symbols, of the browser session, of the       *)
(* partitioned batch and of the native pool for TLC.  They share no state:   *)
(* in each behaviour one of them works, on its own instance, and the others  *)
(* rest.                                                                   *)
(***************************************************************************)
EXTENDS SymbolOutput, IfcSession, Instancing, ElementPool, TLC

VARIABLE part

Lists(S, k) == UNION {[1..n -> S] : n \in 0..k}

Item == {"a", "b", "c"}
File(tops, ka, kb, ea, eb, er) ==
    [products |-> tops,
     kind |-> [a |-> ka, b |-> kb, c |-> "curve", d |-> "set", r |-> "other"],
     elements |-> [a |-> ea, b |-> eb, c |-> <<>>, d |-> <<"c">>, r |-> er],
     rep |-> [a |-> "r", b |-> "r", c |-> NoNode, d |-> NoNode, r |-> NoNode],
     payload |-> [a |-> 0, b |-> 0, c |-> 1, d |-> 0, r |-> 0]]

Items(s) == [grid |-> FALSE, items |-> s]
Grid(s) == [grid |-> TRUE, items |-> s]

SmallFiles ==
    {File(tops, ka, kb, ea, eb, er) :
        tops \in {<<Items(<<"a">>)>>, <<Items(<<"a", "b">>), Items(<<"c">>)>>, <<Grid(<<3, 9, 1>>), Items(<<"a">>)>>},
        ka \in {"set", "mapped"}, kb \in {"set", "mapped"},
        ea \in Lists(Item, 2), eb \in Lists(Item, 2), er \in Lists({"a", "b", "d"}, 1)}

\* Fan-out of fan-out, of items that emit nothing.
Ladder ==
    LET f == File(<<Items(<<"b">>), Items(<<"d">>)>>, "set", "set", <<>>, <<"d", "d", "d">>, <<>>)
    IN  [f EXCEPT !.elements["d"] = <<"r", "r", "r">>]

\* One list that comes back to its items until the budget is spent.
Comeback == File(<<Items(<<"a">>)>>, "set", "set", <<"c", "c", "r", "r", "c">>, <<>>, <<>>)

Files ==
    {Ladder, Comeback} \cup
    {f \in SmallFiles : /\ f.kind["a"] = "mapped" => f.elements["a"] = <<>>
                        /\ f.kind["b"] = "mapped" => f.elements["b"] = <<>>
                        /\ "mapped" \notin {f.kind["a"], f.kind["b"]} => f.elements["r"] = <<>>}

-----------------------------------------------------------------------------
\* Two files whose styles look alike to the session, and one without entities.
CONSTANTS house, annex, blank
ThreeFiles == {house, annex, blank}
OneSignature == [f \in LoadFiles |-> 0]

J(kind, source, opaque, tripped, broken) ==
    [kind |-> kind, source |-> source, opaque |-> opaque, tripped |-> tripped, broken |-> broken]
JobKinds ==
    {J("mapped", "s", o, t, FALSE) : o, t \in BOOLEAN}
    \cup {J("mapped", "s", TRUE, FALSE, TRUE), J("mapped", "t", TRUE, FALSE, FALSE),
     J("solid", "s", TRUE, FALSE, FALSE),
     J("type", "s", TRUE, FALSE, FALSE), J("voided", "s", TRUE, FALSE, FALSE)}
-----------------------------------------------------------------------------
Part(kind, cost, source) == [kind |-> kind, cost |-> cost, source |-> source]
Solid == Part("solid", 0, "none")
Brep == Part("brep", 0, "none")
Broken == Part("broken", 0, "none")
Cut(cost) == Part("cut", cost, "none")
Use(source) == Part("mapped", 0, source)

\* Two elements that use s, and a third that may fail, spends some of a budget
\* and uses t.
Scene(s, t, op, element) ==
    [elements |-> {"e", "f", "g"},
     items |-> [e |-> <<Use("s")>>, f |-> <<Brep, Use("s")>>, g |-> <<Broken, Cut(1), Use("t")>>,
                s |-> s, t |-> t, u |-> <<Solid>>],
     caps |-> [op |-> op, element |-> element]]

\* The caps are ordered as by default, the other way round, and unbounded.
SceneList ==
    {Scene(s, t, cap[1], cap[2]) :
        s \in Lists({Brep, Cut(1), Cut(2), Use("t")}, 2),
        t \in {<<Broken, Solid>>, <<Cut(2)>>, <<Brep, Cut(2)>>, <<Solid, Use("u")>>,
               <<Use("s"), Solid>>, <<Use("nowhere")>>},
        cap \in {<<3, 2>>, <<2, 4>>, <<0, 2>>}}

NoScene == [elements |-> {}, items |-> [s |-> <<>>], caps |-> [op |-> 0, element |-> 0]]
AllScenes == SceneList \cup {NoScene}
Alike == Permutations(PoolWorkers) \cup Permutations({house, annex})
-----------------------------------------------------------------------------
Init ==
    /\ SymbolInit /\ SessionInit /\ InstancingInit /\ PoolInit
    /\ \/ part = "symbols" /\ plan = {} /\ scene = NoScene
       \/ part = "session" /\ plan = {} /\ file = Ladder /\ scene = NoScene
       \/ part = "instancing" /\ plan # {} /\ file = Ladder /\ scene = NoScene
       \/ part = "pool" /\ plan = {} /\ file = Ladder /\ scene # NoScene

Next ==
    \/ part = "symbols" /\ SymbolNext /\ UNCHANGED <<part, sessionVars, instancingVars, poolVars>>
    \/ part = "session" /\ SessionNext /\ UNCHANGED <<part, symbolVars, instancingVars, poolVars>>
    \/ part = "instancing" /\ InstancingNext /\ UNCHANGED <<part, symbolVars, sessionVars, poolVars>>
    \/ part = "pool" /\ PoolNext /\ UNCHANGED <<part, symbolVars, sessionVars, instancingVars>>
=============================================================================
