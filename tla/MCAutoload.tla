----------------------------- MODULE MCAutoload -----------------------------
(****************************************************************************)
(* Two or three files, with and without needs in a circle, loaded by the    *)
(* main program and three tasks.                                            *)
(****************************************************************************)
EXTENDS Autoload, TLC

CONSTANTS t1, t2, t3, base, child, sibling, A, B, C

\* child and sibling share a file and extend base.
Family ==
  [file    |-> base :> A @@ child :> B @@ sibling :> B,
   needs   |-> A :> <<>> @@ B :> <<base, child>>,
   parents |-> A :> {} @@ B :> {base}]

\* sibling extends child, which extends base, and implements base.
Diamond ==
  [file    |-> base :> A @@ child :> B @@ sibling :> C,
   needs   |-> A :> <<>> @@ B :> <<base>> @@ C :> <<base, child>>,
   parents |-> A :> {} @@ B :> {base} @@ C :> {base, child}]

\* base and child name each other, one of them perhaps only as an attribute.
Circle(parents) ==
  [file    |-> base :> A @@ child :> B @@ sibling :> B,
   needs   |-> A :> <<child>> @@ B :> <<base>>,
   parents |-> A :> {} @@ B :> parents]

\* Three files, each of which extends the next.
Ring ==
  [file    |-> base :> A @@ child :> B @@ sibling :> C,
   needs   |-> A :> <<child>> @@ B :> <<sibling>> @@ C :> <<base>>,
   parents |-> A :> {child} @@ B :> {sibling} @@ C :> {base}]

Loads(files, call) ==
  [file |-> files.file, needs |-> files.needs, parents |-> files.parents, call |-> call]

Symbol(n) == [kind |-> "symbol", key |-> n, once |-> TRUE]
File(u, once) == [kind |-> "unit", key |-> u, once |-> once]

Calls(main, c1, c2, c3) == Main :> main @@ t1 :> c1 @@ t2 :> c2 @@ t3 :> c3

MCScenarios ==
  { Loads(Family, Calls(Symbol(child), Symbol(sibling), Symbol(base), Symbol(child))),
    Loads(Diamond, Calls(File(C, TRUE), Symbol(child), Symbol(sibling), File(A, TRUE))),
    Loads(Family, Calls(File(B, FALSE), File(B, TRUE), File(B, FALSE), Symbol(base))),
    Loads(Circle({base}), Calls(Symbol(base), Symbol(child), Symbol(sibling), File(A, TRUE))),
    Loads(Circle({}), Calls(File(A, TRUE), Symbol(child), Symbol(base), Symbol(sibling))),
    Loads(Circle({}), Calls(File(B, FALSE), File(B, FALSE), Symbol(base), File(B, FALSE))),
    Loads(Ring, Calls(File(C, TRUE), Symbol(base), Symbol(child), Symbol(sibling))) }

==============================================================================
