----------------------------- MODULE MCRegistry -----------------------------
(***************************************************************************)
(* Two descriptors of one name that differ in a constant label, a third of   *)
(* that name with other label names, and one of another name; collectors of  *)
(* one, of several, of repeated and of no descriptors.                       *)
(***************************************************************************)
EXTENDS Registry, TLC

CONSTANTS x, y, p, q, get, put, other, up, Get, PutGet, Other, Twice, Put, Up, Nothing

MCDesc == {get, put, other, up}
MCName == {x, y}
MCDim == {p, q}
MCFqName == (get :> x) @@ (put :> x) @@ (other :> x) @@ (up :> y)
MCDimHash == (get :> p) @@ (put :> p) @@ (other :> q) @@ (up :> p)
MCId == (get :> 1) @@ (put :> 2) @@ (other :> 4) @@ (up :> 8)

MCCollector == {Get, PutGet, Other, Twice, Put, Up, Nothing}
MCDescs == (Get :> <<get>>) @@ (PutGet :> <<put, get>>) @@ (Other :> <<other>>)
             @@ (Twice :> <<other, other>>) @@ (Put :> <<put>>) @@ (Up :> <<up>>)
             @@ (Nothing :> <<>>)

=============================================================================
