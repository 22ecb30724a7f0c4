----------------------------- MODULE MCRedirect -----------------------------
(* Four policlouds, so that the home set is a choice; two models, of which   *)
(* the client's key may use one or both.                                     *)
EXTENDS Redirect, TLC

CONSTANTS A, B, C, D, m1, m2, auto

MCSites == {A, B, C, D}
MCCountry == [s \in MCSites |-> IF s \in {A, B} THEN "FR" ELSE "DE"]
MCHome == A :> 1 @@ B :> 4 @@ C :> 3 @@ D :> 2
MCBySession == A :> 2 @@ B :> 3 @@ C :> 1 @@ D :> 4

\* A map that places both models everywhere, all warm; a newer one in which B
\* is full, C is cold and A may wake the model itself; and an invalid one.
Everywhere == {m1, m2} \X MCSites
MCDocs == {[version |-> 1, sites |-> MCSites, places |-> Everywhere,
            wakes |-> {}, cold |-> {}, full |-> {}],
           [version |-> 2, sites |-> MCSites \ {D}, places |-> Everywhere \ ({m1, m2} \X {D}),
            wakes |-> {m1, m2} \X {A, C}, cold |-> {m1, m2} \X {C}, full |-> {m1, m2} \X {B}],
           [version |-> 3, sites |-> {A}, places |-> {<<m1, B>>},
            wakes |-> {}, cold |-> {}, full |-> {}]}

MCServing == {None, A, B}

MCRequests == [site : {A}, model : {auto, m1}, hdr : {"absent", "all", "EU", "bad"},
               big : {FALSE}, keeps : BOOLEAN, followed : {0}]
              \cup [site : {A}, model : {m1}, hdr : {"all"}, big : {TRUE},
                    keeps : {TRUE}, followed : {0}]
=============================================================================
