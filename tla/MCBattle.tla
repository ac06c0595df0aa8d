------------------------------ MODULE MCBattle ------------------------------
(***************************************************************************)
(* One player and two aliens.  Two tiles are a step apart; the third is    *)
(* out of reach of both, and in full cover from the first and back.        *)
(***************************************************************************)
EXTENDS Battle

MCPlayers == <<"p1">>
MCAliens  == <<"a1", "a2">>
MCTiles   == {"t1", "t2", "t3"}
MCStart   == "p1" :> "t1" @@ "a1" :> "t2" @@ "a2" :> "t3"
MCSteps   == [pq \in MCTiles \X MCTiles |->
                IF pq[1] = pq[2] THEN 0 ELSE IF "t3" \in {pq[1], pq[2]} THEN 9 ELSE 1]
MCFullCover == {<<"t1", "t3">>, <<"t3", "t1">>}
MCInThrow   == MCTiles \X MCTiles
MCBlastOf   == [p \in MCTiles |-> {q \in MCTiles : MCSteps[<<p, q>>] <= 1}]
=============================================================================
