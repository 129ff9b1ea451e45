----------------------------- MODULE MCMapEditor -----------------------------
EXTENDS MapEditor

\* Four columns, the last one cut, on two layers, the upper one cut.
Long == [origin |-> <<1, 0, 0>>, extent |-> <<7, 2, 3>>, mult |-> 2, style |-> "plain"]
\* Two columns, the last one cut, two rows and two layers.
Deep == [origin |-> <<1, 0, 0>>, extent |-> <<3, 4, 4>>, mult |-> 2, style |-> "plain"]
LargeGrids == {Long, Deep, [Deep EXCEPT !.mult = 3]}

\* Two cells, the second one cut, and what may become of the grid.
Short == [origin |-> <<0, 0, 0>>, extent |-> <<3, 1, 1>>, mult |-> 2, style |-> "plain"]
OneGrid    == {Short}
SmallGrids == {Short, [Short EXCEPT !.style = "bold"], [Short EXCEPT !.mult = 1]}
=============================================================================
