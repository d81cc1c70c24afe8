----------------------- MODULE MCConnectionStrategies -----------------------
(* Instances of ConnectionStrategies: the samples follow a satellite at 550   *)
(* km, coefficients scaled: while it rises both roots are in the past.        *)
EXTENDS ConnectionStrategies

At(elevation, a, b, c) == [elevation |-> elevation, a |-> a, b |-> b, c |-> c]

\* Rising, climbing, high, falling, setting, gone; then an even pass, low.
MCPass == <<At(1, 1, 2, 1), At(2, -1, 2, 8), At(3, -1, 0, 9), At(2, -1, -2, 8),
            At(1, 1, -4, 3), At(0, 1, -2, -3), At(1, 1, 0, 1), At(1, 0, -1, 2)>>
=============================================================================
