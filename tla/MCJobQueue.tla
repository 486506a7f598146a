------------------------------ MODULE MCJobQueue ------------------------------
EXTENDS JobQueue, TLC

CONSTANTS j1, j2, triggered

\* Two analyses; as captures they are of one pair of addresses and of one second, for two
\* ports: two keys, one file name.
MCMixes == {{j1}, {j1, j2}}
MCKeyOf == j1 :> "port80" @@ j2 :> "port443"
MCNameOf == j1 :> triggered @@ j2 :> triggered
===============================================================================
