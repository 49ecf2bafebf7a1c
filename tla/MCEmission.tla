------------------------------ MODULE MCEmission ------------------------------
EXTENDS Emission
CONSTANTS scrypt, x17

MCAlgo == {scrypt, x17}
MCContinued == {scrypt}
MCWeight == [a \in MCAlgo |-> IF a = scrypt THEN 1 ELSE 2]
MCEmissionPoints == <<<<8000, 200>>, <<9000, 150>>, <<10000, 100>>>>
MCDelays == {2, 25}
===============================================================================
