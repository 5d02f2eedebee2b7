SPECIFICATION PartsSpec
CONSTANTS Null = Null a1 = a1 a2 = a2 a3 = a3 b1 = b1 b2 = b2 c1 = c1 c2 = c2
SYMMETRY Symmetry
CHECK_DEADLOCK FALSE
INVARIANTS   RegistriesCorrect
 
